--------------------------- MODULE StreamsProofs ---------------------------
(***************************************************************************)
(* The safety properties of Streams for every number of entries, ids,      *)
(* descriptors and tasks, and for every application.                       *)
(*                                                                         *)
(* The inductive invariant says which task holds, owns or makes which      *)
(* entry of the table, that the users of an entry are the tasks that refer *)
(* to it, and which descriptor belongs to which entry while one is being   *)
(* opened or closed.                                                       *)
(***************************************************************************)
EXTENDS Streams, TLAPS

USE ZenonT(60)

\* A task that uses its stream together with others, one that has it for
\* itself, one that waits for that, and one that creates a stream.
Refers(t) ==
  /\ call[t].op \in RefOps
  /\ pc[t] \in {"use", "accept_select", "accept", "created", "release"}
Owns(t) ==
  /\ call[t].op \notin RefOps
  /\ pc[t] \in {"use", "connect_select", "closed", "release"}
Waits(t) == pc[t] = "waiting"
Makes(t) == pc[t] \in {"open", "accept_select", "accept", "created"}
Holds(t) == Refers(t) \/ Owns(t) \/ Waits(t)

Refs(s) == {t \in Tasks : Refers(t) /\ S(t) = s}

\* Where a task is tells which call it is in.
SetUps == {"bind", "bindaddr", "listen", "connect", "bindlisten"}

CallOf(t) ==
  /\ pc[t] = "open" => call[t].op = "open"
  /\ pc[t] = "created" => call[t].op \in {"open", "accept"}
  /\ pc[t] \in {"accept_select", "accept"} => call[t].op = "accept"
  /\ pc[t] = "connect_select" => call[t].op = "connect"
  /\ pc[t] = "closed" => Closes(t)
  /\ pc[t] = "iterate" => call[t].op = "closeall"
  /\ pc[t] \in {"lookup", "use"} =>
       call[t].op \in RefOps \cup SetUps \cup {"close", "closeall"}
  /\ pc[t] = "waiting" => call[t].op \in SetUps \cup {"close", "closeall"}
  /\ pc[t] = "release" => call[t].op \in RefOps \cup SetUps
  /\ call[t].op \in RefOps \cup SetUps \cup {"close"} => call[t].id \in Ids
  /\ call[t].op # "closeall" /\ pc[t] \notin {"created", "release", "done"} =>
       call[t].rc = "ok"
  /\ Makes(t) => call[t].new \in Ids
  /\ call[t].id <= last_id /\ \A i \in call[t].ids : i <= last_id

\* The users of an entry are the tasks that refer to it; a task that makes or
\* owns it is alone.
ObjectOf(s) ==
  /\ obj[s].st = "free" => obj[s].id = NONE
  /\ obj[s].st # "free" =>
       obj[s].id \in Ids /\ SlotOf(obj[s].id) = s /\ obj[s].id <= last_id
  /\ obj[s].st \in {"valid", "waiting"} => obj[s].users = Cardinality(Refs(s))
  /\ obj[s].st \in {"free", "new", "exclusive"} => Refs(s) = {}

HolderOf(t) ==
  /\ Holds(t) => obj[S(t)].id = call[t].id /\ call[t].id \in Ids
  /\ Refers(t) => obj[S(t)].st \in {"valid", "waiting"}
  /\ Owns(t) => obj[S(t)].st = "exclusive"
  /\ Waits(t) => obj[S(t)].st = "waiting"
  /\ Makes(t) => obj[N(t)].st = "new" /\ obj[N(t)].id = call[t].new

Alone(t, v) ==
  /\ Owns(t) /\ Owns(v) /\ S(t) = S(v) => t = v
  /\ Waits(t) /\ Waits(v) /\ S(t) = S(v) => t = v
  /\ Makes(t) /\ Makes(v) /\ N(t) = N(v) => t = v

Calls   == \A t \in Tasks : CallOf(t)
Objects == \A s \in Slots : ObjectOf(s)
Holders == \A t \in Tasks : HolderOf(t) /\ \A v \in Tasks : Alone(t, v)

\* The descriptor of an entry, from the host's open to the host's close.
InUse(s) == obj[s].st \in {"valid", "waiting", "exclusive"}

DescriptorOf(s) ==
  /\ obj[s].st = "free" => fd[s] = CLOSED
  /\ InUse(s) => fd[s] # CLOSED
  /\ fd[s] # CLOSED /\ ~ Forgetting(s) => host[fd[s]] # "closed"
  /\ \A r \in Slots : fd[s] # CLOSED /\ fd[s] = fd[r] =>
       s = r \/ Forgetting(s) \/ Forgetting(r)

OwnerOf(f) ==
  host[f] # "closed" => \E s \in Slots : fd[s] = f /\ ~ Forgetting(s)

MakerOf(t) ==
  Makes(t) => (fd[N(t)] # CLOSED <=> pc[t] = "created" /\ call[t].rc = "ok")

Descriptors ==
  /\ \A s \in Slots : DescriptorOf(s)
  /\ \A f \in Fds : OwnerOf(f)
  /\ \A t \in Tasks : MakerOf(t)

FlagsOf(s) ==
  /\ obj[s].st # "free" /\ fd[s] # CLOSED /\ ~ Forgetting(s) =>
       /\ "BOUND" \in stream_state[s] => fd[s] \in bound
       /\ "LISTENING" \in stream_state[s] <=> host[fd[s]] = "listening"
       /\ "CONNECTED" \in stream_state[s] => host[fd[s]] = "connected"
  /\ obj[s].st = "new" /\ fd[s] = CLOSED => stream_state[s] = {}

Flags == \A s \in Slots : FlagsOf(s)

\* A socket that OS_SocketBind has seen listening goes on doing so.
Bound(t) ==
  /\ pc[t] \in {"release", "done"} /\ call[t].op = "bindlisten"
  /\ call[t].rc = "ok" /\ obj[S(t)].id = call[t].id

BindOf(t) ==
  Bound(t) =>
    /\ obj[S(t)].st # "new"
    /\ kind[S(t)] = "stream" => "LISTENING" \in stream_state[S(t)]

\* The streams at the places that OS_CloseAllFiles has passed are gone.
Gone(t, s) == obj[s].id \notin call[t].ids

ClosedOf(t) ==
  call[t].op = "closeall" /\ call[t].rc = "ok" =>
    /\ pc[t] = "iterate" => \A s \in Slots : s <= call[t].at => Gone(t, s)
    /\ pc[t] \in {"lookup", "waiting", "use", "closed"} =>
         /\ \A s \in Slots : s < call[t].at => Gone(t, s)
         /\ call[t].id # NONE => S(t) = call[t].at
    /\ pc[t] = "done" => \A s \in Slots : Gone(t, s)

Binds  == \A t \in Tasks : BindOf(t)
Closed == \A t \in Tasks : ClosedOf(t)

IInv == /\ TypeOK /\ Calls /\ Objects /\ Holders
        /\ Descriptors /\ Flags /\ Binds /\ Closed
-----------------------------------------------------------------------------
(* Facts about the operators.                                              *)

\* What the steps use about least elements and cardinalities. The library's
\* theorems give it at the end of the module.
Library ==
  /\ \A X \in SUBSET Nat : X # {} => Min(X) \in X /\ \A r \in X : Min(X) <= r
  /\ \A X \in SUBSET Tasks :
       /\ Cardinality(X) \in Nat /\ (Cardinality(X) = 0 <=> X = {})
       /\ \A t \in Tasks \ X : Cardinality(X \cup {t}) = Cardinality(X) + 1
       /\ \A t \in X : Cardinality(X \ {t}) = Cardinality(X) - 1

LEMMA MinIsLeast ==
  ASSUME Library, NEW X \in SUBSET Nat, X # {}
  PROVE  Min(X) \in X /\ \A r \in X : Min(X) <= r
  BY DEF Library

LEMMA SlotTyped ==
  /\ \A i \in Int : SlotOf(i) \in Slots
  /\ Slots \subseteq Nat /\ Ids \subseteq Nat /\ Fds \subseteq Nat
  /\ NONE \notin Nat /\ CLOSED \notin Nat
  /\ Ids \cup {NONE} \subseteq Int /\ Slots \cup {NONE} \subseteq Int
  BY StreamsAssumption, SMTT(30) DEF SlotOf, Slots, NONE, CLOSED

\* The slots of a task's call are slots.
LEMMA TaskSlots ==
  ASSUME TypeOK, NEW t \in Tasks
  PROVE  S(t) \in Slots /\ N(t) \in Slots
<1>1. call[t] \in CallType
  BY DEF TypeOK
<1>2. call[t].id \in Int /\ call[t].new \in Int
  BY <1>1, SlotTyped DEF CallType
<1>. QED
  BY <1>2, SlotTyped DEF S, N

\* A step of task t: the others stay where they are.
Moves(t) ==
  /\ pc' \in [Tasks -> Pcs] /\ call' \in [Tasks -> CallType] /\ app' = app
  /\ \A v \in Tasks \ {t} : pc'[v] = pc[v] /\ call'[v] = call[v]

LEMMA OtherTask ==
  ASSUME NEW v, pc'[v] = pc[v], call'[v] = call[v]
  PROVE  /\ (Refers(v)' <=> Refers(v)) /\ (Owns(v)' <=> Owns(v))
         /\ (Waits(v)' <=> Waits(v)) /\ (Makes(v)' <=> Makes(v))
         /\ (Holds(v)' <=> Holds(v)) /\ S(v)' = S(v) /\ N(v)' = N(v)
  BY DEF Refers, Owns, Waits, Makes, Holds, S, N

LEMMA ForgettingStep ==
  ASSUME NEW t \in Tasks, Moves(t), NEW s,
         (pc[t] = "closed" /\ S(t) = s) <=> (pc'[t] = "closed" /\ S(t)' = s)
  PROVE  Forgetting(s)' <=> Forgetting(s)
  BY DEF Forgetting, Moves, S

LEMMA RefsStep ==
  ASSUME Library, NEW t \in Tasks, Moves(t), NEW s
  PROVE  /\ (t \in Refs(s)' <=> t \in Refs(s)) => Refs(s)' = Refs(s)
         /\ t \in Refs(s)' /\ t \notin Refs(s) =>
              Cardinality(Refs(s)') = Cardinality(Refs(s)) + 1
         /\ t \notin Refs(s)' /\ t \in Refs(s) =>
              Cardinality(Refs(s)') = Cardinality(Refs(s)) - 1
<1>1. \A v \in Tasks \ {t} : v \in Refs(s)' <=> v \in Refs(s)
  BY OtherTask DEF Moves, Refs
<1>2. Refs(s) \subseteq Tasks /\ Refs(s)' \subseteq Tasks
  BY DEF Refs
<1>4. CASE t \in Refs(s)' /\ t \notin Refs(s)
  <2>1. Refs(s)' = Refs(s) \cup {t}
    BY <1>1, <1>2, <1>4
  <2>. QED
    BY <1>2, <1>4, <2>1 DEF Library
<1>5. CASE t \notin Refs(s)' /\ t \in Refs(s)
  <2>1. Refs(s)' = Refs(s) \ {t}
    BY <1>1, <1>2, <1>5
  <2>. QED
    BY <1>2, <1>5, <2>1 DEF Library
<1>6. CASE t \in Refs(s)' <=> t \in Refs(s)
  BY <1>1, <1>2, <1>6, SMTT(30)
<1>. QED
  BY <1>4, <1>5, <1>6

LEMMA RefsFinite ==
  ASSUME Library, NEW s
  PROVE  /\ Cardinality(Refs(s)) \in Nat
         /\ Cardinality(Refs(s)) = 0 <=> Refs(s) = {}
<1>1. Refs(s) \in SUBSET Tasks
  BY DEF Refs
<1>. QED
  BY <1>1 DEF Library

-----------------------------------------------------------------------------
(* What a step leaves as it is.                                            *)

LEMMA CallsStep ==
  ASSUME NEW t \in Tasks, Moves(t), TypeOK, TypeOK', Calls, CallOf(t)',
         last_id <= last_id'
  PROVE  Calls'
<1>1. ASSUME NEW v \in Tasks \ {t} PROVE CallOf(v)'
  <2>1. CallOf(v) /\ pc'[v] = pc[v] /\ call'[v] = call[v]
    BY DEF Calls, Moves
  <2>2. call[v] \in CallType /\ last_id \in Ids \cup {NONE} /\ last_id' \in Ids \cup {NONE}
    BY DEF TypeOK
  <2>3. call[v].id <= last_id' /\ \A i \in call[v].ids : i <= last_id'
    BY <2>1, <2>2, SlotTyped, SMTT(30) DEF CallOf, CallType
  <2>. QED
    BY <2>1, <2>3, OtherTask DEF CallOf, Closes
<1>. QED
  BY <1>1 DEF Calls

\* The task stays what it is for the stream it uses and the one it makes.
SameRole(t) ==
  /\ (Refers(t)' <=> Refers(t)) /\ (Owns(t)' <=> Owns(t))
  /\ (Waits(t)' <=> Waits(t)) /\ (Makes(t)' <=> Makes(t))
  /\ Holds(t) => call'[t].id = call[t].id
  /\ Makes(t) => call'[t].new = call[t].new

LEMMA RolesKept ==
  ASSUME Library, NEW t \in Tasks, Moves(t), SameRole(t), obj' = obj,
         last_id' = last_id,
         Objects, Holders
  PROVE  Objects' /\ Holders'
<1>1. /\ Holds(t)' <=> Holds(t)
      /\ Holds(t) => S(t)' = S(t) /\ call'[t].id = call[t].id
      /\ Makes(t) => N(t)' = N(t) /\ call'[t].new = call[t].new
  BY DEF SameRole, Holds, S, N
<1>2. ASSUME NEW s \in Slots PROVE Refs(s)' = Refs(s)
  BY <1>1, RefsStep DEF SameRole, Holds, Refs
<1>3. Objects'
  BY <1>2 DEF Objects, ObjectOf
<1>4. ASSUME NEW v \in Tasks
      PROVE  /\ (Refers(v)' <=> Refers(v)) /\ (Owns(v)' <=> Owns(v))
             /\ (Waits(v)' <=> Waits(v)) /\ (Makes(v)' <=> Makes(v))
             /\ (Holds(v)' <=> Holds(v))
             /\ Holds(v) => S(v)' = S(v) /\ call'[v].id = call[v].id
             /\ Makes(v) => N(v)' = N(v) /\ call'[v].new = call[v].new
  BY <1>1, OtherTask DEF Moves, SameRole
<1>5. Holders'
  BY <1>4, SMTT(30) DEF Holders, HolderOf, Alone, Holds
<1>. QED
  BY <1>3, <1>5

LEMMA ForgettingKept ==
  ASSUME NEW t \in Tasks, Moves(t), pc[t] # "closed", pc'[t] # "closed", NEW s
  PROVE  Forgetting(s)' <=> Forgetting(s)
  BY ForgettingStep

LEMMA DescriptorsKept ==
  ASSUME NEW t \in Tasks, Moves(t), pc[t] # "closed", pc'[t] # "closed",
         fd' = fd, \A f \in Fds : host'[f] = "closed" <=> host[f] = "closed",
         \A s \in Slots : /\ obj'[s].st = "free" => obj[s].st = "free"
                          /\ InUse(s)' => InUse(s),
         TypeOK, Descriptors, MakerOf(t)'
  PROVE  Descriptors'
<1>1. ASSUME NEW s \in Slots PROVE DescriptorOf(s)'
  <2>1. DescriptorOf(s) /\ fd[s] \in Fds \cup {CLOSED}
    BY DEF Descriptors, TypeOK
  <2>. QED
    BY <2>1, ForgettingKept DEF DescriptorOf
<1>2. ASSUME NEW f \in Fds PROVE OwnerOf(f)'
  BY ForgettingKept DEF Descriptors, OwnerOf
<1>3. ASSUME NEW v \in Tasks \ {t} PROVE MakerOf(v)'
  BY OtherTask, SMTT(30) DEF Descriptors, MakerOf, Moves
<1>. QED
  BY <1>1, <1>2, <1>3 DEF Descriptors

LEMMA FlagsKept ==
  ASSUME NEW t \in Tasks, Moves(t), pc[t] # "closed", pc'[t] # "closed",
         UNCHANGED <<fd, host, bound, stream_state>>,
         \A s \in Slots : /\ obj[s].st = "free" => obj'[s].st = "free"
                          /\ obj'[s].st = "new" => obj[s].st = "new",
         Flags
  PROVE  Flags'
<1>1. ASSUME NEW s \in Slots PROVE FlagsOf(s)'
  BY ForgettingKept DEF Flags, FlagsOf
<1>. QED
  BY <1>1 DEF Flags

\* Only the flags and the descriptor of one entry change.
LEMMA FlagsStep ==
  ASSUME NEW s \in Slots, Flags, FlagsOf(s)',
         \A r \in Slots \ {s} :
           /\ obj'[r] = obj[r] /\ fd'[r] = fd[r]
           /\ stream_state'[r] = stream_state[r]
           /\ Forgetting(r)' <=> Forgetting(r)
           /\ fd[r] # CLOSED /\ ~ Forgetting(r) =>
                /\ host'[fd[r]] = host[fd[r]]
                /\ fd[r] \in bound => fd[r] \in bound'
  PROVE  Flags'
<1>1. ASSUME NEW r \in Slots \ {s} PROVE FlagsOf(r)'
  <2>1. FlagsOf(r)
    BY DEF Flags
  <2>. QED
    BY <2>1 DEF FlagsOf
<1>. QED
  BY <1>1 DEF Flags

\* A stream keeps its kind and its flags until its entry is free, and ids are
\* not issued twice.
SlotKept(s) ==
  \/ /\ obj'[s].id \in {obj[s].id, NONE}
     /\ obj'[s].st = "new" => obj[s].st = "new"
     /\ kind'[s] = kind[s] /\ stream_state[s] \subseteq stream_state'[s]
  \/ last_id < obj'[s].id

LEMMA BindsStep ==
  ASSUME NEW t \in Tasks, Moves(t), \A s \in Slots : SlotKept(s),
         TypeOK, Calls, Binds, Closed, BindOf(t)', ClosedOf(t)'
  PROVE  Binds' /\ Closed'
<1>1. ASSUME NEW v \in Tasks \ {t} PROVE BindOf(v)' /\ ClosedOf(v)'
  <2>1. /\ CallOf(v) /\ BindOf(v) /\ ClosedOf(v)
        /\ pc'[v] = pc[v] /\ call'[v] = call[v] /\ S(v)' = S(v) /\ S(v) \in Slots
    BY OtherTask, TaskSlots DEF Calls, Binds, Closed, Moves
  <2>2. call[v] \in CallType /\ last_id \in Int
    BY SlotTyped DEF TypeOK
  <2>3. BindOf(v)'
    <3>1. SUFFICES ASSUME Bound(v)' PROVE Bound(v) /\ SlotKept(S(v)) /\ ~ (last_id < obj'[S(v)].id)
      BY <2>1, <3>1 DEF BindOf, Bound, SlotKept
    <3>2. call[v].id \in Ids /\ call[v].id <= last_id /\ obj'[S(v)].id = call[v].id
      BY <2>1, <3>1 DEF Bound, CallOf, SetUps
    <3>3. ~ (last_id < obj'[S(v)].id) /\ call[v].id # NONE
      BY <2>2, <3>2, SlotTyped, SMTT(30)
    <3>. QED
      BY <2>1, <3>1, <3>3 DEF Bound, SlotKept
  <2>4. ASSUME NEW s \in Slots, Gone(v, s) PROVE Gone(v, s)'
    BY <2>1, <2>2, <2>4, SlotTyped, SMTT(30)
    DEF Gone, SlotKept, CallOf, CallType
  <2>5. ClosedOf(v)'
    BY <2>1, <2>4 DEF ClosedOf
  <2>. QED
    BY <2>3, <2>5
<1>. QED
  BY <1>1 DEF Binds, Closed

\* A task that is closing its stream has it for itself.
LEMMA ForgettingOwns ==
  ASSUME Calls, NEW v \in Tasks, pc[v] = "closed"
  PROVE  Owns(v)
  BY DEF Calls, CallOf, Closes, Owns, RefOps

\* What a task that uses a stream may rely on.
LEMMA UserFacts ==
  ASSUME IInv, NEW t \in Tasks, Refers(t) \/ Owns(t), pc[t] # "closed"
  PROVE  /\ S(t) \in Slots /\ InUse(S(t)) /\ ~ Forgetting(S(t))
         /\ obj[S(t)].id = call[t].id
         /\ fd[S(t)] \in Fds /\ host[fd[S(t)]] # "closed"
         /\ \A r \in Slots \ {S(t)} :
              fd[r] # CLOSED /\ ~ Forgetting(r) => fd[r] # fd[S(t)]
<1>1. TypeOK /\ Calls /\ Holders /\ Descriptors
  BY DEF IInv
<1>2. S(t) \in Slots /\ InUse(S(t)) /\ obj[S(t)].id = call[t].id
  BY <1>1, TaskSlots DEF Holders, HolderOf, Holds, InUse
<1>3. ~ Forgetting(S(t))
  <2>1. ASSUME NEW v \in Tasks, pc[v] = "closed", S(v) = S(t) PROVE FALSE
    BY <1>1, <2>1, ForgettingOwns DEF Holders, HolderOf, Alone
  <2>. QED
    BY <2>1 DEF Forgetting
<1>4. fd[S(t)] \in Fds /\ host[fd[S(t)]] # "closed"
  BY <1>1, <1>2, <1>3 DEF Descriptors, DescriptorOf, TypeOK
<1>5. ASSUME NEW r \in Slots \ {S(t)}, fd[r] # CLOSED, ~ Forgetting(r)
      PROVE  fd[r] # fd[S(t)]
  BY <1>1, <1>2, <1>3, <1>5 DEF Descriptors, DescriptorOf
<1>. QED
  BY <1>2, <1>3, <1>4, <1>5

\* What a task that makes a stream may rely on.
LEMMA MakerFacts ==
  ASSUME IInv, NEW t \in Tasks, Makes(t)
  PROVE  /\ N(t) \in Slots /\ obj[N(t)].st = "new" /\ ~ Forgetting(N(t))
         /\ obj[N(t)].id = call[t].new
         /\ pc[t] # "created" => fd[N(t)] = CLOSED /\ stream_state[N(t)] = {}
<1>1. TypeOK /\ Calls /\ Holders /\ Descriptors /\ Flags
  BY DEF IInv
<1>2. N(t) \in Slots /\ obj[N(t)].st = "new" /\ obj[N(t)].id = call[t].new
  BY <1>1, TaskSlots DEF Holders, HolderOf
<1>3. ~ Forgetting(N(t))
  BY <1>1, ForgettingOwns DEF Holders, HolderOf, Forgetting
<1>4. ASSUME pc[t] # "created" PROVE fd[N(t)] = CLOSED /\ stream_state[N(t)] = {}
  BY <1>1, <1>2, <1>4 DEF Descriptors, MakerOf, Flags, FlagsOf
<1>. QED
  BY <1>2, <1>3, <1>4

\* A step that changes neither the table nor the host.
LEMMA QuietStep ==
  ASSUME Library, IInv, NEW t \in Tasks, Moves(t), UNCHANGED <<obj, table,
         kernel>>,
         pc[t] # "closed", pc'[t] # "closed", SameRole(t),
         CallOf(t)', MakerOf(t)', BindOf(t)', ClosedOf(t)'
  PROVE  IInv'
<1>1. /\ TypeOK /\ Calls /\ Objects /\ Holders
      /\ Descriptors /\ Flags /\ Binds /\ Closed
  BY DEF IInv
<1>2. /\ obj' = obj /\ last_id' = last_id /\ kind' = kind
      /\ fd' = fd /\ stream_state' = stream_state
      /\ host' = host /\ bound' = bound /\ queue' = queue
  BY DEF table, kernel
<1>3. TypeOK'
  BY <1>1, <1>2 DEF TypeOK, TypeOfObj, Moves
<1>4. last_id <= last_id'
  BY <1>1, <1>2, SlotTyped, SMTT(30) DEF TypeOK
<1>5. Calls' /\ Objects' /\ Holders'
  BY <1>1, <1>2, <1>3, <1>4, CallsStep, RolesKept
<1>6. Descriptors' /\ Flags'
  BY <1>1, <1>2, DescriptorsKept, FlagsKept DEF InUse
<1>7. \A s \in Slots : SlotKept(s)
  BY <1>2 DEF SlotKept
<1>8. Binds' /\ Closed'
  BY <1>1, <1>7, BindsStep
<1>. QED
  BY <1>3, <1>5, <1>6, <1>8 DEF IInv

-----------------------------------------------------------------------------
(* The calls that end early, wait or look at the table.                    *)

\* The call stays what it is but for its return code.
SameCall(t) ==
  /\ call'[t].op = call[t].op /\ call'[t].id = call[t].id
  /\ call'[t].new = call[t].new /\ call'[t].at = call[t].at
  /\ call'[t].ids = call[t].ids

LEMMA FailStep ==
  ASSUME TypeOK, NEW t \in Tasks, Fail(t)
  PROVE  /\ call' \in [Tasks -> CallType] /\ SameCall(t) /\ call'[t].rc = "error"
         /\ \A v \in Tasks \ {t} : call'[v] = call[v]
  BY DEF TypeOK, Fail, Set, CallType, SameCall

LEMMA GotoStep ==
  ASSUME TypeOK, NEW t \in Tasks, NEW from, NEW to \in Pcs, Goto(t, from, to)
  PROVE  /\ pc[t] = from /\ pc' \in [Tasks -> Pcs] /\ pc'[t] = to /\ app' = app
         /\ \A v \in Tasks \ {t} : pc'[v] = pc[v]
  BY DEF TypeOK, Goto

LEMMA IdleTyped == Idle \in CallType
  BY DEF Idle, CallType, Ops

LEMMA LastId == ASSUME TypeOK PROVE last_id \in Int /\ NONE <= last_id
  BY StreamsAssumption, SMTT(30) DEF TypeOK, NONE

LEMMA LastIdKept == ASSUME TypeOK, last_id' = last_id PROVE last_id <= last_id'
  BY LastId, SMTT(30)

LEMMA ConnectTimeoutInv ==
  ASSUME Library, NEW t \in Tasks, IInv, ConnectTimeout(t)
  PROVE  IInv'
<1>1. /\ TypeOK /\ Calls /\ CallOf(t) /\ MakerOf(t) /\ BindOf(t) /\ ClosedOf(t)
      /\ last_id' = last_id
  BY DEF IInv, Calls, Descriptors, Binds, Closed, ConnectTimeout, table
<1>2. /\ Moves(t) /\ pc[t] = "connect_select" /\ pc'[t] = "release"
      /\ SameCall(t) /\ call'[t].rc = "error"
  BY <1>1, GotoStep, FailStep DEF ConnectTimeout, Moves, Pcs
<1>3. SameRole(t)
  BY <1>1, <1>2
  DEF SameRole, Refers, Owns, Waits, Makes, SameCall, CallOf, RefOps
<1>4. CallOf(t)'
  BY <1>1, <1>2 DEF CallOf, Makes, SameCall, RefOps, SetUps
<1>5. MakerOf(t)' /\ BindOf(t)' /\ ClosedOf(t)'
  BY <1>2 DEF MakerOf, BindOf, Bound, ClosedOf, Makes, SameCall
<1>. QED
  BY <1>2, <1>3, <1>4, <1>5, QuietStep DEF ConnectTimeout

LEMMA AcceptFailsInv ==
  ASSUME Library, NEW t \in Tasks, IInv, AcceptFails(t)
  PROVE  IInv'
<1>1. /\ TypeOK /\ Calls /\ CallOf(t) /\ MakerOf(t) /\ BindOf(t) /\ ClosedOf(t)
      /\ last_id' = last_id
  BY DEF IInv, Calls, Descriptors, Binds, Closed, AcceptFails, table
<1>2. /\ Moves(t) /\ pc[t] = "use" /\ pc'[t] = "release" /\ call[t].op = "accept"
      /\ SameCall(t) /\ call'[t].rc = "error"
  BY <1>1, GotoStep, FailStep DEF AcceptFails, Moves, Pcs
<1>3. SameRole(t)
  BY <1>2 DEF SameRole, Refers, Owns, Waits, Makes, SameCall, RefOps
<1>4. CallOf(t)'
  BY <1>1, <1>2 DEF CallOf, Closes, Makes, SameCall, RefOps, SetUps
<1>5. MakerOf(t)' /\ BindOf(t)' /\ ClosedOf(t)'
  BY <1>2 DEF MakerOf, BindOf, Bound, ClosedOf, Makes
<1>. QED
  BY <1>2, <1>3, <1>4, <1>5, QuietStep DEF AcceptFails

LEMMA AcceptTimeoutInv ==
  ASSUME Library, NEW t \in Tasks, IInv, AcceptTimeout(t)
  PROVE  IInv'
<1>1. /\ TypeOK /\ Calls /\ CallOf(t) /\ MakerOf(t) /\ BindOf(t) /\ ClosedOf(t)
      /\ last_id' = last_id
  BY DEF IInv, Calls, Descriptors, Binds, Closed, AcceptTimeout, table
<1>2. /\ Moves(t) /\ pc[t] = "accept_select" /\ pc'[t] = "created"
      /\ SameCall(t) /\ call'[t].rc = "error"
  BY <1>1, GotoStep, FailStep DEF AcceptTimeout, Moves, Pcs
<1>3. SameRole(t)
  BY <1>2 DEF SameRole, Refers, Owns, Waits, Makes, SameCall
<1>4. CallOf(t)'
  BY <1>1, <1>2 DEF CallOf, Makes, SameCall, SetUps
<1>5. MakerOf(t)' /\ BindOf(t)' /\ ClosedOf(t)'
  BY <1>1, <1>2
  DEF MakerOf, BindOf, Bound, ClosedOf, Makes, SameCall, N, S, AcceptTimeout,
      table
<1>. QED
  BY <1>2, <1>3, <1>4, <1>5, QuietStep DEF AcceptTimeout

LEMMA LookupFailsInv ==
  ASSUME Library, NEW t \in Tasks, IInv, LookupFails(t)
  PROVE  IInv'
<1>1. /\ TypeOK /\ Calls /\ CallOf(t) /\ MakerOf(t) /\ BindOf(t) /\ ClosedOf(t)
      /\ last_id' = last_id
  BY DEF IInv, Calls, Descriptors, Binds, Closed, LookupFails, table
<1>2. /\ Moves(t) /\ pc[t] = "lookup" /\ pc'[t] = After(t)
      /\ SameCall(t) /\ call'[t].rc = "error"
  BY <1>1, GotoStep, FailStep DEF LookupFails, After, Moves, Pcs
<1>3. SameRole(t)
  BY <1>2 DEF SameRole, Refers, Owns, Waits, Makes, SameCall, After
<1>4. CallOf(t)'
  BY <1>1, <1>2 DEF CallOf, Closes, Makes, SameCall, After
<1>5. MakerOf(t)' /\ BindOf(t)' /\ ClosedOf(t)'
  BY <1>2 DEF MakerOf, BindOf, Bound, ClosedOf, Makes, SameCall, After
<1>. QED
  BY <1>2, <1>3, <1>4, <1>5, QuietStep DEF LookupFails, After

LEMMA AcceptReadyInv ==
  ASSUME Library, NEW t \in Tasks, IInv, AcceptReady(t)
  PROVE  IInv'
<1>1. /\ TypeOK /\ Calls /\ CallOf(t) /\ MakerOf(t) /\ BindOf(t) /\ ClosedOf(t)
      /\ last_id' = last_id
  BY DEF IInv, Calls, Descriptors, Binds, Closed, AcceptReady, table
<1>2. /\ Moves(t) /\ pc[t] = "accept_select" /\ pc'[t] = "accept"
      /\ call' = call /\ fd' = fd
  BY <1>1, GotoStep DEF AcceptReady, Moves, Pcs, TypeOK, table
<1>3. SameRole(t)
  BY <1>2 DEF SameRole, Refers, Owns, Waits, Makes, Holds
<1>4. CallOf(t)'
  BY <1>1, <1>2 DEF CallOf, Makes
<1>5. MakerOf(t)' /\ BindOf(t)' /\ ClosedOf(t)'
  BY <1>1, <1>2 DEF MakerOf, BindOf, Bound, ClosedOf, Makes, CallOf, N
<1>. QED
  BY <1>2, <1>3, <1>4, <1>5, QuietStep DEF AcceptReady

LEMMA TransferInv ==
  ASSUME Library, NEW t \in Tasks, IInv, Transfer(t)
  PROVE  IInv'
<1>1. /\ TypeOK /\ Calls /\ CallOf(t) /\ MakerOf(t) /\ BindOf(t) /\ ClosedOf(t)
      /\ last_id' = last_id
  BY DEF IInv, Calls, Descriptors, Binds, Closed, Transfer, table
<1>2. /\ Moves(t) /\ pc[t] = "use" /\ pc'[t] = "release"
      /\ call[t].op \in {"read", "recv", "send"} /\ SameCall(t)
  BY <1>1, GotoStep, FailStep
  DEF Transfer, Moves, Pcs, TypeOK, SameCall
<1>3. SameRole(t)
  BY <1>2 DEF SameRole, Refers, Owns, Waits, Makes, Holds, SameCall, RefOps
<1>4. CallOf(t)'
  BY <1>1, <1>2 DEF CallOf, Closes, Makes, SameCall
<1>5. MakerOf(t)' /\ BindOf(t)' /\ ClosedOf(t)'
  BY <1>2 DEF MakerOf, BindOf, Bound, ClosedOf, Makes, SameCall
<1>. QED
  BY <1>2, <1>3, <1>4, <1>5, QuietStep DEF Transfer

LEMMA DoneInv == ASSUME Library, NEW t \in Tasks, IInv, Done(t) PROVE IInv'
<1>1. /\ TypeOK /\ Calls /\ CallOf(t) /\ MakerOf(t) /\ BindOf(t) /\ ClosedOf(t)
      /\ last_id' = last_id
  BY DEF IInv, Calls, Descriptors, Binds, Closed, Done, table
<1>2. /\ Moves(t) /\ pc[t] = "done" /\ pc'[t] = "idle" /\ call'[t] = Idle
  BY <1>1, GotoStep, IdleTyped DEF Done, Moves, Pcs, TypeOK
<1>3. SameRole(t)
  BY <1>2 DEF SameRole, Refers, Owns, Waits, Makes, Holds
<1>4. CallOf(t)'
  BY <1>1, <1>2, LastId, SMTT(30) DEF CallOf, Makes, Idle, RefOps, SetUps
<1>5. MakerOf(t)' /\ BindOf(t)' /\ ClosedOf(t)'
  BY <1>2 DEF MakerOf, BindOf, Bound, ClosedOf, Makes
<1>. QED
  BY <1>2, <1>3, <1>4, <1>5, QuietStep DEF Done

LEMMA CallInv == ASSUME Library, NEW t \in Tasks, IInv, Call(t) PROVE IInv'
<1>1. TypeOK /\ last_id' = last_id
  BY DEF IInv, Call, table
<1>2. PICK op \in RefOps \cup ExclOps, i \in Ids :
        /\ i <= last_id
        /\ call' = [call EXCEPT ![t] = [Idle EXCEPT !.op = op, !.id = i]]
  BY DEF Call
<1>3. [Idle EXCEPT !.op = op, !.id = i] \in CallType
  BY DEF Idle, CallType, Ops
<1>4. /\ Moves(t) /\ pc[t] = "idle" /\ pc'[t] = "lookup"
      /\ call'[t] = [Idle EXCEPT !.op = op, !.id = i]
  BY <1>1, <1>2, <1>3, GotoStep DEF Call, Moves, Pcs, TypeOK
<1>5. SameRole(t)
  BY <1>4 DEF SameRole, Refers, Owns, Waits, Makes, Holds
<1>6. CallOf(t)'
  <2>1. /\ call'[t].op = op /\ call'[t].id = i /\ call'[t].rc = "ok"
        /\ call'[t].ids = {}
    BY <1>4 DEF Idle
  <2>. QED
    BY <1>1, <1>2, <1>4, <2>1 DEF CallOf, Makes, RefOps, ExclOps, SetUps
<1>7. MakerOf(t)' /\ BindOf(t)' /\ ClosedOf(t)'
  BY <1>4, SMTT(30)
  DEF MakerOf, BindOf, Bound, ClosedOf, Makes, RefOps, ExclOps
<1>. QED
  BY <1>4, <1>5, <1>6, <1>7, QuietStep DEF Call

\* The ids in the table when OS_CloseAllFiles begins have been issued.
LEMMA CloseAllFilesInv ==
  ASSUME Library, NEW t \in Tasks, IInv, CloseAllFiles(t) PROVE IInv'
<1> DEFINE c == [Idle EXCEPT !.op = "closeall",
                    !.ids = {i \in Ids : obj[SlotOf(i)].id = i
                                         /\ obj[SlotOf(i)].st # "new"}]
<1>1. TypeOK /\ Objects /\ last_id' = last_id
  BY DEF IInv, CloseAllFiles, table
<1>2. /\ c \in CallType /\ c.op = "closeall" /\ c.id = NONE /\ c.at = NONE
      /\ c.rc = "ok" /\ c.ids \subseteq {i \in Ids : obj[SlotOf(i)].id = i}
  BY DEF Idle, CallType, Ops
<1>3. call' = [call EXCEPT ![t] = c]
  BY DEF CloseAllFiles
<1> HIDE DEF c
<1>4. /\ Moves(t) /\ pc[t] = "idle" /\ pc'[t] = "iterate" /\ call'[t] = c
  BY <1>1, <1>2, <1>3, GotoStep, SMTT(30) DEF CloseAllFiles, Moves, Pcs, TypeOK
<1>5. SameRole(t)
  BY <1>4 DEF SameRole, Refers, Owns, Waits, Makes, Holds
<1>6. ASSUME NEW i \in c.ids PROVE i <= last_id
  <2>1. i \in Ids /\ SlotOf(i) \in Slots /\ obj[SlotOf(i)].id = i
    BY <1>2, SlotTyped
  <2>. QED
    BY <1>1, <2>1, SlotTyped DEF Objects, ObjectOf
<1>7. CallOf(t)'
  BY <1>1, <1>2, <1>4, <1>6, LastId DEF CallOf, Makes, RefOps, SetUps
<1>8. \A s \in Slots : ~ (s <= NONE)
  BY SlotTyped, SMTT(30)
<1>9. MakerOf(t)' /\ BindOf(t)' /\ ClosedOf(t)'
  BY <1>2, <1>4, <1>8 DEF MakerOf, BindOf, Bound, ClosedOf, Makes
<1>. QED
  BY <1>4, <1>5, <1>7, <1>9, QuietStep DEF CloseAllFiles

\* The iterator passes over free entries only, which have no id.
Rest(t) == {s \in Slots : s > call[t].at /\ Active(s)}

LEMMA IterateInv ==
  ASSUME Library, NEW t \in Tasks, IInv, Iterate(t)
  PROVE  IInv'
<1> DEFINE m == Min(Rest(t))
           id == IF obj[m].st = "valid" THEN obj[m].id ELSE NONE
<1>1. /\ TypeOK /\ Objects /\ CallOf(t) /\ ClosedOf(t)
      /\ last_id' = last_id /\ obj' = obj
  BY DEF IInv, Calls, Closed, Iterate, table
<1>2. call[t] \in CallType /\ call[t].at \in Int
  BY <1>1, SlotTyped DEF TypeOK, CallType
<1>3. ASSUME NEW s \in Slots, s > call[t].at, s \notin Rest(t) PROVE Gone(t, s)
  BY <1>1, <1>2, <1>3, SlotTyped
  DEF Rest, Active, Objects, ObjectOf, Gone, CallType
<1>4. pc[t] = "iterate" /\ call[t].op = "closeall"
  BY <1>1 DEF Iterate, Goto, CallOf
<1>5. CASE Rest(t) = {}
  <2>1. Moves(t) /\ pc'[t] = "done" /\ call' = call
    BY <1>1, <1>5, GotoStep DEF Iterate, Rest, Moves, Pcs, TypeOK
  <2>2. SameRole(t)
    BY <1>4, <2>1 DEF SameRole, Refers, Owns, Waits, Makes, Holds
  <2>3. CallOf(t)'
    BY <1>1, <1>4, <2>1 DEF CallOf, Makes
  <2>4. MakerOf(t)' /\ BindOf(t)'
    BY <1>4, <2>1 DEF MakerOf, BindOf, Bound, Makes
  <2>5. ClosedOf(t)'
    <3>1. ASSUME call[t].rc = "ok", NEW s \in Slots PROVE Gone(t, s)
      BY <1>1, <1>2, <1>3, <1>4, <1>5, <3>1, SlotTyped, SMTT(30) DEF ClosedOf
    <3>. QED
      BY <1>1, <2>1, <3>1 DEF ClosedOf, Gone
  <2>. QED
    BY <1>4, <2>1, <2>2, <2>3, <2>4, <2>5, QuietStep DEF Iterate
<1>6. CASE Rest(t) # {}
  <2>1. m \in Rest(t) /\ \A r \in Rest(t) : m <= r
    BY <1>6, SlotTyped, MinIsLeast DEF Rest
  <2>2. m \in Slots /\ id \in Ids \cup {NONE} /\ id <= last_id
    BY <1>1, <2>1, LastId DEF Rest, Objects, ObjectOf
  <2>3. id # NONE => SlotOf(id) = m
    BY <1>1, <2>2 DEF Objects, ObjectOf
  <2>4. call' = [call EXCEPT ![t].at = m, ![t].id = id] /\ Goto(t, "iterate", "lookup")
    BY <1>6 DEF Iterate, Rest
  <2> HIDE DEF m, id
  <2>5. /\ call' \in [Tasks -> CallType] /\ call'[t].at = m /\ call'[t].id = id
        /\ call'[t].op = "closeall" /\ call'[t].rc = call[t].rc
        /\ call'[t].ids = call[t].ids
        /\ \A v \in Tasks \ {t} : call'[v] = call[v]
    BY <1>1, <1>4, <2>2, <2>4 DEF TypeOK, CallType
  <2>6. Moves(t) /\ pc'[t] = "lookup"
    BY <1>1, <2>4, <2>5, GotoStep DEF Moves, Pcs
  <2>7. SameRole(t)
    BY <1>4, <2>6 DEF SameRole, Refers, Owns, Waits, Makes, Holds
  <2>8. CallOf(t)'
    BY <1>1, <2>2, <2>5, <2>6 DEF CallOf, Makes, RefOps, SetUps
  <2>9. MakerOf(t)' /\ BindOf(t)'
    BY <2>6 DEF MakerOf, BindOf, Bound, Makes
  <2>10. ASSUME call[t].rc = "ok", NEW s \in Slots, s < m PROVE Gone(t, s)
    <3>1. CASE s <= call[t].at
      BY <1>1, <1>4, <2>10, <3>1 DEF ClosedOf
    <3>2. CASE s > call[t].at
      <4>1. s \notin Rest(t)
        BY <2>1, <2>2, <2>10, SlotTyped, SMTT(30)
      <4>. QED
        BY <1>3, <3>2, <4>1
    <3>. QED
      BY <1>2, <3>1, <3>2, SlotTyped, SMTT(30)
  <2>11. ClosedOf(t)'
    BY <1>1, <2>3, <2>5, <2>6, <2>10 DEF ClosedOf, Gone, S
  <2>. QED
    BY <1>4, <2>6, <2>7, <2>8, <2>9, <2>11, QuietStep DEF Iterate
<1>. QED
  BY <1>5, <1>6

-----------------------------------------------------------------------------
(* The calls that set up a socket.                                         *)

\* The owner of a socket changes its flags and the host's socket.
LEMMA SocketStep ==
  ASSUME Library, IInv, NEW t \in Tasks, Moves(t), SameCall(t), Owns(t),
         call[t].op \in SetUps, pc[t] \in {"use", "connect_select"},
         \/ pc'[t] = "release"
         \/ pc'[t] = "connect_select" /\ call[t].op = "connect" /\ call'[t].rc = "ok",
         UNCHANGED <<obj, last_id, kind, fd, queue>>,
         stream_state' \in [Slots -> SUBSET {"BOUND", "LISTENING", "CONNECTED"}],
         host' \in [Fds -> HostStates], bound \subseteq bound', bound' \subseteq Fds,
         \A r \in Slots \ {S(t)} : stream_state'[r] = stream_state[r],
         stream_state[S(t)] \subseteq stream_state'[S(t)],
         \A f \in Fds \ {fd[S(t)]} : host'[f] = host[f],
         host'[fd[S(t)]] # "closed",
         FlagsOf(S(t))', BindOf(t)'
  PROVE  IInv'
<1>1. /\ TypeOK /\ Calls /\ Objects /\ Holders
      /\ Descriptors /\ Flags /\ Binds /\ Closed
  BY DEF IInv
<1>2. /\ S(t) \in Slots /\ fd[S(t)] \in Fds /\ host[fd[S(t)]] # "closed"
      /\ \A r \in Slots \ {S(t)} :
           fd[r] # CLOSED /\ ~ Forgetting(r) => fd[r] # fd[S(t)]
  BY UserFacts
<1>3. TypeOK' /\ last_id <= last_id'
  BY <1>1, LastIdKept DEF TypeOK, TypeOfObj, Moves
<1>4. CallOf(t)'
  BY <1>1 DEF Calls, CallOf, Makes, SameCall
<1>5. SameRole(t)
  BY DEF SameRole, SameCall, Refers, Owns, Waits, Makes
<1>6. Calls' /\ Objects' /\ Holders'
  BY <1>1, <1>3, <1>4, <1>5, CallsStep, RolesKept
<1>7. Descriptors'
  <2>1. \A f \in Fds : host'[f] = "closed" <=> host[f] = "closed"
    BY <1>2
  <2>2. MakerOf(t)'
    BY DEF MakerOf, Makes
  <2>. QED
    BY <1>1, <2>1, <2>2, DescriptorsKept DEF InUse
<1>8. Flags'
  <2>0. S(t)' = S(t)
    BY DEF SameCall, S
  <2>1. ASSUME NEW r \in Slots \ {S(t)}
        PROVE  /\ Forgetting(r)' <=> Forgetting(r)
               /\ obj'[r] = obj[r] /\ fd'[r] = fd[r]
               /\ stream_state'[r] = stream_state[r]
               /\ fd[r] # CLOSED /\ ~ Forgetting(r) =>
                    /\ host'[fd[r]] = host[fd[r]]
                    /\ fd[r] \in bound => fd[r] \in bound'
    BY <1>1, <1>2, ForgettingKept, SMTT(30) DEF TypeOK
  <2>. QED
    BY <1>1, <1>2, <2>0, <2>1, FlagsStep
<1>9. Binds' /\ Closed'
  <2>1. \A s \in Slots : SlotKept(s)
    BY <1>1 DEF SlotKept, TypeOK
  <2>2. ClosedOf(t)'
    BY DEF ClosedOf, SameCall, SetUps
  <2>. QED
    BY <1>1, <2>1, <2>2, BindsStep
<1>. QED
  BY <1>3, <1>6, <1>7, <1>8, <1>9 DEF IInv

LEMMA BindAddressInv ==
  ASSUME Library, NEW t \in Tasks, IInv, BindAddress(t)
  PROVE  IInv'
<1>1. TypeOK /\ CallOf(t) /\ FlagsOf(S(t)) /\ BindOf(t) /\ S(t) \in Slots
  BY TaskSlots DEF IInv, Calls, Flags, Binds
<1>2. /\ Moves(t) /\ SameCall(t) /\ pc[t] = "use"
      /\ call[t].op \in {"bind", "bindaddr"}
      /\ pc'[t] = "release"
  <2>1. /\ Goto(t, "use", "release") /\ call[t].op \in {"bind", "bindaddr"}
        /\ call' = call \/ Fail(t)
    BY DEF BindAddress
  <2>2. /\ call' \in [Tasks -> CallType] /\ SameCall(t)
        /\ \A v \in Tasks \ {t} : call'[v] = call[v]
    <3>1. CASE call' = call
      BY <1>1, <3>1 DEF TypeOK, SameCall
    <3>2. CASE Fail(t)
      BY <1>1, <3>2, FailStep
    <3>. QED
      BY <2>1, <3>1, <3>2
  <2>. QED
    BY <1>1, <2>1, <2>2, GotoStep DEF Moves, Pcs
<1>3. Owns(t)
  BY <1>2 DEF Owns, RefOps
<1>4. /\ fd[S(t)] \in Fds /\ host[fd[S(t)]] # "closed" /\ InUse(S(t))
      /\ ~ Forgetting(S(t)) /\ ~ Forgetting(S(t))' /\ S(t)' = S(t)
  BY <1>2, <1>3, UserFacts, ForgettingKept DEF SameCall, S
<1>5. /\ stream_state' \in [Slots -> SUBSET {"BOUND", "LISTENING", "CONNECTED"}]
      /\ host' \in [Fds -> HostStates]
      /\ bound \subseteq bound' /\ bound' \subseteq Fds
      /\ \A r \in Slots \ {S(t)} : stream_state'[r] = stream_state[r]
      /\ stream_state[S(t)] \subseteq stream_state'[S(t)]
      /\ \A f \in Fds \ {fd[S(t)]} : host'[f] = host[f]
      /\ host'[fd[S(t)]] # "closed"
  <2>1. /\ stream_state' \in [Slots -> SUBSET {"BOUND", "LISTENING", "CONNECTED"}]
        /\ \A r \in Slots \ {S(t)} : stream_state'[r] = stream_state[r]
        /\ stream_state[S(t)] \subseteq stream_state'[S(t)]
    BY <1>1 DEF BindAddress, TypeOK, Flag
  <2>. QED
    BY <1>1, <1>4, <2>1 DEF BindAddress, TypeOK
<1>6. FlagsOf(S(t))'
  BY <1>1, <1>4, SMTT(30)
  DEF FlagsOf, InUse, BindAddress, TypeOK, Flag, MayListen, CLOSED, table
<1>7. BindOf(t)'
  BY <1>2 DEF BindOf, Bound, SameCall
<1>. QED
  BY <1>2, <1>3, <1>5, <1>6, <1>7, SocketStep DEF BindAddress, SetUps

LEMMA ListenInv == ASSUME Library, NEW t \in Tasks, IInv, Listen(t) PROVE IInv'
<1>1. TypeOK /\ CallOf(t) /\ FlagsOf(S(t)) /\ BindOf(t) /\ S(t) \in Slots
  BY TaskSlots DEF IInv, Calls, Flags, Binds
<1>2. /\ Moves(t) /\ SameCall(t) /\ pc[t] = "use"
      /\ call[t].op \in {"listen", "bindlisten"}
      /\ pc'[t] = "release"
  BY <1>1, GotoStep, FailStep
  DEF Listen, Moves, Pcs, TypeOK, SameCall
<1>3. Owns(t)
  BY <1>2 DEF Owns, RefOps
<1>4. /\ fd[S(t)] \in Fds /\ host[fd[S(t)]] # "closed" /\ InUse(S(t))
      /\ ~ Forgetting(S(t)) /\ ~ Forgetting(S(t))' /\ S(t)' = S(t)
  BY <1>2, <1>3, UserFacts, ForgettingKept DEF SameCall, S
<1>5. /\ stream_state' \in [Slots -> SUBSET {"BOUND", "LISTENING", "CONNECTED"}]
      /\ host' \in [Fds -> HostStates]
      /\ bound \subseteq bound' /\ bound' \subseteq Fds
      /\ \A r \in Slots \ {S(t)} : stream_state'[r] = stream_state[r]
      /\ stream_state[S(t)] \subseteq stream_state'[S(t)]
      /\ \A f \in Fds \ {fd[S(t)]} : host'[f] = host[f]
      /\ host'[fd[S(t)]] # "closed"
  BY <1>1, <1>4, SMTT(30) DEF Listen, TypeOK, HostStates, Flag, table, kernel
<1>6. FlagsOf(S(t))'
  BY <1>1, <1>4, SMTT(30) DEF FlagsOf, Listen, TypeOK, Flag, Has, MayListen
<1>7. BindOf(t)'
  BY <1>1, <1>4, FailStep, SMTT(30)
  DEF BindOf, Bound, Listen, Flag, TypeOK, InUse
<1>. QED
  BY <1>2, <1>3, <1>5, <1>6, <1>7, SocketStep DEF Listen, SetUps, table

LEMMA ConnectInv ==
  ASSUME Library, NEW t \in Tasks, IInv, Connect(t)
  PROVE  IInv'
<1>1. TypeOK /\ CallOf(t) /\ FlagsOf(S(t)) /\ BindOf(t) /\ S(t) \in Slots
  BY TaskSlots DEF IInv, Calls, Flags, Binds
<1>2. /\ Moves(t) /\ SameCall(t) /\ pc[t] = "use"
      /\ call[t].op \in {"connect"}
      /\ \/ pc'[t] = "release"
         \/ pc'[t] = "connect_select" /\ call'[t].rc = "ok"
  BY <1>1, GotoStep, SMTT(30) DEF Connect, Moves, Pcs, TypeOK, SameCall, CallOf
<1>3. Owns(t)
  BY <1>2 DEF Owns, RefOps
<1>4. /\ fd[S(t)] \in Fds /\ host[fd[S(t)]] # "closed" /\ InUse(S(t))
      /\ ~ Forgetting(S(t)) /\ ~ Forgetting(S(t))' /\ S(t)' = S(t)
  BY <1>2, <1>3, UserFacts, ForgettingKept DEF SameCall, S
<1>5. /\ stream_state' \in [Slots -> SUBSET {"BOUND", "LISTENING", "CONNECTED"}]
      /\ host' \in [Fds -> HostStates]
      /\ bound \subseteq bound' /\ bound' \subseteq Fds
      /\ \A r \in Slots \ {S(t)} : stream_state'[r] = stream_state[r]
      /\ stream_state[S(t)] \subseteq stream_state'[S(t)]
      /\ \A f \in Fds \ {fd[S(t)]} : host'[f] = host[f]
      /\ host'[fd[S(t)]] # "closed"
  BY <1>1, <1>4, SMTT(30) DEF Connect, TypeOK, HostStates, Flag, kernel
<1>6. FlagsOf(S(t))'
  BY <1>1, <1>4, SMTT(30)
  DEF FlagsOf, InUse, Connect, TypeOK, Flag, HostState, CLOSED, table
<1>7. BindOf(t)'
  BY <1>2 DEF BindOf, Bound, SameCall
<1>. QED
  BY <1>2, <1>3, <1>4, <1>5, <1>6, <1>7, SocketStep DEF Connect, SetUps

LEMMA ConnectFailsInv ==
  ASSUME Library, NEW t \in Tasks, IInv, ConnectFails(t)
  PROVE  IInv'
<1>1. TypeOK /\ CallOf(t) /\ FlagsOf(S(t)) /\ BindOf(t) /\ S(t) \in Slots
  BY TaskSlots DEF IInv, Calls, Flags, Binds
<1>2. /\ Moves(t) /\ SameCall(t) /\ pc[t] = "use"
      /\ call[t].op \in {"connect"}
      /\ pc'[t] = "release"
  BY <1>1, GotoStep, FailStep DEF ConnectFails, Moves, Pcs, SameCall
<1>3. Owns(t)
  BY <1>2 DEF Owns, RefOps
<1>4. /\ fd[S(t)] \in Fds /\ host[fd[S(t)]] # "closed" /\ InUse(S(t))
      /\ ~ Forgetting(S(t)) /\ ~ Forgetting(S(t))' /\ S(t)' = S(t)
  BY <1>2, <1>3, UserFacts, ForgettingKept DEF SameCall, S
<1>5. /\ stream_state' \in [Slots -> SUBSET {"BOUND", "LISTENING", "CONNECTED"}]
      /\ host' \in [Fds -> HostStates]
      /\ bound \subseteq bound' /\ bound' \subseteq Fds
      /\ \A r \in Slots \ {S(t)} : stream_state'[r] = stream_state[r]
      /\ stream_state[S(t)] \subseteq stream_state'[S(t)]
      /\ \A f \in Fds \ {fd[S(t)]} : host'[f] = host[f]
      /\ host'[fd[S(t)]] # "closed"
  BY <1>1, <1>4 DEF ConnectFails, TypeOK, HostStates, Flag, table, kernel
<1>6. FlagsOf(S(t))'
  BY <1>1, <1>4
  DEF FlagsOf, ConnectFails, TypeOK, Has, HostState, CLOSED, table
<1>7. BindOf(t)'
  BY <1>2 DEF BindOf, Bound, SameCall
<1>. QED
  BY <1>2, <1>3, <1>5, <1>6, <1>7, SocketStep DEF ConnectFails, SetUps, table

LEMMA ConnectReadyInv ==
  ASSUME Library, NEW t \in Tasks, IInv, ConnectReady(t)
  PROVE  IInv'
<1>1. TypeOK /\ CallOf(t) /\ FlagsOf(S(t)) /\ BindOf(t) /\ S(t) \in Slots
  BY TaskSlots DEF IInv, Calls, Flags, Binds
<1>2. /\ Moves(t) /\ SameCall(t) /\ pc[t] = "connect_select"
      /\ call[t].op \in {"connect"}
      /\ pc'[t] = "release"
  BY <1>1, GotoStep, FailStep
  DEF ConnectReady, Moves, Pcs, TypeOK, SameCall, CallOf
<1>3. Owns(t)
  BY <1>2 DEF Owns, RefOps
<1>4. /\ fd[S(t)] \in Fds /\ host[fd[S(t)]] # "closed" /\ InUse(S(t))
      /\ ~ Forgetting(S(t)) /\ ~ Forgetting(S(t))' /\ S(t)' = S(t)
  BY <1>2, <1>3, UserFacts, ForgettingKept DEF SameCall, S
<1>5. /\ stream_state' \in [Slots -> SUBSET {"BOUND", "LISTENING", "CONNECTED"}]
      /\ host' \in [Fds -> HostStates]
      /\ bound \subseteq bound' /\ bound' \subseteq Fds
      /\ \A r \in Slots \ {S(t)} : stream_state'[r] = stream_state[r]
      /\ stream_state[S(t)] \subseteq stream_state'[S(t)]
      /\ \A f \in Fds \ {fd[S(t)]} : host'[f] = host[f]
      /\ host'[fd[S(t)]] # "closed"
  BY <1>1, <1>4, SMTT(30) DEF ConnectReady, TypeOK, HostStates, Flag, kernel
<1>6. FlagsOf(S(t))'
  BY <1>1, <1>4, SMTT(30)
  DEF FlagsOf, InUse, ConnectReady, TypeOK, Flag, HostState, CLOSED
<1>7. BindOf(t)'
  BY <1>2, FailStep DEF BindOf, Bound, SameCall
<1>. QED
  BY <1>2, <1>3, <1>5, <1>6, <1>7, SocketStep DEF ConnectReady, SetUps

-----------------------------------------------------------------------------
(* The transactions on the table.                                          *)

\* Task t changes the entry of slot s, as the other tasks allow.
LEMMA HoldStep ==
  ASSUME Library, TypeOK, TypeOK', last_id <= last_id', Objects, Holders,
         NEW t \in Tasks, Moves(t), NEW s \in Slots,
         \A r \in Slots \ {s} : obj'[r] = obj[r] /\ (t \in Refs(r)' <=> t \in Refs(r)),
         ObjectOf(s)', HolderOf(t)',
         \A v \in Tasks \ {t} :
           /\ Holds(v) /\ S(v) = s => obj'[s].id = obj[s].id
           /\ Refers(v) /\ S(v) = s => obj'[s].st \in {"valid", "waiting"}
           /\ Owns(v) /\ S(v) = s => obj'[s].st = "exclusive"
           /\ Waits(v) /\ S(v) = s => obj'[s].st = "waiting"
           /\ Makes(v) => N(v) # s
           /\ Owns(t)' /\ Owns(v) => S(v) # S(t)'
           /\ Waits(t)' /\ Waits(v) => S(v) # S(t)'
           /\ Makes(t)' /\ Makes(v) => N(v) # N(t)'
  PROVE  Objects' /\ Holders'
<1>1. ASSUME NEW r \in Slots \ {s} PROVE ObjectOf(r)'
  <2>1. ObjectOf(r) /\ Refs(r)' = Refs(r) /\ obj'[r] = obj[r]
    BY RefsStep DEF Objects
  <2>2. obj[r].id \in Int /\ last_id \in Int /\ last_id' \in Int
    BY SlotTyped DEF TypeOK, TypeOfObj
  <2>3. obj[r].id <= last_id => obj[r].id <= last_id'
    BY <2>2, SMTT(30)
  <2>. QED
    BY <2>1, <2>3 DEF ObjectOf
<1>2. ASSUME NEW v \in Tasks \ {t}
      PROVE  /\ HolderOf(v) /\ S(v) \in Slots /\ N(v) \in Slots
             /\ call'[v] = call[v] /\ S(v)' = S(v) /\ N(v)' = N(v)
             /\ (Refers(v)' <=> Refers(v)) /\ (Owns(v)' <=> Owns(v))
             /\ (Waits(v)' <=> Waits(v)) /\ (Makes(v)' <=> Makes(v))
             /\ (Holds(v)' <=> Holds(v))
  BY OtherTask, TaskSlots DEF Holders, Moves
<1>3. ASSUME NEW v \in Tasks \ {t} PROVE HolderOf(v)'
  BY <1>2, SMTT(30) DEF HolderOf
<1>4. ASSUME NEW v \in Tasks, NEW w \in Tasks PROVE Alone(v, w)'
  <2>1. Alone(v, w)
    BY DEF Holders
  <2>. QED
    BY <1>2, <2>1 DEF Alone
<1>. QED
  BY <1>1, <1>3, <1>4 DEF Objects, Holders

\* A transaction on a stream that stays in use.
LEMMA TableStep ==
  ASSUME Library, IInv, NEW t \in Tasks, Moves(t), UNCHANGED <<table, kernel>>,
         pc[t] # "closed", pc'[t] # "closed", ~ Makes(t), ~ Makes(t)',
         NEW s \in Slots, InUse(s), InUse(s)', obj'[s].id = obj[s].id,
         \A r \in Slots \ {s} : obj'[r] = obj[r] /\ (t \in Refs(r)' <=> t \in Refs(r)),
         \A v \in Tasks \ {t} :
           /\ Refers(v) /\ S(v) = s => obj'[s].st \in {"valid", "waiting"}
           /\ Owns(v) /\ S(v) = s => obj'[s].st = "exclusive"
           /\ Waits(v) /\ S(v) = s => obj'[s].st = "waiting"
           /\ Owns(t)' /\ Owns(v) => S(v) # S(t)'
           /\ Waits(t)' /\ Waits(v) => S(v) # S(t)',
         TypeOfObj', ObjectOf(s)', HolderOf(t)', CallOf(t)', BindOf(t)', ClosedOf(t)'
  PROVE  IInv'
<1>1. /\ TypeOK /\ Calls /\ Objects /\ Holders
      /\ Descriptors /\ Flags /\ Binds /\ Closed
  BY DEF IInv
<1>2. /\ last_id' = last_id /\ kind' = kind
      /\ fd' = fd /\ stream_state' = stream_state
      /\ host' = host /\ bound' = bound /\ queue' = queue
  BY DEF table, kernel
<1>3. TypeOK' /\ last_id <= last_id'
  BY <1>1, <1>2, LastIdKept DEF TypeOK, Moves
<1>4. Calls' /\ Objects' /\ Holders'
  <2>1. \A v \in Tasks : Makes(v) => N(v) # s
    BY <1>1 DEF Holders, HolderOf, InUse
  <2>. QED
    BY <1>1, <1>3, <2>1, CallsStep, HoldStep
<1>5. \A r \in Slots : /\ obj'[r].st = "free" <=> obj[r].st = "free"
                       /\ obj'[r].st = "new" <=> obj[r].st = "new"
                       /\ InUse(r)' <=> InUse(r)
  BY DEF InUse
<1>6. MakerOf(t)'
  BY DEF MakerOf
<1>7. Descriptors' /\ Flags'
  BY <1>1, <1>2, <1>5, <1>6, DescriptorsKept, FlagsKept
<1>8. \A r \in Slots : SlotKept(r)
  BY <1>2 DEF SlotKept, InUse
<1>9. Binds' /\ Closed'
  BY <1>1, <1>8, BindsStep
<1>. QED
  BY <1>3, <1>4, <1>7, <1>9 DEF IInv

LEMMA LookupRefInv ==
  ASSUME Library, NEW t \in Tasks, IInv, LookupRef(t)
  PROVE  IInv'
<1>1. TypeOK /\ Objects /\ Holders /\ CallOf(t) /\ BindOf(t) /\ ClosedOf(t)
  BY DEF IInv, Calls, Binds, Closed
<1>2. PICK s \in Slots : s = S(t)
  BY <1>1, TaskSlots
<1>3. /\ Moves(t) /\ pc[t] = "lookup" /\ pc'[t] = "use" /\ call' = call
      /\ call[t].op \in RefOps /\ UNCHANGED <<table, kernel>>
      /\ S(t)' = s /\ N(t)' = N(t)
  BY <1>1, <1>2, GotoStep DEF LookupRef, Moves, Pcs, TypeOK, S, N
<1>4. /\ obj[s].st = "valid" /\ obj[s].id = call[t].id
      /\ obj' = [obj EXCEPT ![s].users = @ + 1]
  BY <1>2 DEF LookupRef, Enter, Valid, S
<1>5. /\ TypeOfObj' /\ obj'[s].st = "valid" /\ obj'[s].id = obj[s].id
      /\ obj'[s].users = obj[s].users + 1
      /\ \A r \in Slots \ {s} : obj'[r] = obj[r]
  BY <1>1, <1>4, SMTT(30) DEF TypeOK, TypeOfObj
<1>6. /\ ~ Holds(t) /\ Refers(t)' /\ ~ Owns(t)' /\ ~ Waits(t)'
      /\ ~ Makes(t) /\ ~ Makes(t)'
  BY <1>3 DEF Holds, Refers, Owns, Waits, Makes
<1>7. ObjectOf(s)'
  <2>1. ObjectOf(s) /\ t \in Refs(s)' /\ t \notin Refs(s)
    BY <1>1, <1>3, <1>6 DEF Objects, Refs, Holds
  <2>. QED
    BY <1>3, <1>4, <1>5, <2>1, RefsStep DEF ObjectOf, table
<1>8. HolderOf(t)'
  BY <1>1, <1>3, <1>4, <1>6, SMTT(30) DEF HolderOf, Holds, CallOf
<1>9. \A r \in Slots \ {s} : t \notin Refs(r)' /\ t \notin Refs(r)
  BY <1>3, <1>6 DEF Refs, Holds
<1>10. \A v \in Tasks : S(v) = s => ~ Owns(v) /\ ~ Waits(v)
  BY <1>1, <1>4 DEF Holders, HolderOf
<1>11. CallOf(t)'
  BY <1>1, <1>3 DEF CallOf, Makes, SetUps, table
<1>12. BindOf(t)' /\ ClosedOf(t)'
  BY <1>3 DEF BindOf, Bound, ClosedOf, RefOps
<1>. QED
  BY <1>3, <1>4, <1>5, <1>6, <1>7, <1>8, <1>9, <1>10, <1>11, <1>12, TableStep
  DEF InUse

\* A call that does not share its stream: none of the others uses it any more
\* when the call has it for itself.
LEMMA LookupExclusiveInv ==
  ASSUME Library, NEW t \in Tasks, IInv, LookupExclusive(t)
  PROVE  IInv'
<1>1. TypeOK /\ Objects /\ Holders /\ CallOf(t) /\ BindOf(t) /\ ClosedOf(t)
  BY DEF IInv, Calls, Binds, Closed
<1>2. PICK s \in Slots : s = S(t)
  BY <1>1, TaskSlots
<1>3. /\ Moves(t) /\ pc[t] = "lookup" /\ call' = call
      /\ pc'[t] = (IF obj[s].users = 0 THEN "use" ELSE "waiting")
      /\ call[t].op \notin RefOps /\ UNCHANGED <<table, kernel>>
      /\ S(t)' = s /\ N(t)' = N(t)
  BY <1>1, <1>2, GotoStep DEF LookupExclusive, Moves, Pcs, TypeOK, S, N
<1>4. /\ obj[s].st = "valid" /\ obj[s].id = call[t].id
      /\ obj' = IF obj[s].users = 0
                THEN [obj EXCEPT ![s].st = "exclusive", ![s].users = 1]
                ELSE [obj EXCEPT ![s].st = "waiting"]
  BY <1>2 DEF LookupExclusive, Reserve, Valid, S
<1>5. /\ TypeOfObj' /\ obj'[s].id = obj[s].id
      /\ obj'[s].st = IF obj[s].users = 0 THEN "exclusive" ELSE "waiting"
      /\ obj[s].users # 0 => obj'[s].users = obj[s].users
      /\ \A r \in Slots \ {s} : obj'[r] = obj[r]
  BY <1>1, <1>4 DEF TypeOK, TypeOfObj
<1>6. /\ ~ Holds(t) /\ ~ Refers(t)' /\ ~ Makes(t) /\ ~ Makes(t)'
      /\ Owns(t)' <=> obj[s].users = 0
      /\ Waits(t)' <=> obj[s].users # 0
  BY <1>3 DEF Holds, Refers, Owns, Waits, Makes
<1>7. ObjectOf(s) /\ \A r \in Slots : Refs(r)' = Refs(r)
  BY <1>1, <1>3, <1>6, RefsStep DEF Objects, Refs, Holds
<1>8. obj[s].users = 0 => Refs(s) = {}
  BY <1>4, <1>7, RefsFinite DEF ObjectOf
<1>9. ObjectOf(s)'
  BY <1>3, <1>4, <1>5, <1>7, <1>8, SMTT(30) DEF ObjectOf, table
<1>10. HolderOf(t)'
  BY <1>3, <1>4, <1>5, <1>6, <1>7 DEF HolderOf, Holds, ObjectOf
<1>11. \A v \in Tasks : S(v) = s =>
         ~ Owns(v) /\ ~ Waits(v) /\ (obj[s].users = 0 => ~ Refers(v))
  BY <1>1, <1>4, <1>8 DEF Holders, HolderOf, Refs
<1>12. CallOf(t)'
  BY <1>1, <1>3 DEF CallOf, Makes, RefOps, SetUps, table
<1>13. BindOf(t)' /\ ClosedOf(t)'
  <2>1. \A r \in Slots : obj'[r].id = obj[r].id
    BY <1>5
  <2>. QED
    BY <1>1, <1>3, <2>1 DEF BindOf, Bound, ClosedOf, Gone, S
<1>. QED
  BY <1>3, <1>4, <1>5, <1>6, <1>7, <1>9, <1>10, <1>11, <1>12, <1>13, TableStep
  DEF InUse

LEMMA LookupGrantedInv ==
  ASSUME Library, NEW t \in Tasks, IInv, LookupGranted(t)
  PROVE  IInv'
<1>1. TypeOK /\ Objects /\ Holders /\ CallOf(t) /\ HolderOf(t) /\ ClosedOf(t)
  BY DEF IInv, Calls, Holders, Closed
<1>2. PICK s \in Slots : s = S(t)
  BY <1>1, TaskSlots
<1>3. /\ Moves(t) /\ pc[t] = "waiting" /\ pc'[t] = "use" /\ call' = call
      /\ UNCHANGED <<table, kernel>> /\ S(t)' = s /\ N(t)' = N(t)
  BY <1>1, <1>2, GotoStep DEF LookupGranted, Moves, Pcs, TypeOK, S, N
<1>4. /\ obj[s].st = "waiting" /\ obj[s].users = 0
      /\ obj' = [obj EXCEPT ![s].st = "exclusive", ![s].users = 1]
  BY <1>2 DEF LookupGranted, Granted
<1>5. /\ TypeOfObj' /\ obj'[s].id = obj[s].id /\ obj'[s].st = "exclusive"
      /\ \A r \in Slots \ {s} : obj'[r] = obj[r]
  BY <1>1, <1>4 DEF TypeOK, TypeOfObj
<1>6. /\ Waits(t) /\ ~ Refers(t) /\ ~ Refers(t)' /\ Owns(t)' /\ ~ Waits(t)'
      /\ ~ Makes(t) /\ ~ Makes(t)'
  BY <1>1, <1>3 DEF Refers, Owns, Waits, Makes, CallOf, RefOps, SetUps
<1>7. ObjectOf(s) /\ \A r \in Slots : Refs(r)' = Refs(r)
  BY <1>1, <1>3, <1>6, RefsStep DEF Objects, Refs
<1>8. Refs(s) = {}
  BY <1>4, <1>7, RefsFinite DEF ObjectOf
<1>9. ObjectOf(s)'
  BY <1>3, <1>4, <1>5, <1>7, <1>8 DEF ObjectOf, table
<1>10. HolderOf(t)'
  BY <1>1, <1>2, <1>3, <1>5, <1>6 DEF HolderOf, Holds
<1>11. \A v \in Tasks \ {t} : S(v) = s => ~ Owns(v) /\ ~ Waits(v) /\ ~ Refers(v)
  BY <1>1, <1>2, <1>6, <1>8 DEF Holders, HolderOf, Alone, Refs
<1>12. CallOf(t)'
  BY <1>1, <1>3 DEF CallOf, Makes, table
<1>13. BindOf(t)' /\ ClosedOf(t)'
  <2>1. \A r \in Slots : obj'[r].id = obj[r].id
    BY <1>5
  <2>. QED
    BY <1>1, <1>3, <2>1 DEF BindOf, Bound, ClosedOf, Gone, S
<1>. QED
  BY <1>3, <1>4, <1>5, <1>6, <1>7, <1>9, <1>10, <1>11, <1>12, <1>13, TableStep
  DEF InUse

LEMMA LookupGivesUpInv ==
  ASSUME Library, NEW t \in Tasks, IInv, LookupGivesUp(t)
  PROVE  IInv'
<1>1. TypeOK /\ Objects /\ Holders /\ CallOf(t)
  BY DEF IInv, Calls
<1>2. PICK s \in Slots : s = S(t)
  BY <1>1, TaskSlots
<1>3. /\ Moves(t) /\ pc[t] = "waiting" /\ pc'[t] = After(t) /\ SameCall(t)
      /\ call'[t].rc = "error" /\ UNCHANGED <<table, kernel>> /\ S(t)' = s
  BY <1>1, <1>2, GotoStep, FailStep
  DEF LookupGivesUp, Moves, Pcs, After, SameCall, S
<1>4. obj[s].st = "waiting" /\ obj' = [obj EXCEPT ![s].st = "valid"]
  BY <1>2 DEF LookupGivesUp, GiveUp
<1>5. /\ TypeOfObj' /\ obj'[s].id = obj[s].id /\ obj'[s].st = "valid"
      /\ obj'[s].users = obj[s].users
      /\ \A r \in Slots \ {s} : obj'[r] = obj[r]
  BY <1>1, <1>4 DEF TypeOK, TypeOfObj
<1>6. /\ Waits(t) /\ ~ Refers(t) /\ ~ Holds(t)' /\ ~ Makes(t) /\ ~ Makes(t)'
      /\ ~ Refers(t)' /\ ~ Owns(t)' /\ ~ Waits(t)'
  BY <1>3 DEF Holds, Refers, Owns, Waits, Makes, After
<1>7. ObjectOf(s) /\ \A r \in Slots : Refs(r)' = Refs(r)
  BY <1>1, <1>3, <1>6, RefsStep DEF Objects, Refs
<1>8. ObjectOf(s)'
  BY <1>3, <1>4, <1>7, SMTT(30) DEF ObjectOf, table
<1>9. HolderOf(t)'
  BY <1>6 DEF HolderOf
<1>10. \A v \in Tasks \ {t} : S(v) = s => ~ Owns(v) /\ ~ Waits(v)
  BY <1>1, <1>2, <1>6 DEF Holders, HolderOf, Alone
<1>11. CallOf(t)'
  BY <1>1, <1>3 DEF CallOf, Makes, SameCall, After, table, RefOps
<1>12. BindOf(t)' /\ ClosedOf(t)'
  BY <1>3 DEF BindOf, Bound, ClosedOf
<1>. QED
  BY <1>3, <1>4, <1>5, <1>6, <1>7, <1>8, <1>9, <1>10, <1>11, <1>12, TableStep
  DEF InUse, After

LEMMA ReleaseInv ==
  ASSUME Library, NEW t \in Tasks, IInv, Release(t)
  PROVE  IInv'
<1>1. /\ TypeOK /\ Objects /\ Holders /\ CallOf(t) /\ HolderOf(t) /\ BindOf(t)
  BY DEF IInv, Calls, Holders, Binds
<1>2. PICK s \in Slots : s = S(t)
  BY <1>1, TaskSlots
<1>3. /\ call' \in [Tasks -> CallType] /\ call'[t].id = call[t].id
      /\ call'[t].rc = call[t].rc /\ call'[t].ids = call[t].ids
      /\ call'[t].op = IF call[t].op = "bind" /\ call[t].rc = "ok"
                       THEN "bindlisten" ELSE call[t].op
      /\ \A v \in Tasks \ {t} : call'[v] = call[v]
  <2>1. CASE call[t].op = "bind" /\ call[t].rc = "ok"
    <3>1. Set(t, "op", "bindlisten")
      BY <2>1 DEF Release
    <3>. QED
      BY <1>1, <2>1, <3>1 DEF TypeOK, CallType, Set, Ops
  <2>2. CASE ~ (call[t].op = "bind" /\ call[t].rc = "ok")
    <3>1. call' = call
      BY <2>2 DEF Release
    <3>. QED
      BY <1>1, <2>2, <3>1 DEF TypeOK
  <2>. QED
    BY <2>1, <2>2
<1>4. /\ Moves(t) /\ pc[t] = "release" /\ UNCHANGED <<table, kernel>> /\ S(t)' = s
      /\ pc'[t] = IF call[t].op = "bind" /\ call[t].rc = "ok" THEN "lookup" ELSE After(t)
  BY <1>1, <1>2, <1>3, GotoStep DEF Release, Moves, Pcs, After, S
<1>5. /\ ~ Holds(t)' /\ ~ Makes(t) /\ ~ Makes(t)'
      /\ ~ Refers(t)' /\ ~ Owns(t)' /\ ~ Waits(t)'
  BY <1>4 DEF Holds, Refers, Owns, Waits, Makes, After
<1>6. /\ HolderOf(t)' /\ ObjectOf(s)
      /\ \A r \in Slots \ {s} : t \notin Refs(r)' /\ t \notin Refs(r)
  BY <1>1, <1>2, <1>5 DEF Objects, HolderOf, Refs
<1>7. CallOf(t)'
  BY <1>1, <1>3, <1>4 DEF CallOf, Makes, After, table, SetUps
<1>8. ClosedOf(t)'
  BY <1>1, <1>3, <1>4 DEF ClosedOf, CallOf, RefOps, SetUps
<1>9. ASSUME obj'[s].id = obj[s].id, obj'[s].st # "new" PROVE BindOf(t)'
  BY <1>1, <1>2, <1>3, <1>4, <1>9 DEF BindOf, Bound, After, table
<1>10. CASE call[t].op \in RefOps
  <2>1. Refers(t) /\ obj[s].st \in {"valid", "waiting"}
    BY <1>1, <1>2, <1>4, <1>10 DEF Refers, HolderOf
  <2>2. obj' = [obj EXCEPT ![s].users = @ - 1] /\ obj[s].users > 0
    BY <1>2, <1>10, <2>1 DEF Release, Leave
  <2>3. /\ TypeOfObj' /\ obj'[s].id = obj[s].id /\ obj'[s].st = obj[s].st
        /\ obj'[s].users = obj[s].users - 1
        /\ \A r \in Slots \ {s} : obj'[r] = obj[r]
    BY <1>1, <2>2, SMTT(30) DEF TypeOK, TypeOfObj
  <2>4. t \in Refs(s) /\ t \notin Refs(s)'
    BY <1>2, <1>5, <2>1 DEF Refs
  <2>5. ObjectOf(s)'
    BY <1>4, <1>6, <2>3, <2>4, RefsStep DEF ObjectOf, table
  <2>6. \A v \in Tasks \ {t} : /\ S(v) = s => ~ Owns(v)
                               /\ Waits(v) /\ S(v) = s => obj[s].st = "waiting"
    BY <1>1, <2>1 DEF Holders, HolderOf
  <2>. QED
    BY <1>4, <1>5, <1>6, <1>7, <1>8, <1>9, <2>1, <2>3, <2>5, <2>6, TableStep
    DEF InUse, After
<1>11. CASE call[t].op \notin RefOps
  <2>1. Owns(t) /\ ~ Refers(t)
    BY <1>4, <1>11 DEF Owns, Refers
  <2>2. obj' = [obj EXCEPT ![s].st = "valid", ![s].users = 0] /\ obj[s].st = "exclusive"
    BY <1>2, <1>11 DEF Release, Kept
  <2>3. /\ TypeOfObj' /\ obj'[s].id = obj[s].id /\ obj'[s].st = "valid"
        /\ obj'[s].users = 0
        /\ \A r \in Slots \ {s} : obj'[r] = obj[r]
    BY <1>1, <2>2 DEF TypeOK, TypeOfObj
  <2>4. Refs(s)' = Refs(s) /\ Refs(s) = {}
    BY <1>4, <1>5, <1>6, <2>1, <2>2, RefsStep DEF Refs, ObjectOf
  <2>5. Cardinality(Refs(s)) = 0
    BY <2>4, RefsFinite
  <2>6. ObjectOf(s)'
    BY <1>4, <1>6, <2>2, <2>3, <2>4, <2>5 DEF ObjectOf, table
  <2>7. \A v \in Tasks \ {t} : S(v) = s => ~ Owns(v) /\ ~ Waits(v) /\ ~ Refers(v)
    BY <1>1, <1>2, <2>1, <2>2 DEF Holders, HolderOf, Alone
  <2>. QED
    BY <1>4, <1>5, <1>6, <1>7, <1>8, <1>9, <2>1, <2>2, <2>3, <2>6, <2>7, TableStep
    DEF InUse, After
<1>. QED
  BY <1>10, <1>11

-----------------------------------------------------------------------------
(* Creation.                                                               *)

LEMMA NewFacts ==
  ASSUME Library, TypeOK, NEW k, New(k)
  PROVE  \E i \in Ids : /\ last_id < i /\ SlotOf(i) \in Slots
                        /\ Allocate(i) /\ last_id' = i
                        /\ kind' = [kind EXCEPT ![SlotOf(i)] = k]
                        /\ stream_state' = [stream_state EXCEPT ![SlotOf(i)] = {}]
<1>1. Min(NextIds) \in NextIds
  BY MinIsLeast, SlotTyped DEF New, NextIds
<1>2. Min(NextIds) \in Ids /\ last_id < Min(NextIds) /\ SlotOf(Min(NextIds)) \in Slots
  BY <1>1, SlotTyped DEF NextIds
<1>. QED
  BY <1>2 DEF New

\* A task that gets an entry for a new stream.
LEMMA NewStep ==
  ASSUME Library, IInv, NEW t \in Tasks, Moves(t), NEW k \in AllKinds, New(k),
         UNCHANGED <<fd, kernel>>, pc[t] # "closed", pc'[t] \notin {"closed", "created"},
         Makes(t)', call'[t].new = last_id',
         ~ Owns(t), ~ Owns(t)', ~ Waits(t), ~ Waits(t)', Refers(t)' <=> Refers(t),
         Refers(t) => call'[t].id = call[t].id,
         CallOf(t)', BindOf(t)', ClosedOf(t)'
  PROVE  IInv'
<1>1. /\ TypeOK /\ Calls /\ Objects /\ Holders
      /\ Descriptors /\ Flags /\ Binds /\ Closed
  BY DEF IInv
<1>2. PICK i \in Ids : /\ last_id < i /\ SlotOf(i) \in Slots
                       /\ Allocate(i) /\ last_id' = i
                       /\ kind' = [kind EXCEPT ![SlotOf(i)] = k]
                       /\ stream_state' = [stream_state EXCEPT ![SlotOf(i)] = {}]
  BY <1>1, NewFacts
<1>3. PICK s \in Slots : s = SlotOf(i)
  BY <1>2
<1>4. /\ obj[s].st = "free" /\ TypeOfObj'
      /\ obj'[s].st = "new" /\ obj'[s].id = i
      /\ \A r \in Slots \ {s} : obj'[r] = obj[r]
  BY <1>1, <1>2, <1>3 DEF TypeOK, TypeOfObj, Allocate
<1>5. /\ stream_state'[s] = {}
      /\ \A r \in Slots \ {s} : kind'[r] = kind[r] /\ stream_state'[r] = stream_state[r]
  BY <1>1, <1>2, <1>3 DEF TypeOK
<1>6. TypeOK' /\ last_id <= last_id'
  BY <1>1, <1>2, <1>4, SlotTyped, SMTT(30) DEF TypeOK, Moves, kernel
<1>7. N(t)' = s /\ (Refers(t) => S(t)' = S(t))
  BY <1>2, <1>3 DEF N, S
<1>8. Objects' /\ Holders'
  <2>1. ObjectOf(s) /\ Refs(s) = {} /\ \A r \in Slots : Refs(r)' = Refs(r)
    <3>1. \A r \in Slots : t \in Refs(r)' <=> t \in Refs(r)
      BY <1>7 DEF Refs
    <3>. QED
      BY <1>1, <1>4, <3>1, RefsStep DEF Objects, ObjectOf
  <2>2. ObjectOf(s)'
    BY <1>2, <1>3, <1>4, <1>6, <2>1, SlotTyped, SMTT(30) DEF ObjectOf
  <2>3. \A v \in Tasks : (Holds(v) => S(v) # s) /\ (Makes(v) => N(v) # s)
    BY <1>1, <1>4 DEF Holders, HolderOf, Holds
  <2>4. HolderOf(t) /\ S(t) \in Slots
    BY <1>1, TaskSlots DEF Holders
  <2>5. HolderOf(t)'
    BY <1>2, <1>4, <1>7, <2>4 DEF HolderOf, Holds
  <2>. QED
    BY <1>1, <1>4, <1>6, <1>7, <2>1, <2>2, <2>3, <2>5, HoldStep DEF Holds
<1>9. Calls'
  BY <1>1, <1>6, CallsStep
<1>10. fd[s] = CLOSED
  BY <1>1, <1>4 DEF Descriptors, DescriptorOf
<1>11. Descriptors'
  <2>1. MakerOf(t)'
    BY <1>7, <1>10 DEF MakerOf
  <2>2. \A r \in Slots : /\ obj'[r].st = "free" => obj[r].st = "free"
                         /\ InUse(r)' => InUse(r)
    BY <1>4 DEF InUse
  <2>. QED
    BY <1>1, <2>1, <2>2, DescriptorsKept DEF kernel
<1>12. Flags'
  <2>1. FlagsOf(s)'
    BY <1>5, <1>10 DEF FlagsOf
  <2>2. \A r \in Slots : Forgetting(r)' <=> Forgetting(r)
    BY ForgettingKept
  <2>. QED
    BY <1>1, <1>4, <1>5, <2>1, <2>2, FlagsStep DEF kernel
<1>13. Binds' /\ Closed'
  <2>1. \A r \in Slots : SlotKept(r)
    BY <1>2, <1>4, <1>5 DEF SlotKept
  <2>. QED
    BY <1>1, <2>1, BindsStep
<1>. QED
  BY <1>6, <1>8, <1>9, <1>11, <1>12, <1>13 DEF IInv

LEMMA OpenInv == ASSUME Library, NEW t \in Tasks, IInv, Open(t) PROVE IInv'
<1> DEFINE c == [Idle EXCEPT !.op = "open", !.new = last_id']
<1>1. TypeOK
  BY DEF IInv
<1>2. PICK k \in AllKinds : New(k)
  BY <1>1, StreamsAssumption DEF Open, TypeOK
<1>3. /\ last_id' \in Ids /\ last_id < last_id' /\ fd' = fd
      /\ last_id' \in Int /\ last_id \in Int
  <2>1. fd' = fd
    BY <1>2 DEF New
  <2>. QED
    BY <1>1, <1>2, <2>1, NewFacts, SlotTyped, LastId
<1>4. /\ c \in CallType /\ c.op = "open" /\ c.id = NONE /\ c.new = last_id'
      /\ c.rc = "ok" /\ c.ids = {}
  BY <1>3 DEF Idle, CallType, Ops
<1>5. call' = [call EXCEPT ![t] = c]
  BY DEF Open
<1> HIDE DEF c
<1>6. Moves(t) /\ pc[t] = "idle" /\ pc'[t] = "open" /\ call'[t] = c
  BY <1>1, <1>4, <1>5, GotoStep, SMTT(30) DEF Open, Moves, Pcs, TypeOK
<1>7. /\ ~ Owns(t) /\ ~ Owns(t)' /\ ~ Waits(t) /\ ~ Waits(t)'
      /\ ~ Refers(t) /\ ~ Refers(t)' /\ Makes(t)'
  BY <1>6 DEF Owns, Waits, Refers, Makes
<1>8. CallOf(t)'
  BY <1>1, <1>3, <1>4, <1>6, LastId, SMTT(30)
  DEF CallOf, Makes, RefOps, SetUps, NONE
<1>9. BindOf(t)' /\ ClosedOf(t)'
  BY <1>6 DEF BindOf, Bound, ClosedOf
<1>. QED
  BY <1>2, <1>3, <1>4, <1>6, <1>7, <1>8, <1>9, NewStep DEF Open

LEMMA AcceptInv == ASSUME Library, NEW t \in Tasks, IInv, Accept(t) PROVE IInv'
<1>1. /\ TypeOK /\ CallOf(t)
      /\ New("stream") /\ fd' = fd /\ "stream" \in AllKinds
  BY DEF IInv, Calls, Accept, New, AllKinds
<1>2. last_id' \in Ids /\ last_id < last_id' /\ last_id' \in Int /\ last_id \in Int
  BY <1>1, NewFacts, SlotTyped, LastId
<1>3. /\ call' \in [Tasks -> CallType] /\ call'[t].op = "accept"
      /\ call'[t].id = call[t].id /\ call'[t].new = last_id'
      /\ call'[t].rc = call[t].rc /\ call'[t].ids = call[t].ids
      /\ \A v \in Tasks \ {t} : call'[v] = call[v]
  BY <1>1, <1>2 DEF Accept, Set, TypeOK, CallType
<1>4. /\ Moves(t) /\ pc[t] = "use" /\ pc'[t] = "accept_select" /\ call[t].op = "accept"
  BY <1>1, <1>3, GotoStep DEF Accept, Moves, Pcs
<1>5. /\ ~ Owns(t) /\ ~ Owns(t)' /\ ~ Waits(t) /\ ~ Waits(t)'
      /\ Refers(t) /\ Refers(t)' /\ Makes(t)'
  BY <1>3, <1>4 DEF Owns, Waits, Refers, Makes, RefOps
<1>6. CallOf(t)'
  <2>1. call[t] \in CallType
    BY <1>1 DEF TypeOK
  <2>2. call[t].id <= last_id' /\ \A i \in call[t].ids : i <= last_id'
    BY <1>1, <1>2, <2>1, SlotTyped, SMTT(30) DEF CallOf, CallType
  <2>. QED
    BY <1>1, <1>2, <1>3, <1>4, <2>2 DEF CallOf, SetUps
<1>7. BindOf(t)' /\ ClosedOf(t)'
  BY <1>3 DEF BindOf, Bound, ClosedOf
<1>. QED
  BY <1>1, <1>3, <1>4, <1>5, <1>6, <1>7, NewStep DEF Accept

\* OS_ObjectIdFinalizeNew: the stream has its descriptor, or none is left.
LEMMA FinalizeNewInv ==
  ASSUME Library, NEW t \in Tasks, IInv, FinalizeNew(t)
  PROVE  IInv'
<1>1. /\ TypeOK /\ Calls /\ Objects /\ Holders
      /\ Descriptors /\ Flags /\ Binds /\ Closed
  BY DEF IInv
<1>2. CallOf(t) /\ HolderOf(t) /\ MakerOf(t)
  BY <1>1 DEF Calls, Holders, Descriptors
<1>3. PICK s \in Slots : s = N(t)
  BY <1>1, TaskSlots
<1>4. /\ call' \in [Tasks -> CallType] /\ call'[t].op = call[t].op
      /\ call'[t].id = call[t].id /\ call'[t].rc = call[t].rc
      /\ call'[t].ids = call[t].ids /\ \A v \in Tasks \ {t} : call'[v] = call[v]
  BY <1>1 DEF FinalizeNew, Set, TypeOK, CallType
<1>5. /\ Moves(t) /\ pc[t] = "created" /\ UNCHANGED <<table, kernel>>
      /\ pc'[t] = (IF call[t].op = "accept" THEN "release" ELSE "done")
      /\ S(t)' = S(t) /\ call[t].op \in {"open", "accept"}
  BY <1>1, <1>2, <1>4, GotoStep
  DEF FinalizeNew, Moves, Pcs, S, CallOf
<1>6. /\ Makes(t) /\ ~ Makes(t)' /\ (Refers(t)' <=> Refers(t))
      /\ ~ Owns(t) /\ ~ Owns(t)' /\ ~ Waits(t) /\ ~ Waits(t)'
  BY <1>4, <1>5 DEF Makes, Refers, Owns, Waits, RefOps
<1>7. /\ obj[s].st = "new" /\ TypeOfObj'
      /\ \A r \in Slots \ {s} : obj'[r] = obj[r]
      /\ \/ /\ obj'[s].st = "valid" /\ obj'[s].id = obj[s].id
            /\ obj'[s].users = 0 /\ call[t].rc = "ok"
         \/ obj'[s].st = "free" /\ obj'[s].id = NONE /\ call[t].rc # "ok"
  <2>1. CASE call[t].rc = "ok"
    <3>1. obj[s].st = "new" /\ obj' = [obj EXCEPT ![s].st = "valid", ![s].users = 0]
      BY <1>3, <2>1 DEF FinalizeNew, Created
    <3>. QED
      BY <1>1, <2>1, <3>1 DEF TypeOK, TypeOfObj
  <2>2. CASE call[t].rc # "ok"
    <3>1. obj[s].st = "new" /\ obj' = [obj EXCEPT ![s] = Free]
      BY <1>3, <2>2 DEF FinalizeNew, NotCreated
    <3>. QED
      BY <1>1, <2>2, <3>1 DEF TypeOK, TypeOfObj, Free
  <2>. QED
    BY <2>1, <2>2
<1>8. TypeOK' /\ last_id <= last_id'
  BY <1>1, <1>5, <1>7, LastIdKept DEF TypeOK, Moves, table, kernel
<1>9. CallOf(t)'
  BY <1>2, <1>4, <1>5 DEF CallOf, Makes, RefOps, table
<1>10. Objects' /\ Holders'
  <2>1. ObjectOf(s) /\ Refs(s) = {} /\ \A r \in Slots : Refs(r)' = Refs(r)
    <3>1. \A r \in Slots : t \in Refs(r)' <=> t \in Refs(r)
      BY <1>5, <1>6 DEF Refs
    <3>. QED
      BY <1>1, <1>5, <1>7, <3>1, RefsStep DEF Objects, ObjectOf
  <2>2. Cardinality(Refs(s)) = 0
    BY <2>1, RefsFinite
  <2>3. ObjectOf(s)'
    BY <1>5, <1>7, <2>1, <2>2 DEF ObjectOf, table
  <2>4. \A v \in Tasks : Holds(v) => S(v) # s
    BY <1>1, <1>7 DEF Holders, HolderOf, Holds
  <2>5. \A v \in Tasks \ {t} : Makes(v) => N(v) # s
    BY <1>1, <1>3, <1>6 DEF Holders, Alone
  <2>6. HolderOf(t)'
    <3>1. S(t) \in Slots
      BY <1>1, TaskSlots
    <3>. QED
      BY <1>2, <1>4, <1>5, <1>6, <1>7, <2>4, <3>1 DEF HolderOf, Holds
  <2>. QED
    BY <1>1, <1>5, <1>6, <1>7, <1>8, <2>1, <2>3, <2>4, <2>5, <2>6, HoldStep
    DEF Holds
<1>11. Descriptors'
  <2>1. call[t].rc = "ok" <=> fd[s] # CLOSED
    BY <1>2, <1>3, <1>5, <1>6 DEF MakerOf
  <2>2. fd' = fd /\ host' = host /\ \A r \in Slots : Forgetting(r)' <=> Forgetting(r)
    BY <1>5, ForgettingKept DEF table, kernel
  <2>3. ASSUME NEW r \in Slots PROVE DescriptorOf(r)'
    <3>1. DescriptorOf(r)
      BY <1>1 DEF Descriptors
    <3>. QED
      BY <1>7, <2>1, <2>2, <3>1 DEF DescriptorOf, InUse
  <2>4. ASSUME NEW f \in Fds PROVE OwnerOf(f)'
    BY <1>1, <2>2 DEF Descriptors, OwnerOf
  <2>5. ASSUME NEW v \in Tasks PROVE MakerOf(v)'
    <3>1. MakerOf(v)
      BY <1>1 DEF Descriptors
    <3>2. CASE v = t
      BY <1>6, <3>2 DEF MakerOf
    <3>3. CASE v # t
      <4>1. /\ pc'[v] = pc[v] /\ call'[v] = call[v]
            /\ (Makes(v)' <=> Makes(v)) /\ N(v)' = N(v)
        BY <1>5, <3>3, OtherTask DEF Moves
      <4>. QED
        BY <2>2, <3>1, <4>1 DEF MakerOf
    <3>. QED
      BY <3>2, <3>3
  <2>. QED
    BY <2>3, <2>4, <2>5 DEF Descriptors
<1>12. Flags'
  <2>1. \A r \in Slots : /\ obj[r].st = "free" => obj'[r].st = "free"
                         /\ obj'[r].st = "new" => obj[r].st = "new"
    BY <1>7
  <2>. QED
    BY <1>1, <1>5, <2>1, FlagsKept DEF table, kernel
<1>13. Binds' /\ Closed'
  <2>1. \A r \in Slots : SlotKept(r)
    BY <1>5, <1>7 DEF SlotKept, table
  <2>2. BindOf(t)' /\ ClosedOf(t)'
    BY <1>4, <1>5 DEF BindOf, Bound, ClosedOf
  <2>. QED
    BY <1>1, <1>5, <2>1, <2>2, BindsStep
<1>14. Calls'
  BY <1>1, <1>5, <1>8, <1>9, CallsStep
<1>. QED
  BY <1>8, <1>10, <1>11, <1>12, <1>13, <1>14 DEF IInv

-----------------------------------------------------------------------------
(* The host's calls that open and close a descriptor.                      *)

\* The descriptor that the host hands out has no owner but the new stream.
LEMMA OpenStep ==
  ASSUME Library, IInv, NEW t \in Tasks, Moves(t), Makes(t), SameCall(t),
         SameRole(t),
         pc[t] \notin {"closed", "created"}, pc'[t] = "created", call[t].rc = "ok",
         call'[t].rc = "ok", UNCHANGED <<obj, last_id, kind, bound>>,
         queue' \in [Fds -> 0 .. MaxQueue],
         NEW state \in HostStates \ {"closed", "listening"}, NEW s \in Slots, s = N(t),
         Descriptor(s, state),
         \A r \in Slots \ {s} : stream_state'[r] = stream_state[r],
         stream_state' \in [Slots -> SUBSET {"BOUND", "LISTENING", "CONNECTED"}],
         \/ stream_state'[s] = {}
         \/ stream_state'[s] = {"CONNECTED"} /\ state = "connected"
  PROVE  IInv'
<1>1. /\ TypeOK /\ Calls /\ Objects /\ Holders
      /\ Descriptors /\ Flags /\ Binds /\ Closed
  BY DEF IInv
<1>2. PICK f \in Fds : /\ host[f] = "closed"
                       /\ host' = [host EXCEPT ![f] = state]
                       /\ fd' = [fd EXCEPT ![s] = f]
  <2>1. Min(FreeFds) \in FreeFds
    BY MinIsLeast, SlotTyped DEF Descriptor, FreeFds
  <2>. QED
    BY <2>1 DEF Descriptor, FreeFds
<1>3. /\ obj[s].st = "new" /\ ~ Forgetting(s) /\ fd[s] = CLOSED
      /\ stream_state[s] = {}
  BY MakerFacts
<1>4. /\ host' \in [Fds -> HostStates] /\ host'[f] = state
      /\ \A g \in Fds \ {f} : host'[g] = host[g]
      /\ fd' \in [Slots -> Fds \cup {CLOSED}] /\ fd'[s] = f
      /\ \A r \in Slots \ {s} : fd'[r] = fd[r]
  BY <1>1, <1>2 DEF TypeOK
<1>5. TypeOK' /\ last_id <= last_id'
  BY <1>1, <1>4, LastIdKept DEF TypeOK, TypeOfObj, Moves
<1>6. CallOf(t)'
  BY <1>1 DEF Calls, CallOf, Makes, SameCall
<1>7. Calls' /\ Objects' /\ Holders'
  BY <1>1, <1>5, <1>6, CallsStep, RolesKept
<1>8. \A r \in Slots : Forgetting(r)' <=> Forgetting(r)
  BY ForgettingKept
<1>9. /\ f # CLOSED
      /\ \A r \in Slots : /\ fd[r] \in Fds \cup {CLOSED}
                          /\ fd[r] = f => Forgetting(r)
  <2>1. \A r \in Slots : DescriptorOf(r) /\ fd[r] \in Fds \cup {CLOSED}
    BY <1>1 DEF Descriptors, TypeOK
  <2>2. f # CLOSED
    BY SlotTyped
  <2>. QED
    BY <1>2, <2>1, <2>2 DEF DescriptorOf
<1>10. Descriptors'
  <2>1. ASSUME NEW r \in Slots PROVE DescriptorOf(r)'
    <3>1. DescriptorOf(r)
      BY <1>1 DEF Descriptors
    <3>2. CASE r = s
      <4>1. fd'[r] = f /\ host'[f] # "closed" /\ obj'[r].st = "new"
        BY <1>3, <1>4, <3>2
      <4>2. ASSUME NEW q \in Slots, fd'[q] = f PROVE q = s \/ Forgetting(q)'
        BY <1>4, <1>8, <1>9, <4>2
      <4>. QED
        BY <1>9, <3>2, <4>1, <4>2 DEF DescriptorOf, InUse
    <3>3. CASE r # s
      <4>1. /\ fd'[r] = fd[r] /\ obj'[r] = obj[r] /\ (Forgetting(r)' <=> Forgetting(r))
            /\ fd[r] = f => Forgetting(r)
            /\ fd[r] # CLOSED /\ fd[r] # f => host'[fd[r]] = host[fd[r]]
        BY <1>4, <1>8, <1>9, <3>3
      <4>2. ASSUME NEW q \in Slots, fd[r] # CLOSED, fd'[q] = fd[r]
            PROVE  r = q \/ Forgetting(r) \/ Forgetting(q)'
        <5>1. CASE q = s
          BY <1>4, <4>1, <4>2, <5>1
        <5>2. CASE q # s
          BY <1>4, <1>8, <3>1, <4>2, <5>2 DEF DescriptorOf
        <5>. QED
          BY <5>1, <5>2
      <4>. QED
        BY <3>1, <4>1, <4>2 DEF DescriptorOf, InUse
    <3>. QED
      BY <3>2, <3>3
  <2>2. ASSUME NEW g \in Fds PROVE OwnerOf(g)'
    <3>1. CASE g = f
      BY <1>3, <1>4, <1>8, <3>1 DEF OwnerOf
    <3>2. CASE g # f
      <4>1. OwnerOf(g) /\ g # CLOSED /\ host'[g] = host[g]
        BY <1>1, <1>4, <3>2, SlotTyped DEF Descriptors
      <4>2. \A r \in Slots : fd[r] = g => r # s /\ fd'[r] = g
        BY <1>3, <1>4, <4>1
      <4>. QED
        BY <1>8, <4>1, <4>2 DEF OwnerOf
    <3>. QED
      BY <3>1, <3>2
  <2>3. ASSUME NEW v \in Tasks \ {t} PROVE MakerOf(v)'
    <3>1. /\ MakerOf(v) /\ N(v) \in Slots /\ N(v)' = N(v) /\ (Makes(v)' <=> Makes(v))
          /\ pc'[v] = pc[v] /\ call'[v] = call[v] /\ (Makes(v) => N(v) # s)
      BY <1>1, TaskSlots, OtherTask DEF Descriptors, Moves, Holders, Alone
    <3>2. Makes(v) => fd'[N(v)] = fd[N(v)]
      BY <1>4, <3>1
    <3>. QED
      BY <3>1, <3>2 DEF MakerOf
  <2>4. MakerOf(t)'
    <3>1. N(t)' = s
      BY DEF SameCall, N
    <3>. QED
      BY <1>4, <1>9, <3>1 DEF MakerOf
  <2>. QED
    BY <2>1, <2>2, <2>3, <2>4 DEF Descriptors
<1>11. Flags'
  <2>1. FlagsOf(s)'
    BY <1>4, <1>9 DEF FlagsOf
  <2>2. ASSUME NEW r \in Slots \ {s}, fd[r] # CLOSED, ~ Forgetting(r)
        PROVE  host'[fd[r]] = host[fd[r]]
    BY <1>4, <1>9, <2>2
  <2>. QED
    BY <1>1, <1>4, <1>8, <2>1, <2>2, FlagsStep
<1>12. Binds' /\ Closed'
  <2>1. \A r \in Slots : SlotKept(r)
    BY <1>3 DEF SlotKept
  <2>2. BindOf(t)' /\ ClosedOf(t)'
    BY DEF BindOf, Bound, ClosedOf
  <2>. QED
    BY <1>1, <2>1, <2>2, BindsStep
<1>. QED
  BY <1>5, <1>7, <1>10, <1>11, <1>12 DEF IInv

LEMMA HostOpenInv ==
  ASSUME Library, NEW t \in Tasks, IInv, HostOpen(t)
  PROVE  IInv'
<1>1. TypeOK /\ CallOf(t)
  BY DEF IInv, Calls
<1>2. PICK s \in Slots : s = N(t)
  BY <1>1, TaskSlots
<1>3. /\ Moves(t) /\ pc[t] = "open" /\ pc'[t] = "created" /\ call' = call
      /\ call[t].op = "open" /\ call[t].rc = "ok" /\ SameCall(t) /\ Makes(t)
  BY <1>1, GotoStep DEF HostOpen, Moves, Pcs, TypeOK, CallOf, SameCall, Makes
<1>4. SameRole(t)
  BY <1>3 DEF SameRole, Refers, Owns, Waits, Makes, Holds, RefOps
<1>5. PICK state \in {"file", "unconnected"} : Descriptor(s, state)
  BY <1>2 DEF HostOpen
<1>6. state \in HostStates \ {"closed", "listening"}
  BY DEF HostStates
<1>7. stream_state[s] = {}
  BY <1>2, <1>3, MakerFacts
<1>. QED
  BY <1>1, <1>2, <1>3, <1>4, <1>5, <1>6, <1>7, OpenStep DEF HostOpen, TypeOK

LEMMA HostAcceptInv ==
  ASSUME Library, NEW t \in Tasks, IInv, HostAccept(t)
  PROVE  IInv'
<1>1. TypeOK /\ CallOf(t)
  BY DEF IInv, Calls
<1>2. PICK s \in Slots : s = N(t)
  BY <1>1, TaskSlots
<1>3. /\ Moves(t) /\ pc[t] = "accept" /\ pc'[t] = "created" /\ call' = call
      /\ call[t].op = "accept" /\ call[t].rc = "ok" /\ SameCall(t)
      /\ Makes(t) /\ Refers(t)
  BY <1>1, GotoStep
  DEF HostAccept, Moves, Pcs, TypeOK, CallOf, SameCall, Makes, Refers, RefOps
<1>4. SameRole(t)
  BY <1>3 DEF SameRole, Refers, Owns, Waits, Makes, Holds, RefOps
<1>5. "connected" \in HostStates \ {"closed", "listening"}
  BY DEF HostStates
<1>6. PICK f \in Fds : f = fd[S(t)]
  BY <1>3, UserFacts
<1>7. queue' \in [Fds -> 0 .. MaxQueue]
  <2>1. queue[f] - 1 \in 0 .. MaxQueue /\ queue' = [queue EXCEPT ![f] = @ - 1]
    BY <1>1, <1>6, StreamsAssumption, SMTT(30) DEF HostAccept, TypeOK
  <2>. QED
    BY <1>1, <2>1 DEF TypeOK
<1>8. /\ stream_state' \in [Slots -> SUBSET {"BOUND", "LISTENING", "CONNECTED"}]
      /\ \A r \in Slots \ {s} : stream_state'[r] = stream_state[r]
      /\ stream_state'[s] = {"CONNECTED"} /\ Descriptor(s, "connected")
  BY <1>1, <1>2 DEF HostAccept, TypeOK
<1>. QED
  BY <1>3, <1>4, <1>5, <1>7, <1>8, OpenStep, SMTT(30) DEF HostAccept

LEMMA HostOpenFailsInv ==
  ASSUME Library, NEW t \in Tasks, IInv, HostOpenFails(t)
  PROVE  IInv'
<1>1. /\ TypeOK /\ CallOf(t) /\ MakerOf(t)
  BY DEF IInv, Calls, Descriptors
<1>2. /\ Moves(t) /\ pc[t] = "open" /\ pc'[t] = "created"
      /\ SameCall(t) /\ call'[t].rc = "error" /\ Makes(t) /\ Makes(t)'
  BY <1>1, GotoStep, FailStep DEF HostOpenFails, Moves, Pcs, Makes
<1>3. fd[N(t)] = CLOSED
  BY <1>2, MakerFacts
<1>4. /\ fd' = [fd EXCEPT ![N(t)] = CLOSED] /\ N(t)' = N(t)
      /\ UNCHANGED <<obj, last_id, kind, stream_state, kernel>>
  BY <1>2 DEF HostOpenFails, SameCall, N
<1>5. fd' = fd
  BY <1>1, <1>3, <1>4 DEF TypeOK
<1>6. UNCHANGED <<obj, table, kernel>>
  BY <1>4, <1>5 DEF table
<1>7. SameRole(t)
  BY <1>1, <1>2 DEF SameRole, Refers, Owns, Waits, SameCall, CallOf, RefOps
<1>8. CallOf(t)'
  BY <1>1, <1>2, <1>4 DEF CallOf, Makes, SameCall
<1>9. MakerOf(t)' /\ BindOf(t)' /\ ClosedOf(t)'
  BY <1>2, <1>3, <1>4, SMTT(30) DEF MakerOf, BindOf, Bound, ClosedOf
<1>. QED
  BY <1>2, <1>6, <1>7, <1>8, <1>9, QuietStep

LEMMA HostAcceptFailsInv ==
  ASSUME Library, NEW t \in Tasks, IInv, HostAcceptFails(t)
  PROVE  IInv'
<1>1. /\ TypeOK /\ CallOf(t) /\ MakerOf(t)
  BY DEF IInv, Calls, Descriptors
<1>2. /\ Moves(t) /\ pc[t] = "accept" /\ pc'[t] = "created"
      /\ SameCall(t) /\ call'[t].rc = "error" /\ Makes(t) /\ Makes(t)'
  BY <1>1, GotoStep, FailStep DEF HostAcceptFails, Moves, Pcs, Makes
<1>3. fd[N(t)] = CLOSED
  BY <1>2, MakerFacts
<1>4. /\ fd' = [fd EXCEPT ![N(t)] = CLOSED] /\ N(t)' = N(t)
      /\ UNCHANGED <<obj, last_id, kind, stream_state, kernel>>
  BY <1>2 DEF HostAcceptFails, SameCall, N
<1>5. fd' = fd
  BY <1>1, <1>3, <1>4 DEF TypeOK
<1>6. UNCHANGED <<obj, table, kernel>>
  BY <1>4, <1>5 DEF table
<1>7. SameRole(t)
  BY <1>2 DEF SameRole, Refers, Owns, Waits, SameCall, RefOps
<1>8. CallOf(t)'
  BY <1>1, <1>2, <1>4 DEF CallOf, SameCall
<1>9. MakerOf(t)' /\ BindOf(t)' /\ ClosedOf(t)'
  BY <1>2, <1>3, <1>4, SMTT(30) DEF MakerOf, BindOf, Bound, ClosedOf
<1>. QED
  BY <1>2, <1>6, <1>7, <1>8, <1>9, QuietStep

LEMMA HostCloseInv ==
  ASSUME Library, NEW t \in Tasks, IInv, HostClose(t)
  PROVE  IInv'
<1>1. /\ TypeOK /\ Calls /\ Objects /\ Holders
      /\ Descriptors /\ Flags /\ Binds /\ Closed
  BY DEF IInv
<1>2. /\ Moves(t) /\ pc[t] = "use" /\ pc'[t] = "closed" /\ Closes(t) /\ call' = call
      /\ UNCHANGED <<obj, last_id, kind, stream_state, fd>> /\ S(t)' = S(t)
  BY <1>1, GotoStep DEF HostClose, Moves, Pcs, TypeOK, table, S
<1>3. Owns(t) /\ SameRole(t) /\ ~ Makes(t)'
  BY <1>2 DEF Closes, SameRole, Refers, Owns, Waits, Makes, Holds, RefOps
<1>4. PICK s \in Slots, f \in Fds : s = S(t) /\ f = fd[s]
  BY <1>2, <1>3, UserFacts
<1>5. /\ InUse(s) /\ \A r \in Slots \ {s} : fd[r] # CLOSED /\ ~ Forgetting(r) => fd[r] # f
  BY <1>2, <1>3, <1>4, UserFacts
<1>6. /\ host' = [host EXCEPT ![f] = "closed"] /\ bound' = bound \ {f}
      /\ queue' = [queue EXCEPT ![f] = 0]
  BY <1>4 DEF HostClose
<1>7. /\ host' \in [Fds -> HostStates] /\ queue' \in [Fds -> 0 .. MaxQueue]
      /\ host'[f] = "closed" /\ \A g \in Fds \ {f} : host'[g] = host[g]
  BY <1>1, <1>6, StreamsAssumption, SMTT(30) DEF TypeOK, HostStates
<1>8. TypeOK' /\ last_id <= last_id'
  BY <1>1, <1>2, <1>6, <1>7, LastIdKept DEF TypeOK, TypeOfObj, Moves
<1>9. Calls' /\ Objects' /\ Holders'
  <2>1. CallOf(t)'
    BY <1>1, <1>2 DEF Calls, CallOf, Closes, Makes
  <2>. QED
    BY <1>1, <1>2, <1>3, <1>8, <2>1, CallsStep, RolesKept
<1>10. Forgetting(s)' /\ \A r \in Slots \ {s} : Forgetting(r)' <=> Forgetting(r)
  BY <1>2, <1>4, ForgettingStep DEF Forgetting
<1>11. Descriptors'
  <2>1. ASSUME NEW r \in Slots PROVE DescriptorOf(r)'
    <3>1. DescriptorOf(r) /\ fd[r] \in Fds \cup {CLOSED}
      BY <1>1 DEF Descriptors, TypeOK
    <3>. QED
      BY <1>2, <1>5, <1>7, <1>10, <3>1 DEF DescriptorOf, InUse
  <2>2. ASSUME NEW g \in Fds PROVE OwnerOf(g)'
    <3>1. CASE g = f
      BY <1>7, <3>1 DEF OwnerOf
    <3>2. CASE g # f
      <4>1. OwnerOf(g) /\ host'[g] = host[g] /\ \A r \in Slots : fd[r] = g => r # s
        BY <1>1, <1>4, <1>7, <3>2 DEF Descriptors
      <4>. QED
        BY <1>2, <1>10, <4>1 DEF OwnerOf
    <3>. QED
      BY <3>1, <3>2
  <2>3. ASSUME NEW v \in Tasks PROVE MakerOf(v)'
    BY <1>1, <1>2, <1>3, OtherTask DEF Descriptors, MakerOf, Moves
  <2>. QED
    BY <2>1, <2>2, <2>3 DEF Descriptors
<1>12. Flags'
  <2>1. FlagsOf(s)'
    BY <1>2, <1>5, <1>10 DEF FlagsOf, InUse
  <2>2. ASSUME NEW r \in Slots \ {s}, fd[r] # CLOSED, ~ Forgetting(r)
        PROVE  host'[fd[r]] = host[fd[r]] /\ (fd[r] \in bound => fd[r] \in bound')
    BY <1>5, <1>6, <2>2, SMTT(30)
  <2>. QED
    BY <1>1, <1>2, <1>10, <2>1, <2>2, FlagsStep
<1>13. Binds' /\ Closed'
  <2>1. \A r \in Slots : SlotKept(r)
    BY <1>2 DEF SlotKept
  <2>2. BindOf(t)' /\ ClosedOf(t)'
    BY <1>1, <1>2 DEF Closed, BindOf, Bound, ClosedOf, Gone
  <2>. QED
    BY <1>1, <1>2, <2>1, <2>2, BindsStep
<1>. QED
  BY <1>8, <1>9, <1>11, <1>12, <1>13 DEF IInv

LEMMA FinalizeDeleteInv ==
  ASSUME Library, NEW t \in Tasks, IInv, FinalizeDelete(t)
  PROVE  IInv'
<1>1. /\ TypeOK /\ Calls /\ Objects /\ Holders
      /\ Descriptors /\ Flags /\ Binds /\ Closed
  BY DEF IInv
<1>2. CallOf(t) /\ HolderOf(t) /\ ClosedOf(t)
  BY <1>1 DEF Calls, Holders, Closed
<1>3. PICK s \in Slots : s = S(t)
  BY <1>1, TaskSlots
<1>4. /\ Moves(t) /\ pc[t] = "closed" /\ Closes(t) /\ call' = call /\ S(t)' = s
      /\ pc'[t] = (IF call[t].op = "closeall" THEN "iterate" ELSE "done")
      /\ UNCHANGED <<last_id, kind, stream_state, host, bound, queue>>
  BY <1>1, <1>2, <1>3, GotoStep
  DEF FinalizeDelete, After, Moves, Pcs, TypeOK, kernel, S, CallOf
<1>5. /\ Owns(t) /\ ~ Refers(t) /\ ~ Refers(t)' /\ ~ Owns(t)' /\ ~ Waits(t)'
      /\ ~ Makes(t) /\ ~ Makes(t)'
  BY <1>4 DEF Closes, Refers, Owns, Waits, Makes, RefOps
<1>6. /\ obj[s].st = "exclusive" /\ obj[s].id = call[t].id /\ call[t].id \in Ids
      /\ obj' = [obj EXCEPT ![s] = Free] /\ fd' = [fd EXCEPT ![s] = CLOSED]
  BY <1>2, <1>3, <1>5 DEF FinalizeDelete, Deleted, HolderOf, Holds
<1>7. /\ TypeOfObj' /\ obj'[s].st = "free" /\ obj'[s].id = NONE
      /\ \A r \in Slots \ {s} : obj'[r] = obj[r]
  BY <1>1, <1>6 DEF TypeOK, TypeOfObj, Free
<1>8. /\ fd' \in [Slots -> Fds \cup {CLOSED}] /\ fd'[s] = CLOSED
      /\ \A r \in Slots \ {s} : fd'[r] = fd[r]
  BY <1>1, <1>6 DEF TypeOK
<1>9. TypeOK' /\ last_id <= last_id'
  BY <1>1, <1>4, <1>7, <1>8, LastIdKept DEF TypeOK, Moves
<1>10. Calls'
  <2>1. CallOf(t)'
    BY <1>2, <1>4 DEF CallOf, Closes, Makes
  <2>. QED
    BY <1>1, <1>4, <1>9, <2>1, CallsStep
<1>11. \A v \in Tasks \ {t} : Holds(v) \/ pc[v] = "closed" => S(v) # s
  <2>1. \A v \in Tasks \ {t} : Holds(v) => S(v) # s
    BY <1>1, <1>3, <1>5 DEF Holders, HolderOf, Alone, Holds
  <2>. QED
    BY <1>1, <2>1, ForgettingOwns DEF Holds
<1>12. \A v \in Tasks : Makes(v) => N(v) # s
  BY <1>1, <1>6 DEF Holders, HolderOf
<1>13. Objects' /\ Holders'
  <2>1. \A r \in Slots : Refs(r)' = Refs(r)
    BY <1>4, <1>5, RefsStep DEF Refs
  <2>2. ObjectOf(s)'
    BY <1>1, <1>6, <1>7, <2>1 DEF Objects, ObjectOf
  <2>3. HolderOf(t)'
    BY <1>5 DEF HolderOf, Holds
  <2>. QED
    BY <1>1, <1>4, <1>5, <1>7, <1>9, <1>11, <1>12, <2>1, <2>2, <2>3, HoldStep
    DEF Holds
<1>14. /\ ~ Forgetting(s)' /\ Forgetting(s)
       /\ \A r \in Slots \ {s} : Forgetting(r)' <=> Forgetting(r)
  <2>1. ~ Forgetting(s)'
    BY <1>4, <1>11, OtherTask DEF Forgetting, Moves
  <2>2. Forgetting(s)
    BY <1>3, <1>4 DEF Forgetting
  <2>. QED
    BY <1>4, <2>1, <2>2, ForgettingStep
<1>15. Descriptors'
  <2>1. ASSUME NEW r \in Slots PROVE DescriptorOf(r)'
    <3>1. DescriptorOf(r)
      BY <1>1 DEF Descriptors
    <3>. QED
      BY <1>4, <1>7, <1>8, <1>14, <3>1 DEF DescriptorOf, InUse
  <2>2. ASSUME NEW g \in Fds PROVE OwnerOf(g)'
    BY <1>1, <1>4, <1>8, <1>14 DEF Descriptors, OwnerOf
  <2>3. ASSUME NEW v \in Tasks PROVE MakerOf(v)'
    <3>1. MakerOf(v) /\ N(v) \in Slots /\ (Makes(v) => N(v) # s)
      BY <1>1, <1>12, TaskSlots DEF Descriptors
    <3>. QED
      BY <1>4, <1>5, <1>8, <3>1, OtherTask DEF MakerOf, Moves
  <2>. QED
    BY <2>1, <2>2, <2>3 DEF Descriptors
<1>16. Flags'
  <2>1. FlagsOf(s)'
    BY <1>7 DEF FlagsOf
  <2>. QED
    BY <1>1, <1>4, <1>7, <1>8, <1>14, <2>1, FlagsStep
<1>17. Binds' /\ Closed'
  <2>1. \A r \in Slots : SlotKept(r)
    BY <1>4, <1>7 DEF SlotKept
  <2>2. BindOf(t)'
    BY <1>4 DEF BindOf, Bound, Closes
  <2>3. ASSUME call[t].op = "closeall", call[t].rc = "ok", NEW r \in Slots, r <= call[t].at
        PROVE  Gone(t, r)'
    <3>1. call[t].at = s /\ \A q \in Slots : q < s => Gone(t, q)
      BY <1>2, <1>3, <1>4, <1>6, <2>3, SlotTyped DEF ClosedOf
    <3>2. CASE r = s
      <4>1. NONE \notin call[t].ids
        BY <1>1, SlotTyped DEF TypeOK, CallType
      <4>. QED
        BY <1>4, <1>7, <3>2, <4>1 DEF Gone
    <3>3. CASE r # s
      BY <1>4, <1>7, <2>3, <3>1, <3>3, SlotTyped, SMTT(30) DEF Gone
    <3>. QED
      BY <3>2, <3>3
  <2>4. ClosedOf(t)'
    BY <1>4, <2>3 DEF ClosedOf
  <2>. QED
    BY <1>1, <1>4, <2>1, <2>2, <2>4, BindsStep
<1>. QED
  BY <1>9, <1>10, <1>13, <1>15, <1>16, <1>17 DEF IInv

-----------------------------------------------------------------------------
(* The network.                                                            *)

LEMMA NetworkStep ==
  ASSUME IInv, UNCHANGED <<obj, table, bound, app, pc, call>>,
         host' \in [Fds -> HostStates], queue' \in [Fds -> 0 .. MaxQueue],
         \A f \in Fds : /\ host'[f] = "closed" <=> host[f] = "closed"
                        /\ host'[f] = "listening" <=> host[f] = "listening"
                        /\ host[f] = "connected" => host'[f] = "connected"
  PROVE  IInv'
<1>1. /\ TypeOK /\ Calls /\ Objects /\ Holders
      /\ Descriptors /\ Flags /\ Binds /\ Closed
  BY DEF IInv
<1>2. UNCHANGED <<last_id, kind, stream_state, fd>>
  BY DEF table
<1>3. TypeOK'
  BY <1>1, <1>2 DEF TypeOK, TypeOfObj
<1>4. \A t \in Tasks : /\ (Refers(t)' <=> Refers(t)) /\ (Owns(t)' <=> Owns(t))
                       /\ (Waits(t)' <=> Waits(t)) /\ (Makes(t)' <=> Makes(t))
                       /\ (Holds(t)' <=> Holds(t)) /\ S(t)' = S(t) /\ N(t)' = N(t)
  BY OtherTask
<1>5. Calls'
  BY <1>1, <1>2, <1>4 DEF Calls, CallOf, Closes
<1>6. Objects' /\ Holders'
  <2>1. ASSUME NEW s \in Slots PROVE Refs(s)' = Refs(s)
    BY <1>4 DEF Refs
  <2>2. Objects'
    BY <1>1, <1>2, <2>1 DEF Objects, ObjectOf
  <2>3. Holders'
    BY <1>1, <1>4, SMTT(30) DEF Holders, HolderOf, Alone
  <2>. QED
    BY <2>2, <2>3
<1>7. ASSUME NEW s \in Slots
      PROVE  /\ Forgetting(s)' <=> Forgetting(s)
             /\ fd[s] \in Fds \cup {CLOSED}
  BY <1>1, <1>4 DEF Forgetting, TypeOK
<1>8. Descriptors'
  <2>1. ASSUME NEW s \in Slots PROVE DescriptorOf(s)'
    <3>1. DescriptorOf(s)
      BY <1>1 DEF Descriptors
    <3>. QED
      BY <1>2, <1>7, <3>1 DEF DescriptorOf, InUse
  <2>2. ASSUME NEW f \in Fds PROVE OwnerOf(f)'
    BY <1>1, <1>2, <1>7 DEF Descriptors, OwnerOf
  <2>3. ASSUME NEW t \in Tasks PROVE MakerOf(t)'
    BY <1>1, <1>2, <1>4 DEF Descriptors, MakerOf
  <2>. QED
    BY <2>1, <2>2, <2>3 DEF Descriptors
<1>9. Flags'
  <2>1. ASSUME NEW s \in Slots PROVE FlagsOf(s)'
    <3>1. FlagsOf(s)
      BY <1>1 DEF Flags
    <3>. QED
      BY <1>2, <1>7, <3>1 DEF FlagsOf
  <2>. QED
    BY <2>1 DEF Flags
<1>10. Binds' /\ Closed'
  BY <1>1, <1>2, <1>4
  DEF Binds, BindOf, Bound, Closed, ClosedOf, Gone
<1>. QED
  BY <1>3, <1>5, <1>6, <1>8, <1>9, <1>10 DEF IInv

LEMMA NetworkInv == ASSUME IInv, Network PROVE IInv'
<1>1. TypeOK
  BY DEF IInv
<1>2. PICK f \in Fds : Arrive(f) \/ Abort(f) \/ Answer(f)
  BY DEF Network
<1>3. CASE Arrive(f)
  <2>1. queue' = [queue EXCEPT ![f] = @ + 1] /\ queue[f] + 1 \in 0 .. MaxQueue
    BY <1>1, <1>3, StreamsAssumption, SMTT(30) DEF Arrive, TypeOK
  <2>2. queue' \in [Fds -> 0 .. MaxQueue]
    BY <1>1, <2>1 DEF TypeOK
  <2>. QED
    BY <1>1, <1>3, <2>2, NetworkStep DEF Arrive, TypeOK
<1>4. CASE Abort(f)
  <2>1. queue' = [queue EXCEPT ![f] = @ - 1] /\ queue[f] - 1 \in 0 .. MaxQueue
    BY <1>1, <1>4, StreamsAssumption, SMTT(30) DEF Abort, TypeOK
  <2>2. queue' \in [Fds -> 0 .. MaxQueue]
    BY <1>1, <2>1 DEF TypeOK
  <2>. QED
    BY <1>1, <1>4, <2>2, NetworkStep DEF Abort, TypeOK
<1>5. CASE Answer(f)
  <2>1. host' \in [Fds -> HostStates]
    BY <1>1, <1>5 DEF Answer, TypeOK, HostStates
  <2>2. \A g \in Fds : /\ host'[g] = "closed" <=> host[g] = "closed"
                       /\ host'[g] = "listening" <=> host[g] = "listening"
                       /\ host[g] = "connected" => host'[g] = "connected"
    BY <1>5, SMTT(30) DEF Answer
  <2>. QED
    BY <1>1, <1>5, <2>1, NetworkStep DEF Answer, TypeOK
<1>. QED
  BY <1>2, <1>3, <1>4, <1>5

-----------------------------------------------------------------------------
(* The invariant holds, and what follows from it.                          *)

LEMMA InitInv == ASSUME Init PROVE IInv
<1>1. /\ \A t \in Tasks : pc[t] = "idle" /\ call[t] = Idle
      /\ \A s \in Slots : /\ obj[s] = Free /\ fd[s] = CLOSED
      /\ \A f \in Fds : host[f] = "closed"
  BY DEF Init, InitObj
<1>2. NONE <= last_id /\ Idle.id = NONE /\ Idle.op = "none" /\ Idle.ids = {}
      /\ Idle.rc = "ok"
  BY SMTT(30) DEF Init, Idle, NONE
<1>3. TypeOK
  BY IdleTyped, StreamsAssumption, SMTT(30)
  DEF Init, InitObj, TypeOK, TypeOfObj, Free, AllKinds, HostStates, Pcs
<1>4. \A t \in Tasks : ~ Refers(t) /\ ~ Owns(t) /\ ~ Waits(t) /\ ~ Makes(t) /\ ~ Holds(t)
  BY <1>1 DEF Refers, Owns, Waits, Makes, Holds
<1>5. Calls
  BY <1>1, <1>2, <1>4 DEF Calls, CallOf, RefOps, SetUps
<1>6. Objects
  <2>1. ASSUME NEW s \in Slots PROVE Refs(s) = {}
    BY <1>4 DEF Refs
  <2>. QED
    BY <1>1, <2>1, SMTT(30) DEF Objects, ObjectOf, Free
<1>7. Holders
  BY <1>4 DEF Holders, HolderOf, Alone
<1>8. Descriptors /\ Flags
  BY <1>1, <1>4, SMTT(30)
  DEF Descriptors, DescriptorOf, InUse, OwnerOf, MakerOf, Flags, FlagsOf, Free
<1>9. Binds /\ Closed
  BY <1>1 DEF Binds, BindOf, Bound, Closed, ClosedOf
<1>. QED
  BY <1>3, <1>5, <1>6, <1>7, <1>8, <1>9 DEF IInv

LEMMA StutterInv == ASSUME IInv, UNCHANGED vars PROVE IInv'
<1>1. UNCHANGED <<obj, table, bound, app, pc, call>> /\ host' = host /\ queue' = queue
  BY DEF vars, kernel
<1>2. TypeOK
  BY DEF IInv
<1>. QED
  BY <1>1, <1>2, NetworkStep DEF TypeOK

LEMMA NextInv == ASSUME Library, IInv, [Next]_vars PROVE IInv'
<1>1. ASSUME NEW t \in Tasks, Begin(t) PROVE IInv'
  BY <1>1, OpenInv, CallInv, CloseAllFilesInv DEF Begin
<1>2. ASSUME NEW t \in Tasks, Step(t) PROVE IInv'
  <2>1. CASE HostOpen(t) \/ HostOpenFails(t) \/ FinalizeNew(t) \/ Accept(t)
             \/ AcceptFails(t) \/ AcceptReady(t) \/ AcceptTimeout(t)
             \/ HostAccept(t) \/ HostAcceptFails(t)
    BY <2>1, HostOpenInv, HostOpenFailsInv, FinalizeNewInv, AcceptInv,
       AcceptFailsInv, AcceptReadyInv, AcceptTimeoutInv, HostAcceptInv,
       HostAcceptFailsInv
  <2>2. CASE LookupRef(t) \/ LookupExclusive(t) \/ LookupFails(t)
             \/ LookupGranted(t) \/ LookupGivesUp(t) \/ Release(t) \/ Done(t)
    BY <2>2, LookupRefInv, LookupExclusiveInv, LookupFailsInv,
       LookupGrantedInv, LookupGivesUpInv, ReleaseInv, DoneInv
  <2>3. CASE HostClose(t) \/ FinalizeDelete(t) \/ Iterate(t) \/ Transfer(t)
    BY <2>3, HostCloseInv, FinalizeDeleteInv, IterateInv, TransferInv
  <2>4. CASE BindAddress(t) \/ Listen(t) \/ Connect(t) \/ ConnectFails(t)
             \/ ConnectReady(t) \/ ConnectTimeout(t)
    BY <2>4, BindAddressInv, ListenInv, ConnectInv, ConnectFailsInv,
       ConnectReadyInv, ConnectTimeoutInv
  <2>. QED
    BY <1>2, <2>1, <2>2, <2>3, <2>4 DEF Step
<1>. QED
  BY <1>1, <1>2, NetworkInv, StutterInv DEF Next

-----------------------------------------------------------------------------
INSTANCE FiniteSetTheorems

LEMMA LibraryHolds == Library
<1>1. ASSUME NEW X \in SUBSET Nat, X # {}
      PROVE  Min(X) \in X /\ \A r \in X : Min(X) <= r
  <2>1. PICK n \in X : \A m \in X : ~ (<<m, n>> \in OpToRel(<, Nat))
    BY <1>1, WFMin, NatLessThanWellFounded
  <2>2. ASSUME NEW m \in X PROVE n <= m
    <3>1. <<m, n>> \in Nat \X Nat /\ ~ (<<m, n>> \in {p \in Nat \X Nat : p[1] < p[2]})
      BY <2>1 DEF OpToRel
    <3>. QED
      BY <3>1, SMTT(30)
  <2>. QED
    BY <2>2 DEF Min
<1>2. ASSUME NEW X \in SUBSET Tasks
      PROVE  /\ Cardinality(X) \in Nat /\ (Cardinality(X) = 0 <=> X = {})
             /\ \A t \in Tasks \ X : Cardinality(X \cup {t}) = Cardinality(X) + 1
             /\ \A t \in X : Cardinality(X \ {t}) = Cardinality(X) - 1
  <2>1. IsFiniteSet(X)
    BY StreamsAssumption, FS_Subset
  <2>. QED
    BY <2>1, FS_CardinalityType, FS_EmptySet, FS_AddElement, FS_RemoveElement
<1>. QED
  BY <1>1, <1>2 DEF Library

(* Along every behaviour of the stream calls, the counts of the table, the *)
(* descriptors of the records and the flags of the sockets agree with what *)
(* the tasks in OS_OpenCreate, OS_close, OS_SocketAccept and the others    *)
(* are doing.                                                              *)
THEOREM Invariant == Spec => []IInv
<1>1. IInv /\ [Next]_vars => IInv'
  BY LibraryHolds, NextInv
<1>. QED
  BY <1>1, InitInv, PTL DEF Spec

(* The stream table, the descriptors and the calls keep their types.       *)
THEOREM TypeCorrect == Spec => []TypeOK
<1>1. IInv => TypeOK
  BY DEF IInv
<1>. QED
  BY <1>1, Invariant, PTL

(* No descriptor leaks or has two owners, whatever fails half-way in       *)
(* OS_OpenCreate, OS_SocketOpen, OS_SocketAccept or OS_close.              *)
THEOREM DescriptorsOwnedHolds == Spec => []DescriptorsOwned
<1>1. IInv => DescriptorsOwned
  <2>. SUFFICES ASSUME TypeOK, Descriptors PROVE DescriptorsOwned
    BY DEF IInv
  <2>1. \A s \in Slots : DescriptorOf(s)
    BY DEF Descriptors
  <2>2. ASSUME NEW f \in Fds, host[f] # "closed"
        PROVE  \E s \in Slots : fd[s] = f /\ obj[s].st # "free" /\ ~ Forgetting(s)
    <3>1. PICK s \in Slots : fd[s] = f /\ ~ Forgetting(s)
      BY <2>2 DEF Descriptors, OwnerOf
    <3>2. obj[s].st # "free"
      BY <2>1, <3>1, SlotTyped DEF DescriptorOf
    <3>. QED
      BY <3>1, <3>2
  <2>. QED
    BY <2>1, <2>2 DEF DescriptorsOwned, DescriptorOf
<1>. QED
  BY <1>1, Invariant, PTL

(* A task that is in a host call on a stream, also one that blocks in      *)
(* OS_SelectSingle_Impl, keeps the descriptor it looked up.                *)
THEOREM UseKeepsDescriptorHolds == Spec => []UseKeepsDescriptor
<1>1. IInv => UseKeepsDescriptor
  <2>. SUFFICES ASSUME IInv, NEW t \in Tasks,
                       pc[t] \in {"use", "connect_select", "accept_select",
                                  "accept", "release"}
                PROVE  /\ obj[S(t)].id = call[t].id
                       /\ fd[S(t)] # CLOSED /\ host[fd[S(t)]] # "closed"
    BY DEF UseKeepsDescriptor
  <2>1. Refers(t) \/ Owns(t)
    BY DEF IInv, Calls, CallOf, Refers, Owns, RefOps
  <2>. QED
    BY <2>1, UserFacts, SlotTyped
<1>. QED
  BY <1>1, Invariant, PTL

(* The flags in OS_stream_table are true of the host's socket, whatever    *)
(* other tasks and the network did to it since they were set.              *)
THEOREM FlagsMatchHostHolds == Spec => []FlagsMatchHost
<1>1. IInv => FlagsMatchHost
  <2>. SUFFICES ASSUME IInv, NEW s \in Slots, obj[s].st = "valid"
                PROVE  /\ "BOUND" \in stream_state[s] => fd[s] \in bound
                       /\ "LISTENING" \in stream_state[s] <=> host[fd[s]] = "listening"
                       /\ "CONNECTED" \in stream_state[s] => host[fd[s]] = "connected"
    BY DEF FlagsMatchHost
  <2>1. fd[s] # CLOSED /\ FlagsOf(s)
    BY DEF IInv, Descriptors, DescriptorOf, InUse, Flags
  <2>2. ~ Forgetting(s)
    BY ForgettingOwns DEF IInv, Holders, HolderOf, Forgetting
  <2>. QED
    BY <2>1, <2>2 DEF FlagsOf
<1>. QED
  BY <1>1, Invariant, PTL

(* OS_SocketBind reports success for a stream socket only when it listens, *)
(* although it gives the socket away between bind and listen.              *)
THEOREM BindMeansListeningHolds == Spec => []BindMeansListening
<1>1. IInv => BindMeansListening
  BY DEF IInv, Binds, BindOf, Bound, BindMeansListening
<1>. QED
  BY <1>1, Invariant, PTL

(* OS_CloseAllFiles reports success only when every stream that existed    *)
(* when it began is gone.                                                  *)
THEOREM CloseAllClosesHolds == Spec => []CloseAllCloses
<1>1. IInv => CloseAllCloses
  BY DEF IInv, Closed, ClosedOf, Gone, CloseAllCloses
<1>. QED
  BY <1>1, Invariant, PTL

=============================================================================
