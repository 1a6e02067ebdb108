------------------------------- MODULE IdMap -------------------------------
(***************************************************************************)
(* The object ID table of OSAL for ONE object type, as implemented by      *)
(* src/os/shared/src/osapi-idmap.c over the table mutex and condition      *)
(* variable of src/os/posix/src/os-impl-idmap.c.                           *)
(*                                                                         *)
(* Every OSAL object (task, queue, semaphore, file, timer ...) lives in a  *)
(* slot of such a table.  A task that wants to work with an object starts  *)
(* a transaction, which takes the table lock, finds the slot, and converts *)
(* the table lock to the lock mode it asked for:                           *)
(*                                                                         *)
(*   GLOBAL     keep the table lock while the object is used               *)
(*   RESERVED   as GLOBAL, for an object that is being created or deleted  *)
(*   REFCOUNT   count one more user of the slot, release the table lock    *)
(*   EXCLUSIVE  overwrite the slot's id by RESERVED, wait until no user is *)
(*              left, release the table lock (create, delete, bind ...)    *)
(*                                                                         *)
(* An object id is its serial number here: the type bits are the same for  *)
(* every object of the table.                                              *)
(***************************************************************************)
EXTENDS Integers, FiniteSets

CONSTANTS
  Tasks,            \* the threads that call OSAL
  NoTask,           \* "nobody holds the table mutex"
  MaxId,            \* OS_MAX_xxx, the number of slots of the type
  Mask,             \* OS_OBJECT_INDEX_MASK: serial numbers wrap here
  MaxAttempts,      \* rounds of the contention loop (5 in the code)
  Names,            \* object names; {} for types allocated without a name
  NoName,           \* the NULL name_entry
  Modes,            \* lock modes that objects of the type are looked up with
  SearchModes,      \* lock modes of searches by name for the type
  HasLock,          \* does the lock table have a mutex for the type
  HandlerMayReject, \* has the application an event handler that may say no
  Cancellable       \* tasks that another task may delete (pthread_cancel)

LockModes == {"GLOBAL", "RESERVED", "REFCOUNT", "EXCLUSIVE"}

ASSUME TasksAssumption ==
  IsFiniteSet(Tasks) /\ NoTask \notin Tasks /\ Cancellable \subseteq Tasks
ASSUME SizeAssumption == MaxId \in Nat \ {0} /\ Mask \in Nat /\ Mask > MaxId
ASSUME AttemptsAssumption == MaxAttempts \in Nat \ {0}
ASSUME NamesAssumption == NoName \notin Names
ASSUME ModesAssumption == Modes \subseteq LockModes /\ SearchModes \subseteq LockModes
ASSUME FlagsAssumption == HasLock \in BOOLEAN /\ HandlerMayReject \in BOOLEAN

UNDEFINED == -1   \* OS_OBJECT_ID_UNDEFINED
RESERVED  == -2   \* OS_OBJECT_ID_RESERVED
KEEP      == -3   \* no final id: OS_ObjectIdTransactionFinish(token, NULL)

Slots == 0 .. (MaxId - 1)
Ids   == 0 .. (Mask - 1)

VARIABLES
  global_state,  \* OS_SharedGlobalVars.GlobalState
  active_id,     \* slot -> OS_common_record_t.active_id
  refcount,      \* slot -> OS_common_record_t.refcount
  name_entry,    \* slot -> OS_common_record_t.name_entry
  last_id,       \* serial number of OS_objtype_state[].last_id_issued
  mutex,         \* owner of the table mutex
  pc,            \* task -> where it is
  tok            \* task -> its OS_object_token_t and the locals around it

table == <<active_id, refcount, name_entry, last_id>>
vars  == <<global_state, table, mutex, pc, tok>>

\* A token with the local variables of the routine that uses it:
\*   op     the operation the transaction serves
\*   mode   lock_mode
\*   id     obj_id (while a free slot is searched: the serial number)
\*   idx    obj_idx
\*   count  attempts of ConvertToken, or the loop counter of FindNextFree
\*   own    a waiting ConvertToken overwrote active_id (expected_id is RESERVED)
\*   held   ConvertToken has succeeded and TransactionFinish has not run yet
\*   final  the id that TransactionFinish stores
\*   name   the name argument
Token ==
  [op    : {"none", "create", "byid", "search", "foreach"},
   mode  : LockModes \cup {"NONE"},
   id    : Ids \cup {UNDEFINED, RESERVED},
   idx   : Slots \cup {-1},
   count : Nat,
   own   : BOOLEAN,
   held  : BOOLEAN,
   final : Ids \cup {UNDEFINED, KEEP},
   name  : Names \cup {NoName}]

NullToken ==
  [op |-> "none", mode |-> "NONE", id |-> UNDEFINED, idx |-> -1, count |-> 0,
   own |-> FALSE, held |-> FALSE, final |-> KEEP, name |-> NoName]

PCs == {"idle", "lock", "search", "scan", "claim", "notify", "convert", "wait",
        "allocated", "building", "using", "relock", "finish", "iterate",
        "callback", "cancelled"}

Init ==
  /\ global_state = "INIT"
  /\ active_id = [s \in Slots |-> UNDEFINED]
  /\ refcount = [s \in Slots |-> 0]
  /\ name_entry = [s \in Slots |-> NoName]
  /\ last_id = 0
  /\ mutex = NoTask
  /\ pc = [t \in Tasks |-> "idle"]
  /\ tok = [t \in Tasks |-> NullToken]

-----------------------------------------------------------------------------
(* The table lock.                                                         *)

\* OS_Lock_Global: a PTHREAD_MUTEX_NORMAL mutex, or nothing at all for a
\* type without an entry in OS_impl_objtype_lock_table.
Lock_Global(t) ==
  IF HasLock THEN mutex = NoTask /\ mutex' = t ELSE UNCHANGED mutex

\* OS_Unlock_Global.  The broadcast it sends adds no behaviour: a waiting
\* task can wake by its timeout at any moment anyway (Reacquire below).
Unlock_Global == mutex' = NoTask

GoTo(t, label) == pc' = [pc EXCEPT ![t] = label]

\* The API call returns to the application: its token is gone.
Return(t) == GoTo(t, "idle") /\ tok' = [tok EXCEPT ![t] = NullToken]

-----------------------------------------------------------------------------
(* Starting a transaction.                                                 *)

\* OS_ObjectIdTransactionInit up to the lock.  After a shutdown request only
\* EXCLUSIVE transactions may start.
TransactionInit(t, token) ==
  /\ pc[t] = "idle"
  /\ global_state = "INIT" \/ token.mode = "EXCLUSIVE"
  /\ tok' = [tok EXCEPT ![t] = token]
  /\ GoTo(t, "lock")
  /\ UNCHANGED <<global_state, table, mutex>>

\* OS_ObjectIdAllocateNew up to the table lock.
AllocateNew(t) ==
  /\ global_state = "INIT"
  /\ \E n \in (IF Names = {} THEN {NoName} ELSE Names) :
       TransactionInit(t, [NullToken EXCEPT !.op = "create", !.mode = "EXCLUSIVE",
                                            !.name = n])

\* OS_ObjectIdGetById with any id the application may still remember.
GetById(t) ==
  \E m \in Modes, i \in Ids :
    TransactionInit(t, [NullToken EXCEPT !.op = "byid", !.mode = m,
                                         !.id = i, !.idx = i % MaxId])

\* OS_ObjectIdGetBySearch as called by GetByName and FindByName.
GetBySearch(t) ==
  \E m \in SearchModes, n \in Names :
    TransactionInit(t, [NullToken EXCEPT !.op = "search", !.mode = m, !.name = n])

\* OS_ForEachObjectOfType: OS_ObjectIdIteratorInit.
ForEachObject(t) ==
  TransactionInit(t, [NullToken EXCEPT !.op = "foreach", !.mode = "GLOBAL"])

\* The table lock is granted.
LockTable(t) ==
  /\ pc[t] = "lock"
  /\ Lock_Global(t)
  /\ GoTo(t, CASE tok[t].op = "byid"    -> "convert"
               [] tok[t].op = "foreach" -> "iterate"
               [] OTHER                 -> "search")
  /\ UNCHANGED <<global_state, table, tok>>

-----------------------------------------------------------------------------
(* Finding a slot.                                                         *)

\* OS_ObjectNameMatch on the entries that FindNextMatch looks at: every
\* defined id, RESERVED ones too.
Matching(n) == {s \in Slots : active_id[s] # UNDEFINED /\ name_entry[s] = n}

FirstOf(S) == CHOOSE s \in S : \A r \in S : s <= r

\* OS_ObjectIdFindNextMatch in OS_ObjectIdGetBySearch.
FindNextMatch(t) ==
  /\ pc[t] = "search" /\ tok[t].op = "search"
  /\ LET found == Matching(tok[t].name) IN
       IF found = {}
       THEN Unlock_Global /\ Return(t)
       ELSE /\ tok' = [tok EXCEPT ![t].idx = FirstOf(found),
                                  ![t].id = active_id[FirstOf(found)]]
            /\ GoTo(t, "convert")
            /\ UNCHANGED mutex
  /\ UNCHANGED <<global_state, table>>

\* The duplicate name check of OS_ObjectIdAllocateNew: NAME_TAKEN, or the
\* search for a free slot starts after the last id issued.
CheckName(t) ==
  /\ pc[t] = "search" /\ tok[t].op = "create"
  /\ IF tok[t].name # NoName /\ Matching(tok[t].name) # {}
     THEN Unlock_Global /\ Return(t)
     ELSE /\ tok' = [tok EXCEPT ![t].id = last_id]
          /\ GoTo(t, "scan")
          /\ UNCHANGED mutex
  /\ UNCHANGED <<global_state, table>>

\* (mutant) the serial number wraps to zero instead of to the slot reached
NextSerial_ToZero(s) == IF s + 1 >= Mask THEN 0 ELSE s + 1

\* The serial number after s: it restarts in the slot it has reached.
NextSerial(s) == IF s + 1 >= Mask THEN (s + 1) % MaxId ELSE s + 1

\* One round of the loop of OS_ObjectIdFindNextFree.
ScanSlot(t) ==
  /\ pc[t] = "scan" /\ tok[t].count < MaxId
  /\ LET serial == NextSerial(tok[t].id)
         local  == (tok[t].id + 1) % MaxId
     IN /\ tok' = [tok EXCEPT ![t].id = serial, ![t].idx = local,
                              ![t].count = @ + 1]
        /\ GoTo(t, IF active_id[local] = UNDEFINED THEN "claim" ELSE "scan")
  /\ UNCHANGED <<global_state, table, mutex>>

\* The loop ends without a free slot: OS_ERR_NO_FREE_IDS.
ScanFails(t) ==
  /\ pc[t] = "scan" /\ tok[t].count = MaxId
  /\ Unlock_Global
  /\ Return(t)
  /\ UNCHANGED <<global_state, table>>

\* FindNextFree fills in the record of the slot it found.
ClaimSlot(t) ==
  /\ pc[t] = "claim"
  /\ LET s == tok[t].idx IN
       /\ active_id' = [active_id EXCEPT ![s] = tok[t].id]
       /\ name_entry' = [name_entry EXCEPT ![s] = NoName]
       /\ refcount' = [refcount EXCEPT ![s] = 0]
  /\ last_id' = tok[t].id
  /\ tok' = [tok EXCEPT ![t].count = 0]
  /\ GoTo(t, "notify")
  /\ UNCHANGED <<global_state, mutex>>

\* OS_NotifyEvent(OS_EVENT_RESOURCE_ALLOCATED), with the table locked.
NotifyAllocated(t) ==
  /\ pc[t] = "notify"
  /\ GoTo(t, "convert")
  /\ UNCHANGED <<global_state, table, mutex, tok>>

\* The handler refuses: OS_ObjectIdFinalizeNew, which locks the table.
NotifyRejected(t) ==
  /\ pc[t] = "notify" /\ HandlerMayReject
  /\ tok' = [tok EXCEPT ![t].final = UNDEFINED]
  /\ GoTo(t, "relock")
  /\ UNCHANGED <<global_state, table, mutex>>

-----------------------------------------------------------------------------
(* OS_ObjectIdConvertToken.                                                *)

ExpectedId(t) ==
  IF tok[t].mode = "RESERVED" \/ tok[t].own THEN RESERVED ELSE tok[t].id

IdMatches(t) == active_id[tok[t].idx] = ExpectedId(t)

KeepsTableLock(mode) == mode \in {"GLOBAL", "RESERVED"}

\* An error is returned: GetById cancels the transaction, GetBySearch does
\* not, AllocateNew goes on to FinalizeNew.
ConvertError(t) ==
  CASE tok[t].op = "search" -> Return(t) /\ UNCHANGED mutex
    [] tok[t].op = "create" -> /\ tok' = [tok EXCEPT ![t].own = FALSE,
                                                      ![t].final = UNDEFINED]
                               /\ GoTo(t, "relock") /\ UNCHANGED mutex
    [] OTHER -> Return(t) /\ Unlock_Global

\* This round, or an earlier one, overwrites active_id by RESERVED.
Overwrites(t) == tok[t].mode = "EXCLUSIVE" /\ (tok[t].own \/ IdMatches(t))

SetActiveId(t, id) == active_id' = [active_id EXCEPT ![tok[t].idx] = id]

\* A search found an entry whose id is RESERVED: INCORRECT_OBJ_STATE.
ConvertInvalid(t) ==
  /\ pc[t] = "convert" /\ tok[t].id \notin Ids
  /\ ConvertError(t)
  /\ UNCHANGED <<global_state, table>>

\* (mutant) only REFCOUNT transactions are counted
ConvertGranted_CountsRefOnly(t) ==
  /\ pc[t] = "convert" /\ tok[t].id \in Ids
  /\ IdMatches(t)
  /\ tok[t].mode = "EXCLUSIVE" => refcount[tok[t].idx] = 0
  /\ IF Overwrites(t) THEN SetActiveId(t, RESERVED) ELSE UNCHANGED active_id
  /\ refcount' = IF tok[t].mode = "REFCOUNT"
                 THEN [refcount EXCEPT ![tok[t].idx] = @ + 1] ELSE refcount
  /\ tok' = [tok EXCEPT ![t].own = FALSE, ![t].held = TRUE, ![t].count = 0]
  /\ IF KeepsTableLock(tok[t].mode) THEN UNCHANGED mutex ELSE Unlock_Global
  /\ GoTo(t, IF tok[t].op = "create" THEN "allocated" ELSE "using")
  /\ UNCHANGED <<global_state, name_entry, last_id>>

\* (mutant) EXCLUSIVE is granted while the object still has users
ConvertGranted_IgnoresUsers(t) ==
  /\ pc[t] = "convert" /\ tok[t].id \in Ids
  /\ IdMatches(t)
  /\ IF Overwrites(t) THEN SetActiveId(t, RESERVED) ELSE UNCHANGED active_id
  /\ refcount' = [refcount EXCEPT ![tok[t].idx] = @ + 1]
  /\ tok' = [tok EXCEPT ![t].own = FALSE, ![t].held = TRUE, ![t].count = 0]
  /\ IF KeepsTableLock(tok[t].mode) THEN UNCHANGED mutex ELSE Unlock_Global
  /\ GoTo(t, IF tok[t].op = "create" THEN "allocated" ELSE "using")
  /\ UNCHANGED <<global_state, name_entry, last_id>>

\* The ids match and the lock mode can be granted.
ConvertGranted(t) ==
  /\ pc[t] = "convert" /\ tok[t].id \in Ids
  /\ IdMatches(t)
  /\ tok[t].mode = "EXCLUSIVE" => refcount[tok[t].idx] = 0
  /\ IF Overwrites(t) THEN SetActiveId(t, RESERVED) ELSE UNCHANGED active_id
  /\ refcount' = [refcount EXCEPT ![tok[t].idx] = @ + 1]
  /\ tok' = [tok EXCEPT ![t].own = FALSE, ![t].held = TRUE, ![t].count = 0]
  /\ IF KeepsTableLock(tok[t].mode) THEN UNCHANGED mutex ELSE Unlock_Global
  /\ GoTo(t, IF tok[t].op = "create" THEN "allocated" ELSE "using")
  /\ UNCHANGED <<global_state, name_entry, last_id>>

\* The slot holds another object, or none: OS_ERR_INVALID_ID.
ConvertMismatch(t) ==
  /\ pc[t] = "convert" /\ tok[t].id \in Ids
  /\ ~ IdMatches(t) /\ active_id[tok[t].idx] # RESERVED
  /\ IF Overwrites(t) THEN SetActiveId(t, tok[t].id) ELSE UNCHANGED active_id
  /\ ConvertError(t)
  /\ UNCHANGED <<global_state, refcount, name_entry, last_id>>

\* The slot is reserved by another task, or still has users.
Contention(t) ==
  /\ pc[t] = "convert" /\ tok[t].id \in Ids
  /\ \/ ~ IdMatches(t) /\ active_id[tok[t].idx] = RESERVED
     \/ IdMatches(t) /\ tok[t].mode = "EXCLUSIVE" /\ refcount[tok[t].idx] # 0

\* A waiting EXCLUSIVE transaction keeps others out by the RESERVED id.
\* OS_WaitForStateChange releases the table.
ConvertWaits(t) ==
  /\ Contention(t) /\ tok[t].count + 1 < MaxAttempts
  /\ IF Overwrites(t) THEN SetActiveId(t, RESERVED) ELSE UNCHANGED active_id
  /\ tok' = [tok EXCEPT ![t].count = @ + 1, ![t].own = Overwrites(t)]
  /\ Unlock_Global
  /\ GoTo(t, "wait")
  /\ UNCHANGED <<global_state, refcount, name_entry, last_id>>

\* (mutant) giving up does not put the overwritten id back
ConvertGivesUp_NoRestore(t) ==
  /\ Contention(t) /\ tok[t].count + 1 >= MaxAttempts
  /\ ConvertError(t)
  /\ UNCHANGED <<global_state, table>>

\* Too many attempts: OS_ERR_OBJECT_IN_USE, an overwritten id is put back.
ConvertGivesUp(t) ==
  /\ Contention(t) /\ tok[t].count + 1 >= MaxAttempts
  /\ IF Overwrites(t) THEN SetActiveId(t, tok[t].id) ELSE UNCHANGED active_id
  /\ ConvertError(t)
  /\ UNCHANGED <<global_state, refcount, name_entry, last_id>>

\* OS_WaitForStateChange_Impl returns, by a broadcast or by its timeout,
\* with the table mutex held again.
Reacquire(t) ==
  /\ pc[t] = "wait" /\ HasLock
  /\ Lock_Global(t)
  /\ GoTo(t, "convert")
  /\ UNCHANGED <<global_state, table, tok>>

-----------------------------------------------------------------------------
(* Using the object and finishing the transaction.                         *)

\* OS_OBJECT_INIT, run by the creating API call after the table is unlocked.
ObjectInit(t) ==
  /\ pc[t] = "allocated"
  /\ name_entry' = [name_entry EXCEPT ![tok[t].idx] = tok[t].name]
  /\ GoTo(t, "building")
  /\ UNCHANGED <<global_state, active_id, refcount, last_id, mutex, tok>>

\* OS_xxxCreate_Impl has returned: OS_ObjectIdFinalizeNew.
FinalizeNew(t) ==
  /\ pc[t] = "building"
  /\ \E final \in {tok[t].id, UNDEFINED} : tok' = [tok EXCEPT ![t].final = final]
  /\ GoTo(t, "relock")
  /\ UNCHANGED <<global_state, table, mutex>>

\* The use of an existing object ends.  An EXCLUSIVE user has deleted it
\* (OS_ObjectIdFinalizeDelete, successful or not) or releases it.
EndUse(t) ==
  /\ pc[t] = "using"
  /\ IF tok[t].mode = "EXCLUSIVE"
     THEN \E final \in {tok[t].id, UNDEFINED} : tok' = [tok EXCEPT ![t].final = final]
     ELSE UNCHANGED tok
  /\ GoTo(t, IF KeepsTableLock(tok[t].mode) THEN "finish" ELSE "relock")
  /\ UNCHANGED <<global_state, table, mutex>>

\* OS_ObjectIdTransactionFinish takes the table lock again.
RelockTable(t) ==
  /\ pc[t] = "relock"
  /\ Lock_Global(t)
  /\ GoTo(t, "finish")
  /\ UNCHANGED <<global_state, table, tok>>

\* The rest of OS_ObjectIdTransactionFinish.
TransactionFinish(t) ==
  /\ pc[t] = "finish"
  /\ LET s == tok[t].idx IN
       /\ refcount' = [refcount EXCEPT ![s] = IF @ > 0 THEN @ - 1 ELSE @]
       /\ IF tok[t].final = KEEP THEN UNCHANGED active_id
          ELSE SetActiveId(t, tok[t].final)
  /\ Unlock_Global
  /\ Return(t)
  /\ UNCHANGED <<global_state, name_entry, last_id>>

-----------------------------------------------------------------------------
(* Iteration: the callback runs without the table lock.                    *)

IterateNext(t) ==
  /\ pc[t] = "iterate"
  /\ LET rest == {s \in Slots : s > tok[t].idx /\ active_id[s] \in Ids} IN
       IF rest = {}
       THEN Return(t)
       ELSE /\ tok' = [tok EXCEPT ![t].idx = FirstOf(rest),
                                  ![t].id = active_id[FirstOf(rest)]]
            /\ GoTo(t, "callback")
  /\ Unlock_Global
  /\ UNCHANGED <<global_state, table>>

IterateCallback(t) ==
  /\ pc[t] = "callback"
  /\ GoTo(t, "lock")
  /\ UNCHANGED <<global_state, table, mutex, tok>>

-----------------------------------------------------------------------------
(* The rest of the system.                                                 *)

\* OS_ApplicationShutdown(true).
ApplicationShutdown ==
  /\ global_state = "INIT"
  /\ global_state' = "SHUTDOWN"
  /\ UNCHANGED <<table, mutex, pc, tok>>

\* (mutant) no cleanup handler: a task deleted in its wait keeps the mutex
CancelTask_KeepsMutex(t) ==
  /\ t \in Cancellable
  /\ pc[t] = "wait" /\ Lock_Global(t)
  /\ GoTo(t, "cancelled")
  /\ UNCHANGED <<global_state, table, tok>>

\* OS_TaskDelete of task t takes effect at a cancellation point: in the wait
\* for the table (its cleanup handler hands the mutex back) or in code that
\* runs between two locked regions.
CancelTask(t) ==
  /\ t \in Cancellable
  /\ \/ pc[t] = "wait" /\ mutex = NoTask
     \/ pc[t] \in {"building", "callback"}
     \/ pc[t] = "using" /\ ~ KeepsTableLock(tok[t].mode)
  /\ GoTo(t, "cancelled")
  /\ UNCHANGED <<global_state, table, mutex, tok>>

\* The steps of task t inside an API call.
Step(t) ==
  \/ LockTable(t) \/ FindNextMatch(t) \/ CheckName(t)
  \/ ScanSlot(t) \/ ScanFails(t) \/ ClaimSlot(t)
  \/ NotifyAllocated(t) \/ NotifyRejected(t)
  \/ ConvertInvalid(t) \/ ConvertGranted(t) \/ ConvertMismatch(t)
  \/ ConvertWaits(t) \/ ConvertGivesUp(t) \/ Reacquire(t)
  \/ ObjectInit(t) \/ FinalizeNew(t) \/ EndUse(t)
  \/ RelockTable(t) \/ TransactionFinish(t)
  \/ IterateNext(t) \/ IterateCallback(t)

Begin(t) == AllocateNew(t) \/ GetById(t) \/ GetBySearch(t) \/ ForEachObject(t)

Next ==
  \/ \E t \in Tasks : Begin(t) \/ Step(t) \/ CancelTask(t)
  \/ ApplicationShutdown

Spec == Init /\ [][Next]_vars

\* Every task inside an API call keeps running: the scheduler runs each
\* thread that is not blocked, and timed waits end.
FairSpec == Spec /\ \A t \in Tasks : WF_vars(Step(t))
-----------------------------------------------------------------------------
(* Properties.                                                             *)

\* The types of the table and of the tasks' tokens; last_id_issued is always
\* a serial number that OS_ObjectIdCompose_Impl can encode.
TypeOK ==
  /\ global_state \in {"INIT", "SHUTDOWN"}
  /\ active_id \in [Slots -> Ids \cup {UNDEFINED, RESERVED}]
  /\ refcount \in [Slots -> Nat]
  /\ name_entry \in [Slots -> Names \cup {NoName}]
  /\ last_id \in Ids
  /\ mutex \in Tasks \cup {NoTask}
  /\ pc \in [Tasks -> PCs]
  /\ tok \in [Tasks -> Token]

\* Task t is between OS_Lock_Global and OS_Unlock_Global.
InTable(t) ==
  \/ pc[t] \in {"search", "scan", "claim", "notify", "convert", "finish", "iterate"}
  \/ pc[t] = "using" /\ KeepsTableLock(tok[t].mode)

Users(s) == {t \in Tasks : tok[t].held /\ tok[t].idx = s}

\* Task t is the reason that slot s shows the RESERVED id.
Reserves(t, s) ==
  /\ tok[t].idx = s /\ tok[t].mode = "EXCLUSIVE"
  /\ tok[t].held \/ tok[t].own

\* The record changes of OS_Lock_Global .. OS_Unlock_Global never overlap:
\* at most one task works on the table at a time.
TableOwnedByOne ==
  \A t, u \in Tasks : InTable(t) /\ InTable(u) => t = u

\* refcount is exactly the number of transactions between a successful
\* OS_ObjectIdConvertToken and its OS_ObjectIdTransactionFinish: no user is
\* lost or counted twice, whatever waits, gives up or fails in between.
RefcountExact ==
  \A s \in Slots : refcount[s] = Cardinality(Users(s))

\* A task that was granted EXCLUSIVE (a create or a delete in progress) is
\* the only user of the slot, except for a RESERVED-mode helper, which
\* looks at the object on the creator's behalf with the table locked.
ExclusiveAlone ==
  \A t, u \in Tasks :
    /\ t # u /\ tok[t].held /\ tok[u].held
    /\ tok[t].idx = tok[u].idx /\ tok[t].mode = "EXCLUSIVE"
    => tok[u].mode = "RESERVED"

\* A slot shows the RESERVED id exactly while one task is creating, deleting
\* or waiting to delete its object: no interleaving of waiting deletes that
\* give up leaves a slot reserved by nobody, which no call could ever free,
\* or by two tasks.
ReservationOwned ==
  \A s \in Slots :
    /\ active_id[s] = RESERVED => \E t \in Tasks : Reserves(t, s)
    /\ \A t \in Tasks : Reserves(t, s) => active_id[s] = RESERVED
    /\ \A t, u \in Tasks : Reserves(t, s) /\ Reserves(u, s) => t = u

\* The object a GLOBAL or REFCOUNT user looked up stays in its slot until
\* the user releases it: it is not freed, and the slot is not handed to
\* another object, though a waiting delete may already have reserved it.
HeldObjectStays ==
  \A t \in Tasks :
    tok[t].held =>
      CASE tok[t].mode = "REFCOUNT" -> active_id[tok[t].idx] \in {tok[t].id, RESERVED}
        [] tok[t].mode = "GLOBAL"   -> active_id[tok[t].idx] = tok[t].id
        [] OTHER                    -> active_id[tok[t].idx] = RESERVED

\* An id that OS_ObjectIdFindNextFree issued, also after the serial numbers
\* wrapped, is found again by OS_ObjectIdToArrayIndex: the object of a slot
\* has an id that maps to the slot (so two objects never share an id).
SlotOfId ==
  \A s \in Slots : active_id[s] \in Ids => active_id[s] % MaxId = s

\* OS_ERR_NO_FREE_IDS is returned only when every slot is taken: the search
\* misses no slot, wherever it starts and also when the serial number wraps.
NoFreeIdsMeansFull ==
  \A t \in Tasks :
    pc[t] = "scan" /\ tok[t].count = MaxId => \A s \in Slots : active_id[s] # UNDEFINED

\* An object's id is only ever taken out of its slot by way of RESERVED: it
\* never vanishes, and is never replaced by another id, in one step.
IdRetiredThroughReserved ==
  [][\A s \in Slots :
       active_id[s] \in Ids => active_id'[s] \in {active_id[s], RESERVED}]_vars

\* The tasks that create the object of a slot, have it for themselves, or
\* wait until they do.
Makers(s) ==
  {t \in Tasks : tok[t].op = "create" /\ tok[t].idx = s /\ pc[t] \notin {"scan", "claim"}}
Exclusives(s) == {t \in Tasks : tok[t].idx = s /\ tok[t].held /\ tok[t].mode = "EXCLUSIVE"}
Waiters(s) == {t \in Tasks : tok[t].idx = s /\ tok[t].own}

SomeOf(S) == CHOOSE t \in S : TRUE
Shown(s, st, id) == [st |-> st, id |-> id, users |-> refcount[s]]

\* What the table shows to its users.  A slot that is claimed under the table
\* lock is free until the lock is released; the RESERVED id hides the object
\* that a task creates, uses exclusively or waits for.
ObjectAt(s) ==
  CASE Makers(s) # {} ->
         IF \E t \in Makers(s) : tok[t].held
         THEN Shown(s, "new", tok[SomeOf(Makers(s))].id) ELSE Shown(s, "free", UNDEFINED)
    [] Makers(s) = {} /\ Exclusives(s) # {} ->
         Shown(s, "exclusive", tok[SomeOf(Exclusives(s))].id)
    [] Makers(s) = {} /\ Exclusives(s) = {} /\ Waiters(s) # {} ->
         Shown(s, "waiting", tok[SomeOf(Waiters(s))].id)
    [] OTHER ->
         Shown(s, IF active_id[s] = UNDEFINED THEN "free" ELSE "valid", active_id[s])

Objects == [s \in Slots |-> ObjectAt(s)]

\* The table keeps the promises of ObjTable, on which every object type of
\* OSAL relies: objects are created whole, used while they are valid, and
\* changed or deleted by one task when nobody else uses them.
Promise == INSTANCE ObjTable WITH obj <- Objects
ImplementsObjTable == Promise!SpecObj

\* When an API call has returned, it has given the table lock back.
\* ("NOTE: Upon failure, the global table lock is always released for all
\* lock modes other than OS_LOCK_MODE_NONE.", osapi-idmap.c)
LockReleasedOnReturn == \A t \in Tasks : pc[t] = "idle" => mutex # t

\* The table lock is always given back: no call keeps the other users of the
\* object type out for ever, not even when tasks are deleted under way.
TableLockReleased == \A t \in Tasks : mutex = t ~> mutex # t
=============================================================================
