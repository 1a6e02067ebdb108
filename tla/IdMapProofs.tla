---------------------------- MODULE IdMapProofs ----------------------------
(****************************************************************************)
(* The inductive invariant of module IdMapStepProofs holds throughout, and *)
(* what it says about the object ID table, for every instance of IdMap.    *)
(****************************************************************************)
EXTENDS IdMapStepProofs

USE ZenonT(60)

-----------------------------------------------------------------------------
(* The slot and the id of a token.                                         *)

\* Only the owner of the table writes its records.
LEMMA WriterOwns ==
  ASSUME HasLock, IInv, NEW t \in Tasks, Begin(t) \/ Step(t) \/ CancelTask(t)
  PROVE  Owns(pc[t], tok[t]) \/ UNCHANGED <<active_id, refcount>>
<1>1. Alone(t)
  BY Steps DEF IInv
<1>2. CASE ClaimSlot(t) \/ ConvertGranted(t) \/ ConvertWaits(t) \/ ConvertGivesUp(t)
           \/ TransactionFinish(t) \/ ConvertMismatch(t)
  BY <1>2 DEF Owns, ClaimSlot, ConvertGranted, ConvertWaits, ConvertGivesUp, Contention,
     TransactionFinish, ConvertMismatch
<1>3. CASE ~ \/ ClaimSlot(t) \/ ConvertGranted(t) \/ ConvertWaits(t)
             \/ ConvertGivesUp(t) \/ TransactionFinish(t) \/ ConvertMismatch(t)
  BY <1>1, <1>3, QuietActions DEF Step, IInv
<1>. QED
  BY <1>2, <1>3

LEMMA AuxStep ==
  ASSUME HasLock, IInv, NEW t \in Tasks, Begin(t) \/ Step(t) \/ CancelTask(t),
         LocalAt(pc'[t], tok'[t]),
         pc'[t] = "claim" => active_id'[tok'[t].idx] = UNDEFINED
  PROVE  AuxInv'
<1>1. Alone(t)
  BY Steps DEF IInv
<1>2. ASSUME NEW u \in Tasks \ {t}, pc[u] = "claim" PROVE UNCHANGED active_id
  BY <1>2, WriterOwns DEF IInv, LockInv, Owns
<1>. QED
  BY <1>1, <1>2 DEF IInv, AuxInv, Alone

\* A token that holds nothing and looks at nothing.
LEMMA LocalTrivial ==
  ASSUME NEW l, NEW k, ~ k.held, ~ k.own,
         l \notin {"claim", "notify", "convert", "wait", "lock", "finish"}
  PROVE  LocalAt(l, k)
  BY DEF LocalAt

LEMMA AuxNext ==
  ASSUME HasLock, IInv, [Next]_vars
  PROVE  AuxInv'
<1>. DEFINE Goal(t) == /\ LocalAt(pc'[t], tok'[t])
                       /\ pc'[t] = "claim" => active_id'[tok'[t].idx] = UNDEFINED
<1>. USE DEF table
<1>0. /\ pc \in [Tasks -> PCs] /\ tok \in [Tasks -> Token]
      /\ \A t \in Tasks : /\ tok[t] \in Token /\ TokenAt(pc[t], tok[t])
                          /\ LocalAt(pc[t], tok[t])
  BY DEF IInv, TypeInv, TypeOK, TokensOK, AuxInv
<1>1. ASSUME NEW t \in Tasks, Begin(t) PROVE Goal(t)
  <2>1. PICK k : /\ TransactionInit(t, k) /\ k.held = FALSE /\ k.own = FALSE
                 /\ k.op = "byid" => k.idx = k.id % MaxId
    BY <1>1, BeginToken
  <2>2. tok'[t] = k /\ pc'[t] = "lock"
    BY <1>0, <2>1 DEF TransactionInit, GoTo
  <2>. QED
    BY <2>1, <2>2 DEF LocalAt
<1>2. ASSUME NEW t \in Tasks, LockTable(t) PROVE Goal(t)
  BY <1>0, <1>2 DEF LockTable, GoTo, LocalAt, TokenAt
<1>3. ASSUME NEW t \in Tasks, Return(t) PROVE Goal(t)
  BY <1>0, <1>3 DEF Return, GoTo, NullToken, LocalAt
<1>4. ASSUME NEW t \in Tasks, FindNextMatch(t) PROVE Goal(t)
  <2>. DEFINE found == Matching(tok[t].name)
  <2>1. CASE found = {}
    BY <1>3, <1>4, <2>1 DEF FindNextMatch
  <2>2. CASE found # {}
    <3>1. FirstOf(found) \in Slots
      BY <2>2, FirstOfIn DEF Matching
    <3>2. /\ tok'[t].id = active_id[FirstOf(found)] /\ tok'[t].idx = FirstOf(found)
          /\ pc'[t] = "convert"
      BY <1>0, <1>4, <2>2, SMTT(30) DEF FindNextMatch, GoTo, Token
    <3>3. tok'[t].id \in Ids => tok'[t].idx = tok'[t].id % MaxId
      BY <3>1, <3>2 DEF IInv, HoldInv, SlotOfId
    <3>. QED
      BY <3>2, <3>3 DEF LocalAt
  <2>. QED
    BY <2>1, <2>2
<1>5. ASSUME NEW t \in Tasks, CheckName(t) PROVE Goal(t)
  <2>1. CASE tok[t].name # NoName /\ Matching(tok[t].name) # {}
    BY <1>3, <1>5, <2>1 DEF CheckName
  <2>2. CASE ~ (tok[t].name # NoName /\ Matching(tok[t].name) # {})
    <3>1. pc'[t] = "scan" /\ ~ tok'[t].held /\ ~ tok'[t].own
      BY SMTT(30), <1>0, <1>5, <2>2 DEF CheckName, GoTo, TokenAt, Token
    <3>. QED
      BY <3>1, LocalTrivial
  <2>. QED
    BY <2>1, <2>2
<1>6. ASSUME NEW t \in Tasks, ScanSlot(t) PROVE Goal(t)
  <2>1. tok[t].id \in Ids /\ ~ tok[t].held /\ ~ tok[t].own
    BY <1>0, <1>6 DEF ScanSlot, TokenAt
  <2>2. /\ tok'[t].id = NextSerial(tok[t].id) /\ tok'[t].idx = (tok[t].id + 1) % MaxId
        /\ ~ tok'[t].held /\ ~ tok'[t].own
        /\ pc'[t] = IF active_id[(tok[t].id + 1) % MaxId] = UNDEFINED
                    THEN "claim" ELSE "scan"
    BY <1>0, <1>6, <2>1 DEF ScanSlot, GoTo, Token
  <2>3. UNCHANGED active_id
    BY <1>6 DEF ScanSlot
  <2>. QED
    BY <2>1, <2>2, <2>3, NextSerialSlot DEF LocalAt
<1>7. ASSUME NEW t \in Tasks, ScanFails(t) PROVE Goal(t)
  BY <1>3, <1>7 DEF ScanFails
<1>8. ASSUME NEW t \in Tasks, ClaimSlot(t) PROVE Goal(t)
  BY <1>0, <1>8 DEF ClaimSlot, GoTo, LocalAt, Token
<1>9. ASSUME NEW t \in Tasks, NotifyAllocated(t) PROVE Goal(t)
  BY <1>0, <1>9 DEF NotifyAllocated, GoTo, LocalAt
<1>10. ASSUME NEW t \in Tasks, NotifyRejected(t) PROVE Goal(t)
  BY <1>0, <1>10 DEF NotifyRejected, GoTo, LocalAt, Token
<1>11. ASSUME NEW t \in Tasks, pc[t] = "convert", ConvertError(t) PROVE Goal(t)
  <2>1. CASE tok[t].op = "create"
    BY <1>0, <1>11, <2>1, SMTT(30) DEF ConvertError, GoTo, LocalAt, Token
  <2>2. CASE tok[t].op # "create"
    BY <1>3, <1>11, <2>2 DEF ConvertError
  <2>. QED
    BY <2>1, <2>2
<1>12. ASSUME NEW t \in Tasks,
              ConvertInvalid(t) \/ ConvertMismatch(t) \/ ConvertGivesUp(t)
       PROVE  Goal(t)
  BY <1>11, <1>12 DEF ConvertInvalid, ConvertMismatch, ConvertGivesUp, Contention
<1>13. ASSUME NEW t \in Tasks, ConvertGranted(t) PROVE Goal(t)
  BY <1>0, <1>13 DEF ConvertGranted, GoTo, LocalAt, Token
<1>14. ASSUME NEW t \in Tasks, ConvertWaits(t) PROVE Goal(t)
  BY <1>0, <1>14 DEF ConvertWaits, Contention, GoTo, LocalAt, Token
<1>15. ASSUME NEW t \in Tasks, Reacquire(t) PROVE Goal(t)
  BY <1>0, <1>15 DEF Reacquire, GoTo, LocalAt
<1>16. ASSUME NEW t \in Tasks, ObjectInit(t) \/ FinalizeNew(t) PROVE Goal(t)
  BY <1>0, <1>16, SMTT(30) DEF ObjectInit, FinalizeNew, GoTo, LocalAt, Token
<1>17. ASSUME NEW t \in Tasks, EndUse(t) PROVE Goal(t)
  <2>1. tok[t].held
    BY <1>0, <1>17 DEF EndUse, TokenAt
  <2>2. /\ tok'[t].held = tok[t].held /\ tok'[t].id = tok[t].id /\ tok'[t].idx = tok[t].idx
        /\ pc'[t] \in {"relock", "finish"}
    BY <1>0, <1>17 DEF EndUse, GoTo, Token
  <2>. QED
    BY <1>0, <2>1, <2>2 DEF LocalAt
<1>18. ASSUME NEW t \in Tasks, RelockTable(t) PROVE Goal(t)
  <2>1. tok[t].held
    BY <1>18, TasksAssumption DEF RelockTable, Lock_Global, IInv, LockInv, Owns
  <2>. QED
    BY <1>0, <1>18, <2>1 DEF RelockTable, GoTo, LocalAt
<1>19. ASSUME NEW t \in Tasks, TransactionFinish(t) PROVE Goal(t)
  BY <1>3, <1>19 DEF TransactionFinish
<1>20. ASSUME NEW t \in Tasks, IterateNext(t) PROVE Goal(t)
  <2>. DEFINE rest == {s \in Slots : s > tok[t].idx /\ active_id[s] \in Ids}
  <2>1. CASE rest = {}
    BY <1>3, <1>20, <2>1 DEF IterateNext
  <2>2. CASE rest # {}
    <3>1. pc'[t] = "callback" /\ ~ tok'[t].held /\ ~ tok'[t].own
      BY SMTT(30), <1>0, <1>20, <2>2 DEF IterateNext, GoTo, TokenAt, Token
    <3>. QED
      BY <3>1, LocalTrivial
  <2>. QED
    BY <2>1, <2>2
<1>21. ASSUME NEW t \in Tasks, IterateCallback(t) PROVE Goal(t)
  BY <1>0, <1>21 DEF IterateCallback, GoTo, LocalAt, TokenAt
<1>22. ASSUME NEW t \in Tasks, CancelTask(t) PROVE Goal(t)
  BY <1>0, <1>22 DEF CancelTask, GoTo, LocalAt
<1>23. ASSUME NEW t \in Tasks, Begin(t) \/ Step(t) \/ CancelTask(t) PROVE AuxInv'
  <2>1. Goal(t)
    BY <1>1, <1>2, <1>4, <1>5, <1>6, <1>7, <1>8, <1>9, <1>10, <1>12, <1>13,
       <1>14, <1>15, <1>16, <1>17, <1>18, <1>19, <1>20, <1>21, <1>22, <1>23
    DEF Step
  <2>. QED
    BY <1>23, <2>1, AuxStep
<1>24. CASE ApplicationShutdown \/ UNCHANGED vars
  BY <1>24 DEF ApplicationShutdown, vars, IInv, AuxInv
<1>. QED
  BY <1>23, <1>24 DEF Next

LEMMA IInvNext ==
  ASSUME HasLock, IInv, [Next]_vars
  PROVE  IInv'
  BY TypeInvNext, LockInvNext, HoldNext, AuxNext DEF IInv

\* The invariant behind the results below.
LEMMA IInvHolds ==
  ASSUME HasLock
  PROVE  Spec => []IInv
<1>1. Init => IInv
  BY TypeInvInit, LockInvInit, HoldInit DEF IInv
<1>. QED
  BY <1>1, IInvNext, PTL DEF Spec

\* refcount counts the granted transactions of a slot exactly, whatever
\* waits, gives up, fails or is cancelled in OS_ObjectIdConvertToken.
THEOREM RefcountsAreExact ==
  ASSUME HasLock
  PROVE  Spec => []RefcountExact
<1>1. IInv => RefcountExact
  BY DEF IInv
<1>. QED
  BY <1>1, IInvHolds, PTL

\* A slot shows the RESERVED id exactly while one task reserves it.
THEOREM ReservationsAreOwned ==
  ASSUME HasLock
  PROVE  Spec => []ReservationOwned
<1>1. IInv => ReservationOwned
  BY DEF IInv, HoldInv
<1>. QED
  BY <1>1, IInvHolds, PTL

\* A create or a delete in progress has the object to itself, and an object
\* that a transaction holds is neither freed nor replaced.
THEOREM HeldObjectsAreSafe ==
  ASSUME HasLock
  PROVE  Spec => [](ExclusiveAlone /\ HeldObjectStays)
<1>1. IInv => ExclusiveAlone /\ HeldObjectStays
  BY DEF IInv, HoldInv
<1>. QED
  BY <1>1, IInvHolds, PTL

\* The id of an object leads to its slot, for every OS_MAX_xxx and every
\* OS_OBJECT_INDEX_MASK, also after the serial numbers wrapped.
THEOREM IdsLeadToSlots ==
  ASSUME HasLock
  PROVE  Spec => []SlotOfId
<1>1. IInv => SlotOfId
  BY DEF IInv, HoldInv
<1>. QED
  BY <1>1, IInvHolds, PTL

\* Whoever changes the record of a slot that shows an id reserves the slot.
LEMMA RetireStep ==
  ASSUME HasLock, IInv, NEW t \in Tasks, Begin(t) \/ Step(t) \/ CancelTask(t),
         NEW s \in Slots, active_id[s] \in Ids
  PROVE  active_id'[s] \in {active_id[s], RESERVED}
<1>0. /\ Alone(t) /\ TokenAt(pc[t], tok[t])
      /\ active_id \in [Slots -> Ids \cup {UNDEFINED, RESERVED}]
  BY Steps DEF IInv, TypeInv, TypeOK, TokensOK
<1>1. CASE ClaimSlot(t)
  <2>1. active_id[tok[t].idx] = UNDEFINED
    BY <1>1 DEF IInv, AuxInv, ClaimSlot
  <2>. QED
    BY <1>0, <1>1, <2>1, NotAnId DEF ClaimSlot
<1>2. CASE ConvertGranted(t)
  BY <1>0, <1>2 DEF ConvertGranted, SetActiveId
<1>3. CASE ConvertWaits(t)
  BY <1>0, <1>3 DEF ConvertWaits, SetActiveId
<1>4. CASE ConvertMismatch(t)
  BY <1>0, <1>4, MismatchStep
<1>5. CASE ConvertGivesUp(t)
  <2>1. CASE tok[t].own
    <3>1. Reserves(t, tok[t].idx) /\ tok[t].idx \in Slots
      BY <1>0, <2>1 DEF TokenAt, Reserves
    <3>2. active_id[tok[t].idx] = RESERVED
      BY <3>1 DEF IInv, HoldInv, ReservationOwned
    <3>. QED
      BY <1>0, <1>5, <3>2, NotAnId DEF ConvertGivesUp, SetActiveId
  <2>2. CASE ~ tok[t].own
    BY <1>0, <1>5, <2>2
    DEF ConvertGivesUp, Overwrites, IdMatches, ExpectedId, SetActiveId
  <2>. QED
    BY <2>1, <2>2
<1>6. CASE TransactionFinish(t)
  <2>1. CASE tok[t].final = KEEP
    BY <1>6, <2>1 DEF TransactionFinish
  <2>2. CASE tok[t].final # KEEP
    <3>1. tok[t].held /\ tok[t].idx \in Slots /\ tok[t].mode = "EXCLUSIVE"
      BY <1>0, <1>6, <2>2 DEF TransactionFinish, TokenAt, IInv, AuxInv, LocalAt
    <3>2. Reserves(t, tok[t].idx)
      BY <3>1 DEF Reserves
    <3>3. active_id[tok[t].idx] = RESERVED
      BY <3>1, <3>2 DEF IInv, HoldInv, ReservationOwned
    <3>. QED
      BY <1>0, <1>6, <3>3, NotAnId DEF TransactionFinish, SetActiveId
  <2>. QED
    BY <2>1, <2>2
<1>7. CASE ~ \/ ClaimSlot(t) \/ ConvertGranted(t) \/ ConvertWaits(t)
             \/ ConvertGivesUp(t) \/ TransactionFinish(t) \/ ConvertMismatch(t)
  BY <1>0, <1>7, QuietActions DEF Step, IInv
<1>. QED
  BY <1>1, <1>2, <1>3, <1>4, <1>5, <1>6, <1>7

\* No step takes an object's id out of its slot except by way of RESERVED.
THEOREM IdsRetireThroughReserved ==
  ASSUME HasLock
  PROVE  Spec => IdRetiredThroughReserved
<1>. DEFINE Kind == \A s \in Slots :
       active_id[s] \in Ids => active_id'[s] \in {active_id[s], RESERVED}
<1>1. IInv /\ [Next]_vars => [Kind]_vars
  <2>1. ASSUME IInv, ApplicationShutdown PROVE Kind
    BY <2>1 DEF ApplicationShutdown, table
  <2>2. ASSUME IInv, NEW t \in Tasks, Begin(t) \/ Step(t) \/ CancelTask(t) PROVE Kind
    BY <2>2, RetireStep
  <2>. QED
    BY <2>1, <2>2 DEF Next
<1>. QED
  BY <1>1, IInvHolds, PTL DEF Spec, IdRetiredThroughReserved

-----------------------------------------------------------------------------
(* The creation of an object.                                              *)

\* The division of a number is unique, and the rest of the next number.
LEMMA DivisionUnique ==
  ASSUME NEW b \in Nat \ {0}, NEW d \in Int, NEW e \in Int,
         NEW p \in 0 .. (b - 1), NEW q \in 0 .. (b - 1), b * d + p = b * e + q
  PROVE  p = q
<1>1. b * (d - e) = q - p
  BY SMTT(30)
<1>2. ASSUME NEW k \in Int, b * k < b, -b < b * k PROVE k = 0
  BY <1>2, SMTT(30)
<1>3. d - e = 0
  BY <1>1, <1>2, SMTT(30)
<1>. QED
  BY <1>1, <1>3, SMTT(30)

LEMMA ModNext ==
  ASSUME NEW a \in Nat, NEW b \in Nat \ {0}
  PROVE  (a + 1) % b = IF (a % b) + 1 = b THEN 0 ELSE (a % b) + 1
<1>1. PICK d \in Int, p \in 0 .. (b - 1) : a = b * d + p /\ p = a % b
  BY SMTT(30)
<1>2. PICK e \in Int, q \in 0 .. (b - 1) : a + 1 = b * e + q /\ q = (a + 1) % b
  BY SMTT(30)
<1>3. CASE p + 1 = b
  <2>1. b * (d + 1) + 0 = b * e + q
    BY <1>1, <1>2, <1>3, SMTT(30)
  <2>2. 0 = q
    BY <2>1, DivisionUnique, SMTT(30)
  <2>. QED
    BY <1>1, <1>2, <1>3, <2>2
<1>4. CASE p + 1 # b
  <2>1. b * d + (p + 1) = b * e + q
    BY <1>1, <1>2, <1>4, SMTT(30)
  <2>2. p + 1 = q
    BY <1>4, <2>1, DivisionUnique, SMTT(30)
  <2>. QED
    BY <1>1, <1>2, <1>4, <2>2
<1>. QED
  BY <1>3, <1>4

\* How many rounds ago the search that has reached slot p was at slot s.
Rounds(p, s) == IF s <= p THEN p - s ELSE p - s + MaxId

\* The slots that the search of OS_ObjectIdFindNextFree has passed are taken.
Passed(t) ==
  /\ tok[t].count <= MaxId
  /\ \A s \in Slots :
       Rounds(tok[t].id % MaxId, s) < tok[t].count => active_id[s] # UNDEFINED

\* A creating call has no slot before its search has found one; from then on
\* the slot shows its id and nobody uses it, until the call holds it.
CreateOf(t) ==
  /\ pc[t] = "idle" => tok[t].op = "none"
  /\ tok[t].op = "create" =>
       /\ pc[t] \in {"lock", "search"} => tok[t].idx = -1 /\ tok[t].count = 0
       /\ \/ tok[t].held
          \/ pc[t] \in {"lock", "search", "scan", "claim", "notify", "convert", "relock"}
       /\ ~ tok[t].held /\ pc[t] \in {"notify", "convert", "relock"} =>
            /\ ~ tok[t].own /\ tok[t].id \in Ids /\ active_id[tok[t].idx] = tok[t].id
            /\ refcount[tok[t].idx] = 0
  /\ pc[t] = "scan" => Passed(t)

CreateInv == \A t \in Tasks : CreateOf(t)

LEMMA CreateFrame ==
  ASSUME HasLock, IInv, CreateInv, NEW t \in Tasks,
         Begin(t) \/ Step(t) \/ CancelTask(t), CreateOf(t)'
  PROVE  CreateInv'
<1>1. ASSUME NEW u \in Tasks \ {t} PROVE CreateOf(u)'
  <2>1. pc'[u] = pc[u] /\ tok'[u] = tok[u] /\ CreateOf(u)
    BY Steps DEF IInv, Alone, CreateInv
  <2>2. CASE Owns(pc[u], tok[u])
    <3>1. ~ Owns(pc[t], tok[t])
      BY <2>2 DEF IInv, LockInv
    <3>2. UNCHANGED <<active_id, refcount>>
      BY <3>1, WriterOwns
    <3>. QED
      BY <2>1, <3>2 DEF CreateOf, Passed
  <2>3. CASE ~ Owns(pc[u], tok[u])
    BY <2>1, <2>3 DEF CreateOf, Owns
  <2>. QED
    BY <2>2, <2>3
<1>. QED
  BY <1>1 DEF CreateInv

\* OS_ObjectIdConvertToken grants a creating call its slot at once.
LEMMA CreateGranted ==
  ASSUME IInv, CreateInv, NEW t \in Tasks, pc[t] = "convert", tok[t].op = "create"
  PROVE  /\ ~ tok[t].held /\ tok[t].id \in Ids /\ IdMatches(t)
         /\ active_id[tok[t].idx] = tok[t].id /\ refcount[tok[t].idx] = 0
         /\ ~ ConvertInvalid(t) /\ ~ ConvertMismatch(t) /\ ~ Contention(t)
<1>1. TokenAt(pc[t], tok[t]) /\ CreateOf(t)
  BY DEF IInv, TypeInv, TokensOK, CreateInv
<1>2. ~ tok[t].held /\ tok[t].mode = "EXCLUSIVE"
  BY <1>1 DEF TokenAt
<1>3. /\ ~ tok[t].own /\ tok[t].id \in Ids /\ active_id[tok[t].idx] = tok[t].id
      /\ refcount[tok[t].idx] = 0
  BY <1>1, <1>2 DEF CreateOf
<1>4. IdMatches(t)
  BY <1>2, <1>3 DEF IdMatches, ExpectedId
<1>. QED
  BY <1>2, <1>3, <1>4 DEF ConvertInvalid, ConvertMismatch, Contention

LEMMA ScanPasses ==
  ASSUME IInv, NEW t \in Tasks, Passed(t), ScanSlot(t)
  PROVE  pc'[t] = "scan" => Passed(t)'
<1>0. /\ tok[t] \in Token /\ tok \in [Tasks -> Token] /\ pc \in [Tasks -> PCs]
      /\ tok[t].id \in Ids
  BY DEF IInv, TypeInv, TypeOK, TokensOK, TokenAt, ScanSlot
<1>1. tok[t].id \in Nat /\ MaxId \in Nat \ {0} /\ tok[t].count \in Nat
  BY <1>0, SizeAssumption, SMTT(30) DEF Token, Ids
<1>2. PICK p \in Slots : p = tok[t].id % MaxId
  BY <1>0, SlotOfSerial
<1>3. PICK q \in Slots : /\ q = (tok[t].id + 1) % MaxId
                         /\ q = NextSerial(tok[t].id) % MaxId
  BY <1>0, NextSerialSlot
<1>4. q = IF p + 1 = MaxId THEN 0 ELSE p + 1
  BY <1>1, <1>2, <1>3, ModNext
<1>5. /\ tok'[t].id = NextSerial(tok[t].id) /\ tok'[t].count = tok[t].count + 1
      /\ active_id' = active_id /\ tok[t].count < MaxId
      /\ pc'[t] = "scan" => active_id[q] # UNDEFINED
  BY <1>0, <1>3 DEF ScanSlot, GoTo, Token, table
<1>6. ASSUME NEW s \in Slots, Rounds(q, s) < tok[t].count + 1, s # q
      PROVE  active_id[s] # UNDEFINED
  <2>1. Rounds(p, s) < tok[t].count
    BY <1>1, <1>4, <1>6, SizeAssumption, SMTT(30) DEF Rounds, Slots
  <2>. QED
    BY <1>2, <2>1 DEF Passed
<1>7. tok[t].count + 1 <= MaxId
  BY <1>1, <1>5, SMTT(30)
<1>. QED
  BY <1>3, <1>5, <1>6, <1>7 DEF Passed

LEMMA CreateNext == ASSUME HasLock, IInv, CreateInv, [Next]_vars PROVE CreateInv'
<1>. USE DEF table
<1>0. /\ pc \in [Tasks -> PCs] /\ tok \in [Tasks -> Token]
      /\ \A t \in Tasks : /\ tok[t] \in Token /\ TokenAt(pc[t], tok[t])
                          /\ CreateOf(t)
  BY DEF IInv, TypeInv, TypeOK, TokensOK, CreateInv
<1>1. ASSUME NEW t \in Tasks, Begin(t) PROVE CreateOf(t)'
  <2>1. PICK k : /\ TransactionInit(t, k)
                 /\ k.op = "create" => k.idx = -1 /\ k.count = 0
    BY <1>1, BeginToken
  <2>2. tok'[t] = k /\ pc'[t] = "lock"
    BY <1>0, <2>1 DEF TransactionInit, GoTo
  <2>. QED
    BY <2>1, <2>2 DEF CreateOf
<1>2. ASSUME NEW t \in Tasks, Return(t) PROVE CreateOf(t)'
  BY <1>0, <1>2 DEF Return, GoTo, NullToken, CreateOf
<1>3. ASSUME NEW t \in Tasks, tok'[t].op # "create", pc'[t] \notin {"idle", "scan"}
      PROVE  CreateOf(t)'
  BY <1>3 DEF CreateOf
<1>4. ASSUME NEW t \in Tasks, LockTable(t) PROVE CreateOf(t)'
  BY <1>0, <1>4 DEF LockTable, GoTo, CreateOf
<1>5. ASSUME NEW t \in Tasks, FindNextMatch(t) PROVE CreateOf(t)'
  <2>1. Return(t) \/ (tok'[t].op = "search" /\ pc'[t] = "convert")
    BY <1>0, <1>5, SMTT(30) DEF FindNextMatch, GoTo, Token
  <2>. QED
    BY <1>2, <1>3, <2>1
<1>6. ASSUME NEW t \in Tasks, CheckName(t) PROVE CreateOf(t)'
  <2>1. CASE tok[t].name # NoName /\ Matching(tok[t].name) # {}
    BY <1>2, <1>6, <2>1 DEF CheckName
  <2>2. CASE ~ (tok[t].name # NoName /\ Matching(tok[t].name) # {})
    <3>1. tok[t].count = 0 /\ tok[t].op = "create"
      BY <1>0, <1>6 DEF CheckName, CreateOf
    <3>2. /\ pc'[t] = "scan" /\ tok'[t].id = last_id /\ tok'[t].count = 0
          /\ tok'[t].op = "create"
      BY <1>0, <1>6, <2>2, <3>1, SMTT(30) DEF CheckName, GoTo, Token
    <3>3. last_id % MaxId \in Slots
      BY SlotOfSerial DEF IInv, TypeInv, TypeOK
    <3>4. Passed(t)'
      <4>1. PICK p \in Slots : p = last_id % MaxId
        BY <3>3
      <4>2. \A s \in Slots : ~ (Rounds(p, s) < 0)
        BY SizeAssumption, SMTT(30) DEF Rounds, Slots
      <4>. QED
        BY <3>2, <4>1, <4>2, SizeAssumption, SMTT(30) DEF Passed
    <3>. QED
      BY <3>2, <3>4 DEF CreateOf
  <2>. QED
    BY <2>1, <2>2
<1>7. ASSUME NEW t \in Tasks, ScanSlot(t) PROVE CreateOf(t)'
  <2>1. Passed(t)
    BY <1>0, <1>7 DEF ScanSlot, CreateOf
  <2>2. pc'[t] \in {"scan", "claim"}
    BY <1>0, <1>7 DEF ScanSlot, GoTo
  <2>. QED
    BY <1>7, <2>1, <2>2, ScanPasses DEF CreateOf
<1>8. ASSUME NEW t \in Tasks, ScanFails(t) \/ TransactionFinish(t) PROVE CreateOf(t)'
  BY <1>2, <1>8 DEF ScanFails, TransactionFinish
<1>9. ASSUME NEW t \in Tasks, ClaimSlot(t) PROVE CreateOf(t)'
  <2>1. tok[t].id \in Ids /\ tok[t].idx \in Slots /\ ~ tok[t].held /\ ~ tok[t].own
    BY <1>0, <1>9 DEF ClaimSlot, TokenAt
  <2>2. /\ tok'[t].id = tok[t].id /\ tok'[t].idx = tok[t].idx
        /\ ~ tok'[t].own /\ pc'[t] = "notify"
    BY <1>0, <1>9, <2>1 DEF ClaimSlot, GoTo, Token
  <2>3. active_id'[tok[t].idx] = tok[t].id /\ refcount'[tok[t].idx] = 0
    BY <1>9, <2>1 DEF ClaimSlot, IInv, TypeInv, TypeOK
  <2>. QED
    BY <2>1, <2>2, <2>3 DEF CreateOf
<1>10. ASSUME NEW t \in Tasks, NotifyAllocated(t) PROVE CreateOf(t)'
  BY <1>0, <1>10 DEF NotifyAllocated, GoTo, CreateOf
<1>11. ASSUME NEW t \in Tasks, NotifyRejected(t) PROVE CreateOf(t)'
  <2>1. /\ pc'[t] = "relock" /\ tok'[t].id = tok[t].id /\ tok'[t].idx = tok[t].idx
        /\ tok'[t].held = tok[t].held /\ tok'[t].own = tok[t].own
        /\ tok'[t].op = tok[t].op
    BY <1>0, <1>11 DEF NotifyRejected, GoTo, Token
  <2>. QED
    BY <1>0, <1>11, <2>1 DEF NotifyRejected, CreateOf
<1>12. ASSUME NEW t \in Tasks,
              ConvertInvalid(t) \/ ConvertMismatch(t) \/ ConvertGivesUp(t)
       PROVE  CreateOf(t)'
  <2>1. pc[t] = "convert" /\ ConvertError(t)
    BY <1>12 DEF ConvertInvalid, ConvertMismatch, ConvertGivesUp, Contention
  <2>2. tok[t].op # "create"
    BY <1>12, <2>1, CreateGranted DEF ConvertGivesUp
  <2>3. Return(t)
    BY <2>1, <2>2 DEF ConvertError
  <2>. QED
    BY <1>2, <2>3
<1>13. ASSUME NEW t \in Tasks, ConvertGranted(t) PROVE CreateOf(t)'
  <2>1. tok'[t].held /\ pc'[t] \in {"allocated", "using"}
    BY <1>0, <1>13 DEF ConvertGranted, GoTo, Token
  <2>. QED
    BY <2>1 DEF CreateOf
<1>14. ASSUME NEW t \in Tasks, ConvertWaits(t) PROVE CreateOf(t)'
  <2>1. tok[t].op # "create"
    BY <1>14, CreateGranted DEF ConvertWaits, Contention
  <2>2. tok'[t].op = tok[t].op /\ pc'[t] = "wait"
    BY <1>0, <1>14 DEF ConvertWaits, GoTo, Token
  <2>. QED
    BY <1>3, <2>1, <2>2
<1>15. ASSUME NEW t \in Tasks, Reacquire(t) PROVE CreateOf(t)'
  <2>1. tok[t].op # "create"
    BY <1>0, <1>15 DEF Reacquire, CreateOf, TokenAt
  <2>2. tok'[t].op = tok[t].op /\ pc'[t] = "convert"
    BY <1>0, <1>15 DEF Reacquire, GoTo
  <2>. QED
    BY <1>3, <2>1, <2>2
<1>16. ASSUME NEW t \in Tasks, ObjectInit(t) \/ FinalizeNew(t) \/ EndUse(t)
       PROVE  CreateOf(t)'
  <2>1. tok[t].held
    BY <1>0, <1>16 DEF ObjectInit, FinalizeNew, EndUse, TokenAt
  <2>2. tok'[t].held /\ pc'[t] \in {"building", "relock", "finish"}
    BY <1>0, <1>16, <2>1, SMTT(30)
    DEF ObjectInit, FinalizeNew, EndUse, GoTo, Token
  <2>. QED
    BY <2>2 DEF CreateOf
<1>17. ASSUME NEW t \in Tasks, RelockTable(t) PROVE CreateOf(t)'
  <2>1. tok[t].held
    BY <1>17, TasksAssumption DEF RelockTable, Lock_Global, IInv, LockInv, Owns
  <2>2. tok'[t].held /\ pc'[t] = "finish"
    BY <1>0, <1>17, <2>1 DEF RelockTable, GoTo
  <2>. QED
    BY <2>2 DEF CreateOf
<1>18. ASSUME NEW t \in Tasks, IterateNext(t) PROVE CreateOf(t)'
  <2>1. tok[t].op = "foreach"
    BY <1>0, <1>18 DEF IterateNext, TokenAt
  <2>2. Return(t) \/ (tok'[t].op = "foreach" /\ pc'[t] = "callback")
    BY <1>0, <1>18, <2>1, SMTT(30) DEF IterateNext, GoTo, Token
  <2>. QED
    BY <1>2, <1>3, <2>2
<1>19. ASSUME NEW t \in Tasks, IterateCallback(t) PROVE CreateOf(t)'
  BY <1>0, <1>3, <1>19 DEF IterateCallback, GoTo, TokenAt
<1>20. ASSUME NEW t \in Tasks, CancelTask(t) PROVE CreateOf(t)'
  <2>1. tok[t].op = "create" => tok[t].held
    BY <1>0, <1>20 DEF CancelTask, CreateOf, TokenAt
  <2>2. tok'[t] = tok[t] /\ pc'[t] = "cancelled"
    BY <1>0, <1>20 DEF CancelTask, GoTo
  <2>. QED
    BY <2>1, <2>2 DEF CreateOf
<1>21. ASSUME NEW t \in Tasks, Begin(t) \/ Step(t) \/ CancelTask(t) PROVE CreateInv'
  <2>1. CreateOf(t)'
    BY <1>1, <1>4, <1>5, <1>6, <1>7, <1>8, <1>9, <1>10, <1>11, <1>12, <1>13,
       <1>14, <1>15, <1>16, <1>17, <1>18, <1>19, <1>20, <1>21
    DEF Step
  <2>. QED
    BY <1>21, <2>1, CreateFrame
<1>22. CASE ApplicationShutdown \/ UNCHANGED vars
  BY <1>22 DEF ApplicationShutdown, vars, CreateInv, CreateOf, Passed
<1>. QED
  BY <1>21, <1>22 DEF Next

LEMMA CreateInvHolds == ASSUME HasLock PROVE Spec => [](IInv /\ CreateInv)
<1>1. Init => IInv /\ CreateInv
  <2>1. Init => CreateInv
    BY SMTT(30) DEF Init, CreateInv, CreateOf, NullToken
  <2>. QED
    BY <2>1, TypeInvInit, LockInvInit, HoldInit DEF IInv
<1>. QED
  BY <1>1, IInvNext, CreateNext, PTL DEF Spec

\* OS_ObjectIdFindNextFree reports that there is no free id only when every
\* slot is taken, for every OS_MAX_xxx, and also when the serial number wraps
\* in the middle of the search.
THEOREM NoFreeIdsMeansFullHolds ==
  ASSUME HasLock
  PROVE  Spec => []NoFreeIdsMeansFull
<1>1. IInv /\ CreateInv => NoFreeIdsMeansFull
  <2>. SUFFICES ASSUME IInv, CreateInv, NEW t \in Tasks, pc[t] = "scan",
                       tok[t].count = MaxId, NEW s \in Slots
                PROVE  active_id[s] # UNDEFINED
    BY DEF NoFreeIdsMeansFull
  <2>1. Passed(t)
    BY DEF CreateInv, CreateOf
  <2>2. PICK p \in Slots : p = tok[t].id % MaxId
    BY SlotOfSerial DEF IInv, TypeInv, TokensOK, TokenAt
  <2>3. Rounds(p, s) < MaxId
    BY SizeAssumption, SMTT(30) DEF Rounds, Slots
  <2>. QED
    BY <2>1, <2>2, <2>3 DEF Passed
<1>. QED
  BY <1>1, CreateInvHolds, PTL

-----------------------------------------------------------------------------
(* The table implements ObjTable: what a slot shows.                       *)

LEMMA SomeOfOne == ASSUME NEW t PROVE SomeOf({t}) = t
  BY DEF SomeOf

LEMMA SlotFacts ==
  /\ MaxId \in Nat \ {0} /\ Slots \subseteq Nat /\ -1 \notin Slots
  /\ UNDEFINED = -1 /\ Promise!NONE = -1 /\ Promise!Slots = Slots
  BY SizeAssumption, SMTT(30) DEF Slots, UNDEFINED, Promise!NONE, Promise!Slots

\* The state of the object that task t reserves.
StateOf(t) ==
  IF tok[t].op = "create" THEN "new" ELSE IF tok[t].held THEN "exclusive" ELSE "waiting"

\* What slot s shows when task t reserves it, or has claimed it, or neither.
ReservedView(t, s) ==
  Reserves(t, s) => ObjectAt(s) = Shown(s, StateOf(t), tok[t].id) /\ active_id[s] = RESERVED

ClaimedView(t, s) ==
  t \in Makers(s) /\ ~ tok[t].held =>
    /\ ObjectAt(s) = Shown(s, "free", UNDEFINED) /\ refcount[s] = 0
    /\ Owns(pc[t], tok[t]) /\ active_id[s] = tok[t].id /\ tok[t].id \in Ids

PlainView(s) ==
  active_id[s] # RESERVED /\ (\A t \in Makers(s) : tok[t].held) =>
    /\ Makers(s) = {}
    /\ ObjectAt(s) = Shown(s, IF active_id[s] = UNDEFINED THEN "free" ELSE "valid",
                           active_id[s])

Views == \A s \in Slots : PlainView(s) /\ \A t \in Tasks : ReservedView(t, s) /\ ClaimedView(t, s)

LEMMA MakersOfSlot ==
  ASSUME IInv, CreateInv, NEW t \in Tasks, NEW s \in Slots, t \in Makers(s)
  PROVE  /\ tok[t].held => Reserves(t, s) /\ active_id[s] = RESERVED
         /\ ~ tok[t].held =>
              /\ Owns(pc[t], tok[t]) /\ active_id[s] = tok[t].id
              /\ tok[t].id \in Ids /\ refcount[s] = 0 /\ active_id[s] # RESERVED
<1>1. /\ TokenAt(pc[t], tok[t]) /\ CreateOf(t) /\ tok[t].op = "create" /\ tok[t].idx = s
      /\ pc[t] \notin {"scan", "claim"}
  BY DEF IInv, TypeInv, TokensOK, CreateInv, Makers
<1>2. CASE tok[t].held
  <2>1. Reserves(t, s)
    BY <1>1, <1>2 DEF TokenAt, Reserves
  <2>. QED
    BY <1>2, <2>1 DEF IInv, HoldInv, ReservationOwned
<1>3. CASE ~ tok[t].held
  <2>1. pc[t] \in {"notify", "convert", "relock"}
    BY <1>1, <1>3, SlotFacts DEF CreateOf
  <2>. QED
    BY <1>1, <1>3, <2>1, NotAnId DEF CreateOf, Owns
<1>. QED
  BY <1>2, <1>3

\* At most one task creates the object of a slot.
LEMMA OneMaker ==
  ASSUME IInv, CreateInv, NEW t \in Tasks, NEW s \in Slots, t \in Makers(s)
  PROVE  Makers(s) = {t}
<1>1. ASSUME NEW u \in Tasks, u \in Makers(s) PROVE u = t
  <2>1. CASE tok[t].held
    <3>1. Reserves(t, s) /\ Reserves(u, s)
      BY <1>1, <2>1, MakersOfSlot
    <3>. QED
      BY <3>1 DEF IInv, HoldInv, ReservationOwned
  <2>2. CASE ~ tok[t].held
    <3>1. Owns(pc[t], tok[t]) /\ Owns(pc[u], tok[u])
      BY <1>1, <2>2, MakersOfSlot
    <3>. QED
      BY <3>1 DEF IInv, LockInv
  <2>. QED
    BY <2>1, <2>2
<1>. QED
  BY <1>1 DEF Makers

LEMMA ReservedShows ==
  ASSUME IInv, CreateInv, NEW t \in Tasks, NEW s \in Slots
  PROVE  ReservedView(t, s)
<1>. SUFFICES ASSUME Reserves(t, s)
              PROVE  ObjectAt(s) = Shown(s, StateOf(t), tok[t].id) /\ active_id[s] = RESERVED
  BY DEF ReservedView
<1>1. /\ active_id[s] = RESERVED /\ \A u \in Tasks : Reserves(u, s) => u = t
  BY DEF IInv, HoldInv, ReservationOwned
<1>2. Exclusives(s) \subseteq {t} /\ Waiters(s) \subseteq {t} /\ Makers(s) \subseteq {t}
  <2>1. \A u \in Tasks : tok[u].own => tok[u].mode = "EXCLUSIVE"
    BY DEF IInv, TypeInv, TokensOK, TokenAt
  <2>2. Exclusives(s) \subseteq {t} /\ Waiters(s) \subseteq {t}
    BY <1>1, <2>1 DEF Exclusives, Waiters, Reserves
  <2>3. Makers(s) \subseteq {t}
    BY <1>1, MakersOfSlot DEF Makers
  <2>. QED
    BY <2>2, <2>3
<1>3. /\ TokenAt(pc[t], tok[t]) /\ tok[t].idx = s /\ tok[t].mode = "EXCLUSIVE"
      /\ tok[t].held \/ tok[t].own
  BY DEF Reserves, IInv, TypeInv, TokensOK
<1>4. CASE tok[t].op = "create"
  <2>1. t \in Makers(s)
    BY <1>3, <1>4 DEF Makers, TokenAt
  <2>2. Makers(s) = {t} /\ tok[t].held
    BY <1>1, <1>2, <2>1, MakersOfSlot
  <2>. QED
    BY <1>1, <1>4, <2>2, SomeOfOne DEF ObjectAt, StateOf
<1>5. CASE tok[t].op # "create" /\ tok[t].held
  <2>1. Makers(s) = {} /\ Exclusives(s) = {t}
    BY <1>2, <1>3, <1>5 DEF Makers, Exclusives
  <2>. QED
    BY <1>1, <1>5, <2>1, SomeOfOne DEF ObjectAt, StateOf
<1>6. CASE tok[t].op # "create" /\ ~ tok[t].held
  <2>1. Makers(s) = {} /\ Exclusives(s) = {} /\ Waiters(s) = {t}
    BY <1>2, <1>3, <1>6 DEF Makers, Exclusives, Waiters
  <2>. QED
    BY <1>1, <1>6, <2>1, SomeOfOne DEF ObjectAt, StateOf
<1>. QED
  BY <1>4, <1>5, <1>6

LEMMA ClaimedShows ==
  ASSUME IInv, CreateInv, NEW t \in Tasks, NEW s \in Slots
  PROVE  ClaimedView(t, s)
<1>. SUFFICES ASSUME t \in Makers(s), ~ tok[t].held
              PROVE  /\ ObjectAt(s) = Shown(s, "free", UNDEFINED) /\ refcount[s] = 0
                     /\ Owns(pc[t], tok[t]) /\ active_id[s] = tok[t].id /\ tok[t].id \in Ids
  BY DEF ClaimedView
<1>1. Makers(s) = {t}
  BY OneMaker
<1>. QED
  BY <1>1, MakersOfSlot DEF ObjectAt

LEMMA PlainShows ==
  ASSUME IInv, CreateInv, NEW s \in Slots
  PROVE  PlainView(s)
<1>. SUFFICES ASSUME active_id[s] # RESERVED, \A t \in Makers(s) : tok[t].held
              PROVE  /\ Makers(s) = {}
                     /\ ObjectAt(s) =
                          Shown(s, IF active_id[s] = UNDEFINED THEN "free" ELSE "valid",
                                active_id[s])
  BY DEF PlainView
<1>1. Makers(s) = {}
  BY MakersOfSlot DEF Makers
<1>2. \A t \in Tasks : ~ Reserves(t, s)
  BY DEF IInv, HoldInv, ReservationOwned
<1>3. \A u \in Tasks : tok[u].own => tok[u].mode = "EXCLUSIVE"
  BY DEF IInv, TypeInv, TokensOK, TokenAt
<1>4. Exclusives(s) = {} /\ Waiters(s) = {}
  BY <1>2, <1>3 DEF Exclusives, Waiters, Reserves
<1>. QED
  BY <1>1, <1>4 DEF ObjectAt

LEMMA ViewsHold == IInv /\ CreateInv => Views
  BY ReservedShows, ClaimedShows, PlainShows DEF Views

LEMMA ViewsNext == (IInv /\ CreateInv)' => Views'
  BY ViewsHold, PTL

-----------------------------------------------------------------------------
(* The table implements ObjTable: what a step changes.                     *)

\* Task t is for slot s after the step what it was before.
Same(t, s) ==
  /\ t \in Makers(s)' <=> t \in Makers(s)
  /\ t \in Exclusives(s)' <=> t \in Exclusives(s)
  /\ t \in Waiters(s)' <=> t \in Waiters(s)
  /\ t \in Makers(s) \cup Exclusives(s) \cup Waiters(s) =>
       tok'[t].id = tok[t].id /\ (tok'[t].held <=> tok[t].held)

LEMMA SameObject ==
  ASSUME NEW t \in Tasks, Alone(t), NEW s \in Slots, Same(t, s),
         active_id'[s] = active_id[s], refcount'[s] = refcount[s]
  PROVE  ObjectAt(s)' = ObjectAt(s)
<1>1. /\ Makers(s)' = Makers(s) /\ Exclusives(s)' = Exclusives(s)
      /\ Waiters(s)' = Waiters(s)
  BY SMTT(30) DEF Alone, Same, Makers, Exclusives, Waiters
<1>2. ASSUME NEW u \in Makers(s) \cup Exclusives(s) \cup Waiters(s)
      PROVE  tok'[u].id = tok[u].id /\ (tok'[u].held <=> tok[u].held)
  BY DEF Alone, Same, Makers, Exclusives, Waiters
<1>3. \A S : S # {} => SomeOf(S) \in S
  BY DEF SomeOf
<1>4. \A st, id : Shown(s, st, id)' = Shown(s, st, id)
  BY DEF Shown
<1>5. CASE Makers(s) # {}
  BY <1>1, <1>2, <1>3, <1>5 DEF ObjectAt, Shown
<1>6. CASE Makers(s) = {} /\ Exclusives(s) # {}
  BY <1>1, <1>2, <1>3, <1>6 DEF ObjectAt, Shown
<1>7. CASE Makers(s) = {} /\ Exclusives(s) = {} /\ Waiters(s) # {}
  BY <1>1, <1>2, <1>3, <1>7 DEF ObjectAt, Shown
<1>8. CASE Makers(s) = {} /\ Exclusives(s) = {} /\ Waiters(s) = {}
  BY <1>1, <1>8 DEF ObjectAt, Shown
<1>. QED
  BY <1>5, <1>6, <1>7, <1>8

\* The objects of the other slots are as before.
LEMMA Elsewhere ==
  ASSUME NEW t \in Tasks, Alone(t), NEW s \in Slots, tok[t].idx = s, tok'[t].idx \in {s, -1},
         \A r \in Slots \ {s} : active_id'[r] = active_id[r] /\ refcount'[r] = refcount[r]
  PROVE  \A r \in Slots \ {s} : ObjectAt(r)' = ObjectAt(r)
<1>. SUFFICES ASSUME NEW r \in Slots \ {s} PROVE ObjectAt(r)' = ObjectAt(r)
  OBVIOUS
<1>1. tok[t].idx # r /\ tok'[t].idx # r
  BY SlotFacts
<1>2. Same(t, r)
  BY <1>1 DEF Same, Makers, Exclusives, Waiters
<1>. QED
  BY <1>2, SameObject

LEMMA SameObjects ==
  ASSUME NEW t \in Tasks, Alone(t), \A r \in Slots : Same(t, r),
         UNCHANGED <<active_id, refcount>>
  PROVE  Objects' = Objects
<1>1. \A r \in Slots : ObjectAt(r)' = ObjectAt(r)
  BY SameObject
<1>. QED
  BY <1>1 DEF Objects

\* A step changes the object of slot s: its state from a to x, its id from b
\* to y, its users from c to z.
Becomes(s, a, b, c, x, y, z) ==
  /\ s \in Slots /\ c \in Nat
  /\ \A r \in Slots \ {s} : ObjectAt(r)' = ObjectAt(r)
  /\ ObjectAt(s) = [st |-> a, id |-> b, users |-> c]
  /\ ObjectAt(s)' = [st |-> x, id |-> y, users |-> z]

\* The changes that ObjTable allows.
Allowed(s, a, b, c, x, y, z) ==
  \/ a = "free" /\ x = "new" /\ z = 1 /\ y \in Ids /\ y % MaxId = s
  \/ a \in {"new", "exclusive"} /\ c = 1 /\ x = "valid" /\ y = b /\ z = 0
  \/ a \in {"new", "exclusive"} /\ c = 1 /\ x = "free" /\ y = UNDEFINED /\ z = 0
  \/ a = "valid" /\ x = a /\ y = b /\ z = c + 1 /\ b \in Ids /\ b % MaxId = s
  \/ /\ a \in {"new", "waiting", "exclusive"} /\ x = a /\ y = b /\ z = c + 1
     /\ b \in Ids /\ b % MaxId = s
  \/ /\ x = a /\ y = b /\ z = c - 1
     /\ c > (IF a \in {"new", "exclusive"} THEN 1 ELSE 0)
  \/ /\ a = "valid" /\ c = 0 /\ x = "exclusive" /\ y = b /\ z = 1
     /\ b \in Ids /\ b % MaxId = s
  \/ /\ a = "valid" /\ c # 0 /\ x = "waiting" /\ y = b /\ z = c
     /\ b \in Ids /\ b % MaxId = s
  \/ a = "waiting" /\ c = 0 /\ x = "exclusive" /\ y = b /\ z = 1
  \/ a = "waiting" /\ c > 0 /\ x = "valid" /\ y = b /\ z = c

LEMMA TableStep ==
  ASSUME NEW s, NEW a, NEW b, NEW c, NEW x, NEW y, NEW z,
         Becomes(s, a, b, c, x, y, z), Allowed(s, a, b, c, x, y, z)
  PROVE  Promise!NextObj
<1>. s \in Slots /\ c \in Nat
  BY DEF Becomes
<1>0. s \in Promise!Slots
  BY SlotFacts
<1>1. /\ Objects[s].st = a /\ Objects[s].id = b /\ Objects[s].users = c
      /\ Objects' = [Objects EXCEPT ![s] = [st |-> x, id |-> y, users |-> z]]
      /\ y = b => Objects' = [Objects EXCEPT ![s].st = x, ![s].users = z]
      /\ y = b /\ a = x => Objects' = [Objects EXCEPT ![s].users = z]
      /\ y = b /\ c = z => Objects' = [Objects EXCEPT ![s].st = x]
  <2>1. Objects[s] = [st |-> a, id |-> b, users |-> c]
    BY DEF Becomes, Objects
  <2>2. Objects' = [Objects EXCEPT ![s] = [st |-> x, id |-> y, users |-> z]]
    BY DEF Becomes, Objects
  <2>3. Objects = [r \in Slots |-> Objects[r]]
    BY DEF Objects
  <2>4. [Objects[s] EXCEPT !.st = x] = [st |-> x, id |-> b, users |-> c]
    BY <2>1, SMTT(30)
  <2>5. [Objects[s] EXCEPT !.users = z] = [st |-> a, id |-> b, users |-> z]
    BY <2>1, SMTT(30)
  <2>6. [Objects[s] EXCEPT !.st = x, !.users = z] = [st |-> x, id |-> b, users |-> z]
    <3>1. [[st |-> x, id |-> b, users |-> c] EXCEPT !.users = z] = [st |-> x, id |-> b, users |-> z]
      BY SMTT(30)
    <3>. QED
      BY <2>4, <3>1
  <2>7. [Objects EXCEPT ![s].st = x, ![s].users = z] =
          [Objects EXCEPT ![s] = [Objects[s] EXCEPT !.st = x, !.users = z]]
    BY <2>3
  <2>8. [Objects EXCEPT ![s].users = z] = [Objects EXCEPT ![s] = [Objects[s] EXCEPT !.users = z]]
    BY <2>3
  <2>9. [Objects EXCEPT ![s].st = x] = [Objects EXCEPT ![s] = [Objects[s] EXCEPT !.st = x]]
    BY <2>3
  <2>10. Objects[s].st = a /\ Objects[s].id = b /\ Objects[s].users = c
    BY <2>1, SMTT(30)
  <2>. QED
    BY <2>1, <2>2, <2>4, <2>5, <2>6, <2>7, <2>8, <2>9, <2>10
<1>2. CASE a = "free" /\ x = "new" /\ z = 1 /\ y \in Ids /\ y % MaxId = s
  <2>1. Promise!Allocate(y)
    BY <1>1, <1>2 DEF Promise!Allocate, Promise!SlotOf
  <2>. QED
    BY <1>2, <2>1 DEF Promise!NextObj
<1>3. CASE a \in {"new", "exclusive"} /\ c = 1 /\ x = "valid" /\ y = b /\ z = 0
  <2>1. Promise!Created(s) \/ Promise!Kept(s)
    BY <1>1, <1>3 DEF Promise!Created, Promise!Kept
  <2>. QED
    BY <1>0, <2>1 DEF Promise!NextObj
<1>4. CASE a \in {"new", "exclusive"} /\ c = 1 /\ x = "free" /\ y = UNDEFINED /\ z = 0
  <2>1. Promise!NotCreated(s) \/ Promise!Deleted(s)
    BY <1>1, <1>4, SlotFacts DEF Promise!NotCreated, Promise!Deleted, Promise!Free
  <2>. QED
    BY <1>0, <2>1 DEF Promise!NextObj
<1>5. CASE a = "valid" /\ x = a /\ y = b /\ z = c + 1 /\ b \in Ids /\ b % MaxId = s
  <2>1. Promise!Enter(b)
    BY <1>1, <1>5 DEF Promise!Enter, Promise!Valid, Promise!SlotOf
  <2>. QED
    BY <1>5, <2>1 DEF Promise!NextObj
<1>6. CASE /\ a \in {"new", "waiting", "exclusive"} /\ x = a /\ y = b /\ z = c + 1
           /\ b \in Ids /\ b % MaxId = s
  <2>1. Promise!Assist(b)
    BY <1>1, <1>6 DEF Promise!Assist, Promise!SlotOf
  <2>. QED
    BY <1>6, <2>1 DEF Promise!NextObj
<1>7. CASE /\ x = a /\ y = b /\ z = c - 1
           /\ c > (IF a \in {"new", "exclusive"} THEN 1 ELSE 0)
  <2>1. Promise!Leave(s)
    BY <1>1, <1>7 DEF Promise!Leave
  <2>. QED
    BY <1>0, <2>1 DEF Promise!NextObj
<1>8. CASE /\ a = "valid" /\ c = 0 /\ x = "exclusive" /\ y = b /\ z = 1
           /\ b \in Ids /\ b % MaxId = s
  <2>1. Promise!Reserve(b)
    BY <1>1, <1>8 DEF Promise!Reserve, Promise!Valid, Promise!SlotOf
  <2>. QED
    BY <1>8, <2>1 DEF Promise!NextObj
<1>9. CASE /\ a = "valid" /\ c # 0 /\ x = "waiting" /\ y = b /\ z = c
           /\ b \in Ids /\ b % MaxId = s
  <2>1. Objects[s].users # 0 /\ Objects' = [Objects EXCEPT ![s].st = "waiting"]
    BY <1>1, <1>9
  <2>2. Promise!Valid(b)
    BY <1>1, <1>9 DEF Promise!Valid, Promise!SlotOf
  <2>3. Promise!Reserve(b)
    BY <1>9, <2>1, <2>2 DEF Promise!Reserve, Promise!SlotOf
  <2>. QED
    BY <1>9, <2>3 DEF Promise!NextObj
<1>10. CASE a = "waiting" /\ c = 0 /\ x = "exclusive" /\ y = b /\ z = 1
  <2>1. Promise!Granted(s)
    BY <1>1, <1>10 DEF Promise!Granted
  <2>. QED
    BY <1>0, <2>1 DEF Promise!NextObj
<1>11. CASE a = "waiting" /\ c > 0 /\ x = "valid" /\ y = b /\ z = c
  <2>1. Promise!GiveUp(s)
    BY <1>1, <1>11 DEF Promise!GiveUp
  <2>. QED
    BY <1>0, <2>1 DEF Promise!NextObj
<1>. QED
  BY <1>2, <1>3, <1>4, <1>5, <1>6, <1>7, <1>8, <1>9, <1>10, <1>11 DEF Allowed

-----------------------------------------------------------------------------
(* The table implements ObjTable: the steps that change no object.         *)

\* Task t creates no object, or has no slot for it yet.
NoMaker(l, k) == k.op # "create" \/ l \in {"scan", "claim"} \/ k.idx = -1

LEMMA QuietMaker ==
  ASSUME IInv, CreateInv, NEW t \in Tasks,
         \/ Begin(t) \/ LockTable(t) \/ FindNextMatch(t) \/ CheckName(t)
         \/ ScanSlot(t) \/ ScanFails(t) \/ NotifyAllocated(t) \/ NotifyRejected(t)
         \/ ConvertInvalid(t) \/ Reacquire(t) \/ ObjectInit(t) \/ FinalizeNew(t)
         \/ EndUse(t) \/ RelockTable(t) \/ IterateNext(t) \/ IterateCallback(t)
         \/ CancelTask(t) \/ ConvertMismatch(t)
  PROVE  \/ NoMaker(pc[t], tok[t]) /\ NoMaker(pc'[t], tok'[t])
         \/ /\ {pc[t], pc'[t]} \cap {"scan", "claim"} = {}
            /\ tok'[t].op = tok[t].op /\ tok'[t].idx = tok[t].idx
            /\ tok'[t].id = tok[t].id /\ tok'[t].held = tok[t].held
<1>. USE DEF table
<1>0. /\ pc \in [Tasks -> PCs] /\ tok \in [Tasks -> Token] /\ tok[t] \in Token
      /\ TokenAt(pc[t], tok[t]) /\ CreateOf(t)
  BY DEF IInv, TypeInv, TypeOK, TokensOK, CreateInv
<1>1. CASE Begin(t)
  <2>1. PICK k : TransactionInit(t, k) /\ (k.op = "create" => k.idx = -1)
    BY <1>1, BeginToken
  <2>2. tok'[t] = k /\ pc[t] = "idle"
    BY <1>0, <2>1 DEF TransactionInit
  <2>. QED
    BY <1>0, <2>1, <2>2 DEF NoMaker, CreateOf
<1>2. ASSUME NoMaker(pc[t], tok[t]), Return(t)
      PROVE  NoMaker(pc[t], tok[t]) /\ NoMaker(pc'[t], tok'[t])
  BY <1>0, <1>2 DEF Return, NullToken, NoMaker
<1>3. CASE FindNextMatch(t) \/ IterateNext(t)
  <2>1. tok[t].op # "create"
    BY <1>0, <1>3 DEF FindNextMatch, IterateNext, TokenAt
  <2>2. tok'[t].op # "create"
    BY <1>0, <1>3, <2>1, SMTT(30)
    DEF FindNextMatch, IterateNext, Return, NullToken, Token
  <2>. QED
    BY <2>1, <2>2 DEF NoMaker
<1>4. CASE CheckName(t)
  <2>1. tok[t].idx = -1
    BY <1>0, <1>4 DEF CheckName, CreateOf
  <2>2. Return(t) \/ pc'[t] = "scan"
    BY <1>0, <1>4 DEF CheckName, GoTo
  <2>. QED
    BY <1>2, <2>1, <2>2 DEF NoMaker
<1>5. CASE ScanSlot(t)
  BY <1>0, <1>5 DEF ScanSlot, GoTo, NoMaker
<1>6. CASE ScanFails(t)
  BY <1>2, <1>6 DEF ScanFails, NoMaker
<1>7. CASE ConvertInvalid(t) \/ ConvertMismatch(t)
  <2>1. pc[t] = "convert" /\ ConvertError(t)
    BY <1>7 DEF ConvertInvalid, ConvertMismatch
  <2>2. tok[t].op # "create"
    BY <1>7, <2>1, CreateGranted
  <2>. QED
    BY <1>2, <2>1, <2>2 DEF ConvertError, NoMaker
<1>8. CASE \/ LockTable(t) \/ NotifyAllocated(t) \/ Reacquire(t) \/ ObjectInit(t)
           \/ RelockTable(t) \/ IterateCallback(t) \/ CancelTask(t)
  <2>1. tok' = tok
    BY <1>8 DEF LockTable, NotifyAllocated, Reacquire, ObjectInit, RelockTable,
       IterateCallback, CancelTask
  <2>2. {pc[t], pc'[t]} \cap {"scan", "claim"} = {}
    BY <1>0, <1>8 DEF LockTable, NotifyAllocated, Reacquire, ObjectInit, RelockTable,
       IterateCallback, CancelTask, GoTo
  <2>. QED
    BY <2>1, <2>2
<1>9. CASE NotifyRejected(t) \/ FinalizeNew(t) \/ EndUse(t)
  <2>1. {pc[t], pc'[t]} \cap {"scan", "claim"} = {}
    BY <1>0, <1>9 DEF NotifyRejected, FinalizeNew, EndUse, GoTo
  <2>2. /\ tok'[t].op = tok[t].op /\ tok'[t].idx = tok[t].idx
        /\ tok'[t].id = tok[t].id /\ tok'[t].held = tok[t].held
    BY <1>0, <1>9, SMTT(30) DEF NotifyRejected, FinalizeNew, EndUse, Token
  <2>. QED
    BY <2>1, <2>2
<1>. QED
  BY <1>1, <1>3, <1>4, <1>5, <1>6, <1>7, <1>8, <1>9

LEMMA QuietObjects ==
  ASSUME HasLock, IInv, CreateInv, NEW t \in Tasks, Begin(t) \/ Step(t) \/ CancelTask(t),
         ~ \/ ClaimSlot(t) \/ ConvertGranted(t) \/ ConvertWaits(t)
           \/ ConvertGivesUp(t) \/ TransactionFinish(t)
  PROVE  Objects' = Objects
<1>1. Alone(t)
  BY Steps DEF IInv
<1>2. Kept(t) /\ UNCHANGED <<active_id, refcount>>
  <2>1. CASE ConvertMismatch(t)
    BY <1>1, <2>1, MismatchStep
  <2>2. CASE ~ ConvertMismatch(t)
    BY <1>1, <2>2, QuietActions DEF Step, IInv
  <2>. QED
    BY <2>1, <2>2
<1>3. \/ NoMaker(pc[t], tok[t]) /\ NoMaker(pc'[t], tok'[t])
      \/ /\ {pc[t], pc'[t]} \cap {"scan", "claim"} = {}
         /\ tok'[t].op = tok[t].op /\ tok'[t].idx = tok[t].idx
         /\ tok'[t].id = tok[t].id /\ tok'[t].held = tok[t].held
  BY QuietMaker DEF Step
<1>4. ASSUME NEW r \in Slots PROVE Same(t, r)
  <2>1. /\ t \in Makers(r)' <=> t \in Makers(r)
        /\ t \in Makers(r) => tok'[t].id = tok[t].id /\ tok'[t].held = tok[t].held
    BY <1>3, SlotFacts DEF NoMaker, Makers
  <2>2. /\ t \in Exclusives(r)' <=> t \in Exclusives(r)
        /\ t \in Waiters(r)' <=> t \in Waiters(r)
        /\ t \in Exclusives(r) \cup Waiters(r) =>
             tok'[t].id = tok[t].id /\ tok'[t].held = tok[t].held
    BY <1>2 DEF Kept, Exclusives, Waiters
  <2>. QED
    BY <2>1, <2>2 DEF Same
<1>. QED
  BY <1>1, <1>2, <1>4, SameObjects

-----------------------------------------------------------------------------
(* The table implements ObjTable: the steps that change an object.         *)

\* Task t works on slot s with the table locked.  A slot that nobody reserves
\* shows the id in its record, unless t itself has claimed it.
LEMMA PlainSlot ==
  ASSUME IInv, CreateInv, NEW t \in Tasks, Owns(pc[t], tok[t]), NEW s \in Slots,
         tok[t].op # "create" \/ tok[t].held \/ pc[t] \in {"scan", "claim"},
         active_id[s] # RESERVED
  PROVE  /\ \A u \in Tasks : u \in Makers(s) => tok[u].held
         /\ ObjectAt(s) = Shown(s, IF active_id[s] = UNDEFINED THEN "free" ELSE "valid",
                                active_id[s])
<1>1. ASSUME NEW u \in Tasks, u \in Makers(s), ~ tok[u].held PROVE FALSE
  <2>1. Owns(pc[u], tok[u])
    BY <1>1, MakersOfSlot
  <2>2. u = t
    BY <2>1 DEF IInv, LockInv
  <2>. QED
    BY <1>1, <2>2 DEF Makers
<1>2. \A u \in Makers(s) : tok[u].held
  BY <1>1 DEF Makers
<1>. QED
  BY <1>1, <1>2, PlainShows DEF PlainView

\* The same in the next state, when t has returned or holds the slot.
LEMMA PlainSlotNext ==
  ASSUME IInv, CreateInv, Views', NEW t \in Tasks, Alone(t), Owns(pc[t], tok[t]),
         NEW s \in Slots, tok'[t].op # "create" \/ tok'[t].held, active_id'[s] # RESERVED
  PROVE  ObjectAt(s)' =
           [st |-> IF active_id'[s] = UNDEFINED THEN "free" ELSE "valid",
            id |-> active_id'[s], users |-> refcount'[s]]
<1>1. ASSUME NEW u \in Tasks, u \in Makers(s)', ~ tok'[u].held PROVE FALSE
  <2>1. u # t
    BY <1>1 DEF Makers
  <2>2. u \in Makers(s) /\ ~ tok[u].held
    BY <1>1, <2>1 DEF Alone, Makers
  <2>3. Owns(pc[u], tok[u])
    BY <2>2, MakersOfSlot
  <2>. QED
    BY <2>1, <2>3 DEF IInv, LockInv
<1>2. \A u \in Makers(s)' : tok'[u].held
  BY <1>1 DEF Makers
<1>. QED
  BY <1>2 DEF Views, PlainView, Shown

\* What a slot shows that task u reserves.
LEMMA ReservedSlot ==
  ASSUME IInv, CreateInv, NEW u \in Tasks, NEW s \in Slots, Reserves(u, s)
  PROVE  /\ ObjectAt(s) = [st |-> StateOf(u), id |-> tok[u].id, users |-> refcount[s]]
         /\ active_id[s] = RESERVED /\ tok[u].id \in Ids /\ tok[u].id % MaxId = s
         /\ tok[u].op = "create" => tok[u].held
<1>1. TokenAt(pc[u], tok[u]) /\ LocalAt(pc[u], tok[u]) /\ CreateOf(u)
  BY DEF IInv, TypeInv, TokensOK, AuxInv, CreateInv
<1>2. tok[u].id \in Ids /\ tok[u].id % MaxId = s
  BY <1>1 DEF Reserves, TokenAt, LocalAt
<1>3. tok[u].op = "create" => tok[u].held
  BY <1>1 DEF Reserves, TokenAt, CreateOf
<1>. QED
  BY <1>2, <1>3, ReservedShows DEF ReservedView, Shown

LEMMA ReservedSlotNext ==
  ASSUME Views', NEW u \in Tasks, NEW s \in Slots, Reserves(u, s)'
  PROVE  ObjectAt(s)' = [st |-> StateOf(u)', id |-> tok'[u].id, users |-> refcount'[s]]
  BY DEF Views, ReservedView, Shown

\* OS_ObjectIdFindNextFree fills in the record of a free slot.
LEMMA ClaimObjects ==
  ASSUME IInv, CreateInv, Views', NEW t \in Tasks, Alone(t), ClaimSlot(t)
  PROVE  Objects' = Objects
<1>0. /\ tok \in [Tasks -> Token] /\ pc \in [Tasks -> PCs] /\ refcount \in [Slots -> Nat]
      /\ active_id \in [Slots -> Ids \cup {UNDEFINED, RESERVED}]
      /\ TokenAt(pc[t], tok[t])
  BY DEF IInv, TypeInv, TypeOK, TokensOK
<1>1. PICK s \in Slots : s = tok[t].idx /\ active_id[s] = UNDEFINED
  BY <1>0 DEF IInv, AuxInv, TokenAt, ClaimSlot
<1>2. /\ pc[t] = "claim" /\ tok[t].op = "create" /\ ~ tok[t].held /\ Owns(pc[t], tok[t])
  BY <1>0 DEF TokenAt, ClaimSlot, Owns
<1>3. refcount[s] = 0
  <2>1. \A u \in Tasks : ~ (tok[u].held /\ tok[u].idx = s)
    BY <1>1, NotAnId, SMTT(30)
    DEF IInv, TypeInv, TokensOK, TokenAt, HoldInv, HeldObjectStays
  <2>2. Users(s) = {}
    BY <2>1 DEF Users
  <2>. QED
    BY <2>2, FS_EmptySet DEF IInv, RefcountExact
<1>4. ObjectAt(s) = [st |-> "free", id |-> UNDEFINED, users |-> 0]
  BY <1>1, <1>2, <1>3, PlainSlot, NotAnId DEF Shown
<1>5. /\ tok'[t].idx = s /\ tok'[t].op = "create" /\ ~ tok'[t].held /\ pc'[t] = "notify"
      /\ refcount'[s] = 0
  BY <1>0, <1>1, <1>2 DEF ClaimSlot, GoTo, Token
<1>6. t \in Makers(s)'
  BY <1>5 DEF Makers
<1>7. ObjectAt(s)' = [st |-> "free", id |-> UNDEFINED, users |-> 0]
  <2>1. ObjectAt(s)' = Shown(s, "free", UNDEFINED)'
    BY <1>5, <1>6 DEF Views, ClaimedView
  <2>. QED
    BY <1>5, <2>1 DEF Shown
<1>8. \A r \in Slots \ {s} : ObjectAt(r)' = ObjectAt(r)
  <2>1. \A r \in Slots \ {s} : active_id'[r] = active_id[r] /\ refcount'[r] = refcount[r]
    BY <1>0, <1>1 DEF ClaimSlot
  <2>. QED
    BY <1>1, <1>5, <2>1, Elsewhere
<1>9. \A r \in Slots : ObjectAt(r)' = ObjectAt(r)
  BY <1>4, <1>7, <1>8
<1>. QED
  BY <1>9 DEF Objects

\* OS_ObjectIdConvertToken grants a lock mode: a new object appears, an object
\* is withdrawn for its exclusive user, or it has one more user.
LEMMA GrantObjects ==
  ASSUME IInv, CreateInv, Views', NEW t \in Tasks, Alone(t), ConvertGranted(t)
  PROVE  Promise!NextObj
<1>0. /\ tok \in [Tasks -> Token] /\ refcount \in [Slots -> Nat]
      /\ active_id \in [Slots -> Ids \cup {UNDEFINED, RESERVED}]
      /\ TokenAt(pc[t], tok[t]) /\ LocalAt(pc[t], tok[t])
      /\ pc[t] = "convert" /\ tok[t].id \in Ids /\ IdMatches(t)
  BY DEF IInv, TypeInv, TypeOK, TokensOK, AuxInv, ConvertGranted
<1>1. PICK s \in Slots : s = tok[t].idx
  BY <1>0 DEF TokenAt
<1>2. PICK i \in Ids : i = tok[t].id /\ i % MaxId = s
  BY <1>0, <1>1 DEF LocalAt
<1>3. PICK c \in Nat : c = refcount[s]
  BY <1>0
<1>4. /\ tok'[t].held /\ tok'[t].idx = s /\ tok'[t].id = i
      /\ tok'[t].mode = tok[t].mode /\ tok'[t].op = tok[t].op
  BY <1>0, <1>1, <1>2 DEF ConvertGranted, Token
<1>5. /\ refcount' = [refcount EXCEPT ![s] = @ + 1] /\ refcount'[s] = c + 1
  BY <1>0, <1>1, <1>3 DEF ConvertGranted
<1>6. \A r \in Slots \ {s} : ObjectAt(r)' = ObjectAt(r)
  <2>1. \A r \in Slots \ {s} : active_id'[r] = active_id[r] /\ refcount'[r] = refcount[r]
    BY <1>0, <1>1, <1>5 DEF ConvertGranted, SetActiveId
  <2>. QED
    BY <1>1, <1>4, <2>1, Elsewhere
<1>7. ~ tok[t].held /\ Owns(pc[t], tok[t])
  BY <1>0 DEF TokenAt, Owns
<1>8. CASE tok[t].mode = "EXCLUSIVE"
  <2>1. c = 0
    BY <1>1, <1>3, <1>8 DEF ConvertGranted
  <2>2. Reserves(t, s)'
    BY <1>4, <1>8 DEF Reserves
  <2>3. ObjectAt(s)' =
          [st |-> IF tok[t].op = "create" THEN "new" ELSE "exclusive", id |-> i, users |-> 1]
    BY <1>4, <1>5, <2>1, <2>2, ReservedSlotNext, SMTT(30) DEF StateOf
  <2>4. CASE tok[t].op = "create"
    <3>1. t \in Makers(s)
      BY <1>0, <1>1, <2>4 DEF Makers
    <3>2. ObjectAt(s) = [st |-> "free", id |-> UNDEFINED, users |-> 0]
      BY <1>3, <1>7, <2>1, <3>1, ClaimedShows DEF ClaimedView, Shown
    <3>3. Becomes(s, "free", UNDEFINED, 0, "new", i, 1)
      BY <1>6, <2>3, <2>4, <3>2 DEF Becomes
    <3>4. Allowed(s, "free", UNDEFINED, 0, "new", i, 1)
      BY <1>2 DEF Allowed
    <3>. QED
      BY <3>3, <3>4, TableStep
  <2>5. CASE tok[t].op # "create" /\ ~ tok[t].own
    <3>1. active_id[s] = i
      BY <1>0, <1>1, <1>2, <1>8, <2>5 DEF IdMatches, ExpectedId
    <3>2. ObjectAt(s) = [st |-> "valid", id |-> i, users |-> 0]
      BY <1>3, <1>7, <2>1, <2>5, <3>1, PlainSlot, NotAnId DEF Shown
    <3>3. Becomes(s, "valid", i, 0, "exclusive", i, 1)
      <4>1. ObjectAt(s)' = [st |-> "exclusive", id |-> i, users |-> 1]
        BY <2>3, <2>5
      <4>. QED
        BY <1>6, <3>2, <4>1 DEF Becomes
    <3>4. Allowed(s, "valid", i, 0, "exclusive", i, 1)
      BY <1>2 DEF Allowed
    <3>. QED
      BY <3>3, <3>4, TableStep
  <2>6. CASE tok[t].op # "create" /\ tok[t].own
    <3>1. Reserves(t, s)
      BY <1>1, <1>8, <2>6 DEF Reserves
    <3>2. ObjectAt(s) = [st |-> "waiting", id |-> i, users |-> 0]
      BY <1>2, <1>3, <1>7, <2>1, <2>6, <3>1, ReservedSlot DEF StateOf
    <3>3. Becomes(s, "waiting", i, 0, "exclusive", i, 1)
      <4>1. ObjectAt(s)' = [st |-> "exclusive", id |-> i, users |-> 1]
        BY <2>3, <2>6
      <4>. QED
        BY <1>6, <3>2, <4>1 DEF Becomes
    <3>4. Allowed(s, "waiting", i, 0, "exclusive", i, 1)
      BY DEF Allowed
    <3>. QED
      BY <3>3, <3>4, TableStep
  <2>. QED
    BY <2>4, <2>5, <2>6
<1>9. CASE tok[t].mode # "EXCLUSIVE"
  <2>1. active_id' = active_id /\ ~ tok[t].own /\ tok[t].op # "create"
    BY <1>0, <1>9 DEF ConvertGranted, Overwrites, TokenAt
  <2>2. CASE active_id[s] = RESERVED
    <3>1. PICK u \in Tasks : Reserves(u, s)
      BY <2>2 DEF IInv, HoldInv, ReservationOwned
    <3>2. u # t
      BY <1>9, <3>1 DEF Reserves
    <3>3. Reserves(u, s)' /\ StateOf(u)' = StateOf(u) /\ tok'[u] = tok[u]
      BY <3>1, <3>2 DEF Alone, Reserves, StateOf
    <3>4. /\ ObjectAt(s) = [st |-> StateOf(u), id |-> tok[u].id, users |-> c]
          /\ tok[u].id \in Ids /\ tok[u].id % MaxId = s
      BY <1>3, <3>1, ReservedSlot
    <3>5. ObjectAt(s)' = [st |-> StateOf(u), id |-> tok[u].id, users |-> c + 1]
      BY <1>5, <3>3, ReservedSlotNext
    <3>6. Becomes(s, StateOf(u), tok[u].id, c, StateOf(u), tok[u].id, c + 1)
      BY <1>6, <3>4, <3>5 DEF Becomes
    <3>7. Allowed(s, StateOf(u), tok[u].id, c, StateOf(u), tok[u].id, c + 1)
      BY <3>4 DEF Allowed, StateOf
    <3>. QED
      BY <3>6, <3>7, TableStep
  <2>3. CASE active_id[s] # RESERVED
    <3>1. active_id[s] = i
      BY <1>0, <1>1, <1>2, <1>9, <2>3 DEF IdMatches, ExpectedId
    <3>2. ObjectAt(s) = [st |-> "valid", id |-> i, users |-> c]
      BY <1>3, <1>7, <2>1, <3>1, PlainSlot, NotAnId DEF Shown
    <3>3. ObjectAt(s)' = [st |-> "valid", id |-> i, users |-> c + 1]
      BY <1>4, <1>5, <1>7, <2>1, <3>1, PlainSlotNext, NotAnId
    <3>4. Becomes(s, "valid", i, c, "valid", i, c + 1)
      BY <1>6, <3>2, <3>3 DEF Becomes
    <3>5. Allowed(s, "valid", i, c, "valid", i, c + 1)
      BY <1>2 DEF Allowed
    <3>. QED
      BY <3>4, <3>5, TableStep
  <2>. QED
    BY <2>2, <2>3
<1>. QED
  BY <1>8, <1>9

\* A transaction waits: an EXCLUSIVE one withdraws the object in its first
\* round.
LEMMA WaitObjects ==
  ASSUME IInv, CreateInv, Views', NEW t \in Tasks, Alone(t), ConvertWaits(t)
  PROVE  Promise!NextObj \/ Objects' = Objects
<1>0. /\ tok \in [Tasks -> Token] /\ refcount \in [Slots -> Nat]
      /\ active_id \in [Slots -> Ids \cup {UNDEFINED, RESERVED}]
      /\ TokenAt(pc[t], tok[t]) /\ LocalAt(pc[t], tok[t])
      /\ pc[t] = "convert" /\ tok[t].id \in Ids /\ Contention(t)
  BY DEF IInv, TypeInv, TypeOK, TokensOK, AuxInv, ConvertWaits, Contention
<1>1. PICK s \in Slots : s = tok[t].idx
  BY <1>0 DEF TokenAt
<1>2. PICK i \in Ids : i = tok[t].id /\ i % MaxId = s
  BY <1>0, <1>1 DEF LocalAt
<1>3. tok[t].op # "create" /\ ~ tok[t].held /\ Owns(pc[t], tok[t])
  BY <1>0, CreateGranted DEF TokenAt, Owns
<1>4. /\ tok'[t].held = tok[t].held /\ tok'[t].idx = s /\ tok'[t].id = i
      /\ tok'[t].mode = tok[t].mode /\ tok'[t].op = tok[t].op
      /\ tok'[t].own <=> Overwrites(t)
      /\ refcount' = refcount
  BY <1>0, <1>1, <1>2 DEF ConvertWaits, Token
<1>5. CASE Overwrites(t) /\ ~ tok[t].own
  <2>1. tok[t].mode = "EXCLUSIVE" /\ active_id[s] = i /\ refcount[s] # 0
    BY <1>0, <1>1, <1>2, <1>5 DEF Overwrites, IdMatches, ExpectedId, Contention
  <2>2. PICK c \in Nat \ {0} : c = refcount[s]
    BY <1>0, <2>1
  <2>3. ObjectAt(s) = [st |-> "valid", id |-> i, users |-> c]
    BY <1>3, <2>1, <2>2, PlainSlot, NotAnId DEF Shown
  <2>4. Reserves(t, s)'
    BY <1>4, <1>5, <2>1 DEF Reserves
  <2>5. ObjectAt(s)' = [st |-> "waiting", id |-> i, users |-> c]
    BY <1>3, <1>4, <2>2, <2>4, ReservedSlotNext DEF StateOf
  <2>6. \A r \in Slots \ {s} : ObjectAt(r)' = ObjectAt(r)
    <3>1. \A r \in Slots \ {s} : active_id'[r] = active_id[r] /\ refcount'[r] = refcount[r]
      BY <1>0, <1>1, <1>4 DEF ConvertWaits, SetActiveId
    <3>. QED
      BY <1>1, <1>4, <3>1, Elsewhere
  <2>7. Becomes(s, "valid", i, c, "waiting", i, c)
    BY <2>3, <2>5, <2>6 DEF Becomes
  <2>8. Allowed(s, "valid", i, c, "waiting", i, c)
    BY <1>2 DEF Allowed
  <2>. QED
    BY <2>7, <2>8, TableStep
<1>6. CASE Overwrites(t) <=> tok[t].own
  <2>1. active_id' = active_id
    <3>1. CASE tok[t].own
      <4>1. Reserves(t, s)
        BY <1>0, <1>1, <3>1 DEF Reserves, TokenAt
      <4>2. active_id[s] = RESERVED
        BY <4>1, ReservedSlot
      <4>3. active_id' = [active_id EXCEPT ![s] = RESERVED]
        BY <1>1, <1>6, <3>1 DEF ConvertWaits, SetActiveId
      <4>. QED
        BY <1>0, <4>2, <4>3
    <3>2. CASE ~ tok[t].own
      BY <1>6, <3>2 DEF ConvertWaits
    <3>. QED
      BY <3>1, <3>2
  <2>2. ASSUME NEW r \in Slots PROVE Same(t, r)
    BY <1>1, <1>2, <1>3, <1>4, <1>6 DEF Same, Makers, Exclusives, Waiters
  <2>. QED
    BY <1>4, <2>1, <2>2, SameObjects
<1>7. tok[t].own => Overwrites(t)
  BY <1>0 DEF Overwrites, TokenAt
<1>. QED
  BY <1>5, <1>6, <1>7

\* The last attempt of a waiting transaction gives the object back.
LEMMA GiveUpObjects ==
  ASSUME IInv, CreateInv, Views', NEW t \in Tasks, Alone(t), ConvertGivesUp(t)
  PROVE  Promise!NextObj \/ Objects' = Objects
<1>0. /\ tok \in [Tasks -> Token] /\ refcount \in [Slots -> Nat]
      /\ active_id \in [Slots -> Ids \cup {UNDEFINED, RESERVED}]
      /\ TokenAt(pc[t], tok[t]) /\ LocalAt(pc[t], tok[t])
      /\ pc[t] = "convert" /\ tok[t].id \in Ids /\ Contention(t)
  BY DEF IInv, TypeInv, TypeOK, TokensOK, AuxInv, ConvertGivesUp, Contention
<1>1. PICK s \in Slots : s = tok[t].idx
  BY <1>0 DEF TokenAt
<1>2. PICK i \in Ids : i = tok[t].id /\ i % MaxId = s
  BY <1>0, <1>1 DEF LocalAt
<1>3. tok[t].op # "create" /\ ~ tok[t].held /\ Owns(pc[t], tok[t])
  BY <1>0, CreateGranted DEF TokenAt, Owns
<1>4. tok'[t] = NullToken /\ refcount' = refcount
  BY <1>0, <1>3 DEF ConvertGivesUp, ConvertError, Return
<1>5. tok'[t].op = "none" /\ tok'[t].idx = -1 /\ ~ tok'[t].held /\ ~ tok'[t].own
  BY <1>4, SMTT(30) DEF NullToken
<1>6. CASE tok[t].own
  <2>1. Reserves(t, s)
    BY <1>0, <1>1, <1>6 DEF Reserves, TokenAt
  <2>2. PICK c \in Nat : c = refcount[s]
    BY <1>0
  <2>3. ObjectAt(s) = [st |-> "waiting", id |-> i, users |-> c] /\ active_id[s] = RESERVED
    BY <1>2, <1>3, <2>1, <2>2, ReservedSlot DEF StateOf
  <2>4. c > 0
    BY <1>0, <1>1, <1>6, <2>2, <2>3, SMTT(30)
    DEF Contention, IdMatches, ExpectedId
  <2>5. active_id' = [active_id EXCEPT ![s] = i]
    BY <1>1, <1>2, <1>6, <2>1 DEF ConvertGivesUp, Overwrites, SetActiveId, Reserves
  <2>6. ObjectAt(s)' = [st |-> "valid", id |-> i, users |-> c]
    <3>1. active_id'[s] = i /\ i # RESERVED /\ i # UNDEFINED
      BY <1>0, <2>5, NotAnId
    <3>. QED
      BY <1>3, <1>4, <1>5, <2>2, <3>1, PlainSlotNext
  <2>7. \A r \in Slots \ {s} : ObjectAt(r)' = ObjectAt(r)
    <3>1. \A r \in Slots \ {s} : active_id'[r] = active_id[r] /\ refcount'[r] = refcount[r]
      BY <1>0, <1>4, <2>5
    <3>. QED
      BY <1>1, <1>5, <3>1, Elsewhere
  <2>8. Becomes(s, "waiting", i, c, "valid", i, c)
    BY <2>3, <2>6, <2>7 DEF Becomes
  <2>9. Allowed(s, "waiting", i, c, "valid", i, c)
    BY <2>4 DEF Allowed
  <2>. QED
    BY <2>8, <2>9, TableStep
<1>7. CASE ~ tok[t].own
  <2>1. active_id' = active_id
    <3>1. Overwrites(t) => active_id[s] = i
      BY <1>1, <1>2, <1>7 DEF Overwrites, IdMatches, ExpectedId
    <3>2. active_id' = active_id \/ (Overwrites(t) /\ active_id' = [active_id EXCEPT ![s] = i])
      BY <1>1, <1>2 DEF ConvertGivesUp, SetActiveId
    <3>. QED
      BY <1>0, <3>1, <3>2
  <2>2. ASSUME NEW r \in Slots PROVE Same(t, r)
    BY <1>3, <1>5, <1>7 DEF Same, Makers, Exclusives, Waiters
  <2>. QED
    BY <1>4, <2>1, <2>2, SameObjects
<1>. QED
  BY <1>6, <1>7

\* OS_ObjectIdTransactionFinish: a creation or an exclusive use ends, with the
\* object kept or gone, or the object has one user less.
LEMMA FinishObjects ==
  ASSUME IInv, CreateInv, Views', NEW t \in Tasks, Alone(t), TransactionFinish(t)
  PROVE  Promise!NextObj
<1>0. /\ tok \in [Tasks -> Token] /\ refcount \in [Slots -> Nat]
      /\ active_id \in [Slots -> Ids \cup {UNDEFINED, RESERVED}]
      /\ TokenAt(pc[t], tok[t]) /\ LocalAt(pc[t], tok[t]) /\ pc[t] = "finish"
  BY DEF IInv, TypeInv, TypeOK, TokensOK, AuxInv, TransactionFinish
<1>1. /\ tok[t].held /\ Owns(pc[t], tok[t]) /\ tok[t].id \in Ids
      /\ tok[t].mode # "EXCLUSIVE" => tok[t].final = KEEP
      /\ tok[t].mode = "EXCLUSIVE" => tok[t].final \in {tok[t].id, UNDEFINED}
  BY <1>0 DEF TokenAt, LocalAt, Owns
<1>2. PICK s \in Slots : s = tok[t].idx
  BY <1>0 DEF TokenAt
<1>3. PICK i \in Ids : i = tok[t].id /\ i % MaxId = s
  BY <1>0, <1>1, <1>2 DEF LocalAt
<1>4. t \in Users(s) /\ refcount[s] = Cardinality(Users(s)) /\ IsFiniteSet(Users(s))
  BY <1>1, <1>2, UsersFinite DEF Users, IInv, RefcountExact
<1>5. PICK c \in Nat : c = refcount[s] /\ c > 0
  <2>1. refcount[s] # 0
    BY <1>4, FS_EmptySet
  <2>. QED
    BY <1>0, <2>1, SMTT(30)
<1>6. refcount' = [refcount EXCEPT ![s] = c - 1]
  BY <1>0, <1>2, <1>5 DEF TransactionFinish
<1>7. tok'[t].op = "none" /\ tok'[t].idx = -1 /\ ~ tok'[t].held /\ ~ tok'[t].own
  BY <1>0 DEF TransactionFinish, Return, NullToken
<1>8. \A r \in Slots \ {s} : ObjectAt(r)' = ObjectAt(r)
  <2>1. \A r \in Slots \ {s} : active_id'[r] = active_id[r] /\ refcount'[r] = refcount[r]
    BY <1>0, <1>2, <1>6 DEF TransactionFinish, SetActiveId
  <2>. QED
    BY <1>2, <1>7, <2>1, Elsewhere
<1>9. CASE tok[t].mode = "EXCLUSIVE"
  <2>1. c = 1
    <3>1. ASSUME NEW u \in Users(s), u # t PROVE FALSE
      <4>1. u \in Tasks /\ tok[u].held /\ tok[u].idx = tok[t].idx
        BY <1>2, <3>1 DEF Users
      <4>2. tok[u].mode = "RESERVED"
        BY <1>1, <1>9, <3>1, <4>1 DEF IInv, HoldInv, ExclusiveAlone
      <4>. QED
        BY <1>1, <3>1, <4>1, <4>2, OthersUnlocked
    <3>2. Users(s) = {t}
      BY <1>4, <3>1
    <3>. QED
      BY <1>4, <1>5, <3>2, FS_Singleton
  <2>2. Reserves(t, s)
    BY <1>1, <1>2, <1>9 DEF Reserves
  <2>3. PICK a \in {"new", "exclusive"} : ObjectAt(s) = [st |-> a, id |-> i, users |-> 1]
    BY <1>1, <1>3, <1>5, <2>1, <2>2, ReservedSlot DEF StateOf
  <2>4. PICK f \in {i, UNDEFINED} : f = tok[t].final
    BY <1>1, <1>3, <1>9
  <2>5. f # KEEP /\ f # RESERVED
    BY SizeAssumption, SMTT(30) DEF KEEP, RESERVED, UNDEFINED, Ids
  <2>6. active_id'[s] = f
    BY <1>0, <1>2, <2>4, <2>5 DEF TransactionFinish, SetActiveId
  <2>7. refcount'[s] = 0
    BY <1>0, <1>6, <2>1, SMTT(30)
  <2>8. ObjectAt(s)' = [st |-> IF f = UNDEFINED THEN "free" ELSE "valid", id |-> f, users |-> 0]
    BY <1>1, <1>7, <2>5, <2>6, <2>7, PlainSlotNext
  <2>9. CASE f = i
    <3>1. Becomes(s, a, i, 1, "valid", i, 0)
      BY <1>8, <2>3, <2>8, <2>9, NotAnId DEF Becomes
    <3>2. Allowed(s, a, i, 1, "valid", i, 0)
      BY DEF Allowed
    <3>. QED
      BY <3>1, <3>2, TableStep
  <2>10. CASE f = UNDEFINED
    <3>1. Becomes(s, a, i, 1, "free", UNDEFINED, 0)
      BY <1>8, <2>3, <2>8, <2>10 DEF Becomes
    <3>2. Allowed(s, a, i, 1, "free", UNDEFINED, 0)
      BY DEF Allowed
    <3>. QED
      BY <3>1, <3>2, TableStep
  <2>. QED
    BY <2>9, <2>10
<1>10. CASE tok[t].mode # "EXCLUSIVE"
  <2>1. active_id' = active_id /\ refcount'[s] = c - 1
    BY <1>0, <1>1, <1>6, <1>10 DEF TransactionFinish
  <2>2. CASE active_id[s] = RESERVED
    <3>1. PICK u \in Tasks : Reserves(u, s)
      BY <2>2 DEF IInv, HoldInv, ReservationOwned
    <3>2. u # t
      BY <1>10, <3>1 DEF Reserves
    <3>3. Reserves(u, s)' /\ StateOf(u)' = StateOf(u) /\ tok'[u] = tok[u]
      BY <3>1, <3>2 DEF Alone, Reserves, StateOf
    <3>4. /\ ObjectAt(s) = [st |-> StateOf(u), id |-> tok[u].id, users |-> c]
          /\ tok[u].op = "create" => tok[u].held
      BY <1>5, <3>1, ReservedSlot
    <3>5. ObjectAt(s)' = [st |-> StateOf(u), id |-> tok[u].id, users |-> c - 1]
      BY <2>1, <3>3, ReservedSlotNext
    <3>6. ASSUME StateOf(u) \in {"new", "exclusive"} PROVE c > 1
      <4>1. u \in Users(s) \ {t}
        BY <3>1, <3>2, <3>4, <3>6 DEF StateOf, Users, Reserves
      <4>2. /\ IsFiniteSet(Users(s) \ {t})
            /\ Cardinality(Users(s) \ {t}) = Cardinality(Users(s)) - 1
        BY <1>4, FS_RemoveElement
      <4>3. Cardinality(Users(s) \ {t}) # 0
        BY <4>1, <4>2, FS_EmptySet
      <4>. QED
        BY <1>4, <1>5, <4>2, <4>3, SMTT(30)
    <3>7. Becomes(s, StateOf(u), tok[u].id, c, StateOf(u), tok[u].id, c - 1)
      BY <1>8, <3>4, <3>5 DEF Becomes
    <3>8. Allowed(s, StateOf(u), tok[u].id, c, StateOf(u), tok[u].id, c - 1)
      BY <1>5, <3>6 DEF Allowed
    <3>. QED
      BY <3>7, <3>8, TableStep
  <2>3. CASE active_id[s] # RESERVED
    <3>1. PICK a : a = IF active_id[s] = UNDEFINED THEN "free" ELSE "valid"
      OBVIOUS
    <3>2. ObjectAt(s) = [st |-> a, id |-> active_id[s], users |-> c]
      BY <1>1, <1>5, <2>3, <3>1, PlainSlot DEF Shown
    <3>3. ObjectAt(s)' = [st |-> a, id |-> active_id[s], users |-> c - 1]
      BY <1>1, <1>7, <2>1, <2>3, <3>1, PlainSlotNext
    <3>4. Becomes(s, a, active_id[s], c, a, active_id[s], c - 1)
      BY <1>8, <3>2, <3>3 DEF Becomes
    <3>5. Allowed(s, a, active_id[s], c, a, active_id[s], c - 1)
      BY <1>5, <3>1 DEF Allowed
    <3>. QED
      BY <3>4, <3>5, TableStep
  <2>. QED
    BY <2>2, <2>3
<1>. QED
  BY <1>9, <1>10

\* Every step of the table is a step of ObjTable or changes no object.
LEMMA ObjectsNext ==
  ASSUME HasLock, IInv, CreateInv, [Next]_vars
  PROVE  Promise!NextObj \/ Objects' = Objects
<1>1. Views'
  BY IInvNext, CreateNext, ViewsNext
<1>2. ASSUME NEW t \in Tasks, Begin(t) \/ Step(t) \/ CancelTask(t)
      PROVE  Promise!NextObj \/ Objects' = Objects
  <2>1. Alone(t)
    BY <1>2, Steps DEF IInv
  <2>2. CASE ClaimSlot(t)
    BY <1>1, <2>1, <2>2, ClaimObjects
  <2>3. CASE ConvertGranted(t)
    BY <1>1, <2>1, <2>3, GrantObjects
  <2>4. CASE ConvertWaits(t)
    BY <1>1, <2>1, <2>4, WaitObjects
  <2>5. CASE ConvertGivesUp(t)
    BY <1>1, <2>1, <2>5, GiveUpObjects
  <2>6. CASE TransactionFinish(t)
    BY <1>1, <2>1, <2>6, FinishObjects
  <2>7. CASE ~ \/ ClaimSlot(t) \/ ConvertGranted(t) \/ ConvertWaits(t)
               \/ ConvertGivesUp(t) \/ TransactionFinish(t)
    BY <1>2, <2>7, QuietObjects
  <2>. QED
    BY <2>2, <2>3, <2>4, <2>5, <2>6, <2>7
<1>3. CASE ApplicationShutdown \/ UNCHANGED vars
  <2>1. UNCHANGED <<active_id, refcount, tok, pc>>
    BY <1>3 DEF ApplicationShutdown, vars, table
  <2>. QED
    BY <2>1 DEF Objects, ObjectAt, Makers, Exclusives, Waiters, Shown
<1>. QED
  BY <1>2, <1>3 DEF Next

\* The table of osapi-idmap.c implements ObjTable, for every number of tasks
\* and slots: whatever waits, gives up, is cancelled or wraps its serial
\* number, the objects are created whole, used while they are valid, and
\* changed or deleted by one task when nobody else uses them.
THEOREM ObjTableImplemented ==
  ASSUME HasLock
  PROVE  Spec => ImplementsObjTable
<1>1. Init => Promise!InitObj
  <2>. SUFFICES ASSUME Init PROVE Promise!InitObj
    OBVIOUS
  <2>1. IInv /\ CreateInv /\ \A t \in Tasks : pc[t] = "idle" /\ tok[t].op = "none"
    BY TypeInvInit, LockInvInit, HoldInit DEF IInv, Init, CreateInv, CreateOf, NullToken
  <2>2. ASSUME NEW s \in Slots PROVE ObjectAt(s) = [st |-> "free", id |-> -1, users |-> 0]
    <3>1. active_id[s] = UNDEFINED /\ refcount[s] = 0 /\ \A t \in Makers(s) : tok[t].held
      BY <2>1 DEF Init, Makers
    <3>. QED
      BY <2>1, <3>1, PlainShows, NotAnId, SlotFacts DEF PlainView, Shown
  <2>. QED
    BY <2>2, SlotFacts DEF Objects, Promise!InitObj, Promise!Free
<1>2. IInv /\ CreateInv /\ [Next]_vars => [Promise!NextObj]_Objects
  BY ObjectsNext
<1>. QED
  BY <1>1, <1>2, CreateInvHolds, PTL DEF Spec, ImplementsObjTable, Promise!SpecObj
=============================================================================
