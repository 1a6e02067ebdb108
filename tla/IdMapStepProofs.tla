-------------------------- MODULE IdMapStepProofs --------------------------
(****************************************************************************)
(* Type correctness and mutual exclusion of the object ID table of module  *)
(* IdMap, for every number of tasks, slots, serial numbers and names; the  *)
(* inductive invariant of the table, and the proof that every step         *)
(* preserves its part about the users and reservations of a slot.          *)
(****************************************************************************)
EXTENDS IdMap, FiniteSetTheorems, WellFoundedInduction, TLAPS

USE ZenonT(60)

-----------------------------------------------------------------------------
(* Arithmetic of serial numbers.                                           *)

LEMMA ModRange ==
  ASSUME NEW a \in Nat, NEW b \in Nat \ {0}
  PROVE  a % b \in 0 .. (b - 1)
  BY SMTT(30)

LEMMA ModSmall ==
  ASSUME NEW b \in Nat \ {0}, NEW a \in 0 .. (b - 1)
  PROVE  a % b = a
  BY SMTT(30)

\* OS_ObjectIdToArrayIndex maps every serial number to a slot.
LEMMA SlotOfSerial ==
  ASSUME NEW i \in Ids
  PROVE  i % MaxId \in Slots
  BY SizeAssumption, ModRange, SMTT(30) DEF Ids, Slots

\* The serial number after s can be encoded, and it belongs to the slot that
\* OS_ObjectIdFindNextFree looks at, also where it wraps.
LEMMA NextSerialSlot ==
  ASSUME NEW s \in Ids
  PROVE  /\ (s + 1) % MaxId \in Slots
         /\ NextSerial(s) \in Ids
         /\ NextSerial(s) % MaxId = (s + 1) % MaxId
<1>1. s + 1 \in Nat /\ MaxId \in Nat \ {0}
  BY SizeAssumption, SMTT(30) DEF Ids
<1>2. (s + 1) % MaxId \in Slots
  BY <1>1, ModRange DEF Slots
<1>3. ((s + 1) % MaxId) % MaxId = (s + 1) % MaxId
  BY <1>1, <1>2, ModSmall DEF Slots
<1>4. Slots \subseteq Ids
  BY SizeAssumption, SMTT(30) DEF Slots, Ids
<1>. QED
  BY <1>1, <1>2, <1>3, <1>4, SizeAssumption, SMTT(30) DEF NextSerial, Ids

\* A nonempty set of slots has a first one.
LEMMA FirstOfIn ==
  ASSUME NEW S \in SUBSET Slots, S # {}
  PROVE  FirstOf(S) \in S
<1>1. S \subseteq Nat
  BY SizeAssumption, SMTT(30) DEF Slots
<1>2. PICK s \in S : \A r \in S : ~ (<<r, s>> \in OpToRel(<, Nat))
  BY <1>1, WFMin, NatLessThanWellFounded
<1>3. ASSUME NEW r \in S PROVE s <= r
  <2>1. <<r, s>> \in Nat \X Nat /\ ~ (<<r, s>> \in {p \in Nat \X Nat : p[1] < p[2]})
    BY <1>1, <1>2 DEF OpToRel
  <2>. QED
    BY <1>1, <2>1, SMTT(30)
<1>. QED
  BY <1>3 DEF FirstOf

-----------------------------------------------------------------------------
(* Type correctness.                                                       *)

\* What a token k looks like while its task is at control point l.
TokenAt(l, k) ==
  /\ l = "lock" => k.op # "none"
  /\ l = "lock" /\ k.op = "byid" => k.id \in Ids /\ k.idx \in Slots
  /\ l = "search" => k.op \in {"create", "search"}
  /\ l \in {"iterate", "callback"} => k.op = "foreach"
  /\ l \in {"scan", "claim", "notify", "allocated", "building"}
       => k.id \in Ids /\ k.op = "create"
  /\ l \in {"claim", "notify", "convert", "wait", "allocated", "building", "using",
            "relock", "finish"} => k.idx \in Slots
  /\ l \in {"wait", "using"} => k.id \in Ids
  /\ l \in {"allocated", "building", "using"} => k.held
  /\ l # "idle" => k.mode \in LockModes
  /\ k.op = "create" => k.mode = "EXCLUSIVE"
  /\ k.mode # "EXCLUSIVE" => k.final = KEEP
  /\ l \in {"relock", "finish"} /\ k.mode = "EXCLUSIVE" => k.final \in {k.id, UNDEFINED}
  /\ k.held =>
       /\ k.id \in Ids /\ k.idx \in Slots /\ ~ k.own
       /\ l \in {"allocated", "building", "using", "relock", "finish", "cancelled"}
       /\ KeepsTableLock(k.mode) => l \in {"using", "finish"}
  /\ k.own =>
       /\ k.id \in Ids /\ k.idx \in Slots /\ k.mode = "EXCLUSIVE"
       /\ l \in {"wait", "convert", "cancelled"}

TokensOK == \A t \in Tasks : TokenAt(pc[t], tok[t])

TypeInv == TypeOK /\ TokensOK

\* The types of the part of the state that the table lock protects.
TableTypeOK ==
  /\ global_state \in {"INIT", "SHUTDOWN"}
  /\ active_id \in [Slots -> Ids \cup {UNDEFINED, RESERVED}]
  /\ refcount \in [Slots -> Nat]
  /\ name_entry \in [Slots -> Names \cup {NoName}]
  /\ last_id \in Ids
  /\ mutex \in Tasks \cup {NoTask}

LEMMA TypeInvInit == Init => TypeInv
  BY SizeAssumption, TasksAssumption, NamesAssumption, SMTT(30)
  DEF Init, TypeInv, TypeOK, TokensOK, TokenAt, Token, NullToken, PCs,
      LockModes, KeepsTableLock, Slots, Ids, UNDEFINED, RESERVED, KEEP

\* A step of task t moves it to l and leaves token k: only (l, k) has to be
\* looked at.
LEMMA TokenStep ==
  ASSUME TypeInv, TableTypeOK', NEW t \in Tasks, NEW l \in PCs, NEW k \in Token,
         TokenAt(l, k),
         pc' = [pc EXCEPT ![t] = l],
         tok' = [tok EXCEPT ![t] = k]
  PROVE  TypeInv'
<1>1. pc' \in [Tasks -> PCs] /\ tok' \in [Tasks -> Token]
  BY DEF TypeInv, TypeOK
<1>2. ASSUME NEW u \in Tasks PROVE TokenAt(pc'[u], tok'[u])
  BY DEF TypeInv, TypeOK, TokensOK
<1>. QED
  BY <1>1, <1>2 DEF TypeInv, TypeOK, TableTypeOK, TokensOK

\* The same for a step that leaves the token as it is.
LEMMA MoveStep ==
  ASSUME TypeInv, TableTypeOK', NEW t \in Tasks, NEW l \in PCs,
         TokenAt(l, tok[t]),
         pc' = [pc EXCEPT ![t] = l],
         tok' = tok
  PROVE  TypeInv'
<1>1. tok[t] \in Token /\ tok' = [tok EXCEPT ![t] = tok[t]]
  BY DEF TypeInv, TypeOK
<1>. QED
  BY <1>1, TokenStep

\* The same for a call that returns.
LEMMA ReturnStep ==
  ASSUME TypeInv, TableTypeOK', NEW t \in Tasks, Return(t)
  PROVE  TypeInv'
<1>1. NullToken \in Token /\ TokenAt("idle", NullToken) /\ "idle" \in PCs
  BY DEF NullToken, Token, TokenAt, PCs, LockModes, UNDEFINED, RESERVED, KEEP
<1>. QED
  BY <1>1, TokenStep DEF Return, GoTo

\* Every step keeps the types and the shapes of the tokens.
LEMMA TypeInvNext ==
  ASSUME TypeInv, [Next]_vars
  PROVE  TypeInv'
<1>. USE DEF table
<1>0. /\ TableTypeOK /\ pc \in [Tasks -> PCs] /\ tok \in [Tasks -> Token]
      /\ \A t \in Tasks : tok[t] \in Token /\ TokenAt(pc[t], tok[t])
  BY DEF TypeInv, TypeOK, TableTypeOK, TokensOK
<1>1. ASSUME NEW t \in Tasks, LockTable(t) PROVE TypeInv'
  <2>1. TableTypeOK'
    BY <1>0, <1>1 DEF LockTable, Lock_Global, TableTypeOK
  <2>. DEFINE l == CASE tok[t].op = "byid" -> "convert"
                     [] tok[t].op = "foreach" -> "iterate"
                     [] OTHER -> "search"
  <2>2. l \in PCs /\ TokenAt(l, tok[t])
    BY <1>0, <1>1 DEF LockTable, TokenAt, Token, PCs
  <2>. QED
    BY <1>1, <2>1, <2>2, MoveStep DEF LockTable, GoTo
<1>2. ASSUME NEW t \in Tasks, FindNextMatch(t) PROVE TypeInv'
  <2>. DEFINE found == Matching(tok[t].name)
              k == [tok[t] EXCEPT !.idx = FirstOf(found), !.id = active_id[FirstOf(found)]]
  <2>1. TableTypeOK'
    BY <1>0, <1>2 DEF FindNextMatch, Unlock_Global, TableTypeOK
  <2>2. CASE found = {}
    BY <1>2, <2>1, <2>2, ReturnStep DEF FindNextMatch
  <2>3. CASE found # {}
    <3>1. FirstOf(found) \in Slots
      BY <2>3, FirstOfIn DEF Matching
    <3>2. k \in Token
      BY <1>0, <3>1 DEF Token, TableTypeOK
    <3>3. TokenAt("convert", k) /\ "convert" \in PCs
      BY <1>0, <1>2, <3>1 DEF FindNextMatch, TokenAt, Token, PCs
    <3>4. tok' = [tok EXCEPT ![t] = k] /\ pc' = [pc EXCEPT ![t] = "convert"]
      BY <1>0, <1>2, <2>3 DEF FindNextMatch, GoTo
    <3>. QED
      BY <2>1, <3>2, <3>3, <3>4, TokenStep
  <2>. QED
    BY <2>2, <2>3
<1>3. ASSUME NEW t \in Tasks, CheckName(t) PROVE TypeInv'
  <2>. DEFINE k == [tok[t] EXCEPT !.id = last_id]
  <2>1. TableTypeOK'
    BY <1>0, <1>3 DEF CheckName, Unlock_Global, TableTypeOK
  <2>2. CASE tok[t].name # NoName /\ Matching(tok[t].name) # {}
    BY <1>3, <2>1, <2>2, ReturnStep DEF CheckName
  <2>3. CASE ~ (tok[t].name # NoName /\ Matching(tok[t].name) # {})
    <3>1. k \in Token /\ TokenAt("scan", k) /\ "scan" \in PCs
      BY <1>0, <1>3, SMTT(30)
      DEF CheckName, TokenAt, Token, PCs, TableTypeOK, LockModes
    <3>2. tok' = [tok EXCEPT ![t] = k] /\ pc' = [pc EXCEPT ![t] = "scan"]
      BY <1>0, <1>3, <2>3 DEF CheckName, GoTo
    <3>. QED
      BY <2>1, <3>1, <3>2, TokenStep
  <2>. QED
    BY <2>2, <2>3
<1>4. ASSUME NEW t \in Tasks, ScanSlot(t) PROVE TypeInv'
  <2>. DEFINE k == [tok[t] EXCEPT !.id = NextSerial(tok[t].id),
                                  !.idx = (tok[t].id + 1) % MaxId, !.count = @ + 1]
              l == IF active_id[(tok[t].id + 1) % MaxId] = UNDEFINED THEN "claim" ELSE "scan"
  <2>1. TableTypeOK'
    BY <1>0, <1>4 DEF ScanSlot, TableTypeOK
  <2>2. tok[t].id \in Ids
    BY <1>0, <1>4 DEF ScanSlot, TokenAt
  <2>3. k \in Token /\ TokenAt(l, k) /\ l \in PCs
    BY <1>0, <1>4, <2>2, NextSerialSlot, SMTT(30)
    DEF ScanSlot, TokenAt, Token, PCs, LockModes
  <2>4. tok' = [tok EXCEPT ![t] = k] /\ pc' = [pc EXCEPT ![t] = l]
    BY <1>0, <1>4 DEF ScanSlot, GoTo
  <2>. QED
    BY <2>1, <2>3, <2>4, TokenStep
<1>5. ASSUME NEW t \in Tasks, ScanFails(t) PROVE TypeInv'
  <2>1. TableTypeOK'
    BY <1>0, <1>5 DEF ScanFails, Unlock_Global, TableTypeOK
  <2>. QED
    BY <1>5, <2>1, ReturnStep DEF ScanFails
<1>6. ASSUME NEW t \in Tasks, ClaimSlot(t) PROVE TypeInv'
  <2>. DEFINE k == [tok[t] EXCEPT !.count = 0]
  <2>1. TableTypeOK'
    BY <1>0, <1>6 DEF ClaimSlot, TableTypeOK, TokenAt
  <2>2. k \in Token
    BY <1>0 DEF Token
  <2>3. TokenAt("notify", k) /\ "notify" \in PCs
    BY <1>0, <1>6 DEF ClaimSlot, TokenAt, Token, PCs
  <2>4. tok' = [tok EXCEPT ![t] = k] /\ pc' = [pc EXCEPT ![t] = "notify"]
    BY <1>0, <1>6 DEF ClaimSlot, GoTo
  <2>. QED
    BY <2>1, <2>2, <2>3, <2>4, TokenStep
<1>7. ASSUME NEW t \in Tasks, NotifyAllocated(t) PROVE TypeInv'
  <2>1. TableTypeOK'
    BY <1>0, <1>7 DEF NotifyAllocated, TableTypeOK
  <2>2. TokenAt("convert", tok[t]) /\ "convert" \in PCs
    BY <1>0, <1>7 DEF NotifyAllocated, TokenAt, PCs
  <2>. QED
    BY <1>7, <2>1, <2>2, MoveStep DEF NotifyAllocated, GoTo
<1>8. ASSUME NEW t \in Tasks, NotifyRejected(t) PROVE TypeInv'
  <2>. DEFINE k == [tok[t] EXCEPT !.final = UNDEFINED]
  <2>1. TableTypeOK'
    BY <1>0, <1>8 DEF NotifyRejected, TableTypeOK
  <2>2. k \in Token /\ TokenAt("relock", k) /\ "relock" \in PCs
    BY <1>0, <1>8, SMTT(30) DEF NotifyRejected, TokenAt, Token, PCs, LockModes
  <2>3. tok' = [tok EXCEPT ![t] = k] /\ pc' = [pc EXCEPT ![t] = "relock"]
    BY <1>0, <1>8 DEF NotifyRejected, GoTo
  <2>. QED
    BY <2>1, <2>2, <2>3, TokenStep
<1>9. ASSUME NEW t \in Tasks, pc[t] = "convert", ConvertError(t), TableTypeOK'
      PROVE  TypeInv'
  <2>. DEFINE k == [tok[t] EXCEPT !.own = FALSE, !.final = UNDEFINED]
  <2>1. CASE tok[t].op = "create"
    <3>1. k \in Token
      BY <1>0 DEF Token
    <3>2. TokenAt("relock", k) /\ "relock" \in PCs
      BY <1>0, <1>9, <2>1 DEF TokenAt, Token, PCs
    <3>3. tok' = [tok EXCEPT ![t] = k] /\ pc' = [pc EXCEPT ![t] = "relock"]
      BY <1>0, <1>9, <2>1 DEF ConvertError, GoTo
    <3>. QED
      BY <1>9, <3>1, <3>2, <3>3, TokenStep
  <2>2. CASE tok[t].op # "create"
    <3>1. Return(t)
      BY <1>9, <2>2 DEF ConvertError
    <3>. QED
      BY <1>9, <3>1, ReturnStep
  <2>. QED
    BY <2>1, <2>2
<1>10. ASSUME NEW t \in Tasks, ConvertInvalid(t) PROVE TypeInv'
  <2>1. TableTypeOK'
    BY <1>0, <1>10 DEF ConvertInvalid, ConvertError, Unlock_Global, TableTypeOK
  <2>. QED
    BY <1>9, <1>10, <2>1 DEF ConvertInvalid
<1>11. ASSUME NEW t \in Tasks, ConvertGranted(t) PROVE TypeInv'
  <2>. DEFINE k == [tok[t] EXCEPT !.own = FALSE, !.held = TRUE, !.count = 0]
              l == IF tok[t].op = "create" THEN "allocated" ELSE "using"
  <2>1. TableTypeOK'
    BY <1>0, <1>11, SMTT(30)
    DEF ConvertGranted, SetActiveId, Unlock_Global, TableTypeOK, TokenAt
  <2>2. k \in Token /\ TokenAt(l, k) /\ l \in PCs
    BY <1>0, <1>11, SMTT(30)
    DEF ConvertGranted, TokenAt, Token, PCs, LockModes, KeepsTableLock
  <2>3. tok' = [tok EXCEPT ![t] = k] /\ pc' = [pc EXCEPT ![t] = l]
    BY <1>0, <1>11 DEF ConvertGranted, GoTo
  <2>. QED
    BY <2>1, <2>2, <2>3, TokenStep
<1>12. ASSUME NEW t \in Tasks, ConvertMismatch(t) PROVE TypeInv'
  <2>1. TableTypeOK'
    BY <1>0, <1>12
    DEF ConvertMismatch, ConvertError, SetActiveId, Unlock_Global, TableTypeOK
  <2>. QED
    BY <1>9, <1>12, <2>1 DEF ConvertMismatch
<1>13. ASSUME NEW t \in Tasks, ConvertWaits(t) PROVE TypeInv'
  <2>1. TableTypeOK'
    BY <1>0, <1>13 DEF ConvertWaits, SetActiveId, Unlock_Global, TableTypeOK
  <2>2. PICK o \in BOOLEAN : o = Overwrites(t) /\ (o => tok[t].mode = "EXCLUSIVE")
    BY <1>0 DEF Overwrites, IdMatches, Token
  <2>. DEFINE k == [tok[t] EXCEPT !.count = @ + 1, !.own = o]
  <2>3. k \in Token
    <3>1. tok[t].count + 1 \in Nat
      BY <1>0, SMTT(30) DEF Token
    <3>. QED
      BY <1>0, <2>2, <3>1 DEF Token
  <2>4. TokenAt("wait", k) /\ "wait" \in PCs
    BY <1>0, <1>13, <2>2
    DEF ConvertWaits, Contention, TokenAt, Token, PCs
  <2>5. tok' = [tok EXCEPT ![t] = k] /\ pc' = [pc EXCEPT ![t] = "wait"]
    BY <1>0, <1>13, <2>2 DEF ConvertWaits, GoTo
  <2>. QED
    BY <2>1, <2>3, <2>4, <2>5, TokenStep
<1>14. ASSUME NEW t \in Tasks, ConvertGivesUp(t) PROVE TypeInv'
  <2>1. TableTypeOK'
    BY <1>0, <1>14
    DEF ConvertGivesUp, Contention, ConvertError, SetActiveId, Unlock_Global, TableTypeOK
  <2>. QED
    BY <1>9, <1>14, <2>1 DEF ConvertGivesUp, Contention
<1>15. ASSUME NEW t \in Tasks, Reacquire(t) PROVE TypeInv'
  <2>1. TableTypeOK'
    BY <1>0, <1>15 DEF Reacquire, Lock_Global, TableTypeOK
  <2>2. TokenAt("convert", tok[t]) /\ "convert" \in PCs
    BY <1>0, <1>15 DEF Reacquire, TokenAt, PCs
  <2>. QED
    BY <1>15, <2>1, <2>2, MoveStep DEF Reacquire, GoTo
<1>16. ASSUME NEW t \in Tasks, ObjectInit(t) PROVE TypeInv'
  <2>1. TableTypeOK'
    BY <1>0, <1>16 DEF ObjectInit, TableTypeOK, Token
  <2>2. TokenAt("building", tok[t]) /\ "building" \in PCs
    BY <1>0, <1>16 DEF ObjectInit, TokenAt, PCs
  <2>. QED
    BY <1>16, <2>1, <2>2, MoveStep DEF ObjectInit, GoTo
<1>17. ASSUME NEW t \in Tasks, FinalizeNew(t) PROVE TypeInv'
  <2>1. PICK final \in {tok[t].id, UNDEFINED} : tok' = [tok EXCEPT ![t].final = final]
    BY <1>17 DEF FinalizeNew
  <2>. DEFINE k == [tok[t] EXCEPT !.final = final]
  <2>2. TableTypeOK'
    BY <1>0, <1>17 DEF FinalizeNew, TableTypeOK
  <2>3. k \in Token /\ TokenAt("relock", k) /\ "relock" \in PCs
    BY <1>0, <1>17, SMTT(30)
    DEF FinalizeNew, TokenAt, Token, PCs, LockModes, KeepsTableLock
  <2>4. tok' = [tok EXCEPT ![t] = k] /\ pc' = [pc EXCEPT ![t] = "relock"]
    BY <1>0, <1>17, <2>1 DEF FinalizeNew, GoTo
  <2>. QED
    BY <2>2, <2>3, <2>4, TokenStep
<1>18. ASSUME NEW t \in Tasks, EndUse(t) PROVE TypeInv'
  <2>. DEFINE l == IF KeepsTableLock(tok[t].mode) THEN "finish" ELSE "relock"
  <2>1. TableTypeOK'
    BY <1>0, <1>18 DEF EndUse, TableTypeOK
  <2>2. CASE tok[t].mode = "EXCLUSIVE"
    <3>1. PICK final \in {tok[t].id, UNDEFINED} : tok' = [tok EXCEPT ![t].final = final]
      BY <1>18, <2>2 DEF EndUse
    <3>. DEFINE k == [tok[t] EXCEPT !.final = final]
    <3>2. k \in Token /\ TokenAt(l, k) /\ l \in PCs
      BY <1>0, <1>18, <2>2, SMTT(30)
      DEF EndUse, TokenAt, Token, PCs, LockModes, KeepsTableLock
    <3>3. tok' = [tok EXCEPT ![t] = k] /\ pc' = [pc EXCEPT ![t] = l]
      BY <1>0, <1>18, <3>1 DEF EndUse, GoTo
    <3>. QED
      BY <2>1, <3>2, <3>3, TokenStep
  <2>3. CASE tok[t].mode # "EXCLUSIVE"
    <3>1. TokenAt(l, tok[t]) /\ l \in PCs
      BY <1>0, <1>18, <2>3 DEF EndUse, TokenAt, PCs
    <3>. QED
      BY <1>18, <2>1, <2>3, <3>1, MoveStep DEF EndUse, GoTo
  <2>. QED
    BY <2>2, <2>3
<1>19. ASSUME NEW t \in Tasks, RelockTable(t) PROVE TypeInv'
  <2>1. TableTypeOK'
    BY <1>0, <1>19 DEF RelockTable, Lock_Global, TableTypeOK
  <2>2. TokenAt("finish", tok[t]) /\ "finish" \in PCs
    BY <1>0, <1>19 DEF RelockTable, TokenAt, PCs
  <2>. QED
    BY <1>19, <2>1, <2>2, MoveStep DEF RelockTable, GoTo
<1>20. ASSUME NEW t \in Tasks, TransactionFinish(t) PROVE TypeInv'
  <2>1. TableTypeOK'
    <3>1. active_id' \in [Slots -> Ids \cup {UNDEFINED, RESERVED}]
      BY <1>0, <1>20 DEF TransactionFinish, SetActiveId, TableTypeOK, Token
    <3>2. refcount' \in [Slots -> Nat]
      BY <1>0, <1>20, SMTT(30) DEF TransactionFinish, TableTypeOK, TokenAt
    <3>. QED
      BY <1>0, <1>20, <3>1, <3>2
      DEF TransactionFinish, Unlock_Global, TableTypeOK
  <2>. QED
    BY <1>20, <2>1, ReturnStep DEF TransactionFinish
<1>21. ASSUME NEW t \in Tasks, IterateNext(t) PROVE TypeInv'
  <2>. DEFINE rest == {s \in Slots : s > tok[t].idx /\ active_id[s] \in Ids}
              k == [tok[t] EXCEPT !.idx = FirstOf(rest), !.id = active_id[FirstOf(rest)]]
  <2>1. TableTypeOK'
    BY <1>0, <1>21 DEF IterateNext, Unlock_Global, TableTypeOK
  <2>2. CASE rest = {}
    BY <1>21, <2>1, <2>2, ReturnStep DEF IterateNext
  <2>3. CASE rest # {}
    <3>1. FirstOf(rest) \in Slots
      BY <2>3, FirstOfIn
    <3>2. k \in Token
      BY <1>0, <3>1 DEF Token, TableTypeOK
    <3>3. TokenAt("callback", k) /\ "callback" \in PCs
      BY <1>0, <1>21, <3>1 DEF IterateNext, TokenAt, Token, PCs
    <3>4. tok' = [tok EXCEPT ![t] = k] /\ pc' = [pc EXCEPT ![t] = "callback"]
      BY <1>0, <1>21, <2>3 DEF IterateNext, GoTo
    <3>. QED
      BY <2>1, <3>2, <3>3, <3>4, TokenStep
  <2>. QED
    BY <2>2, <2>3
<1>22. ASSUME NEW t \in Tasks, IterateCallback(t) PROVE TypeInv'
  <2>1. TableTypeOK'
    BY <1>0, <1>22 DEF IterateCallback, TableTypeOK
  <2>2. TokenAt("lock", tok[t]) /\ "lock" \in PCs
    BY <1>0, <1>22 DEF IterateCallback, TokenAt, PCs
  <2>. QED
    BY <1>22, <2>1, <2>2, MoveStep DEF IterateCallback, GoTo
<1>23. ASSUME NEW t \in Tasks, CancelTask(t) PROVE TypeInv'
  <2>1. TableTypeOK'
    BY <1>0, <1>23 DEF CancelTask, TableTypeOK
  <2>2. TokenAt("cancelled", tok[t]) /\ "cancelled" \in PCs
    BY <1>0, <1>23 DEF CancelTask, TokenAt, PCs, KeepsTableLock
  <2>. QED
    BY <1>23, <2>1, <2>2, MoveStep DEF CancelTask, GoTo
<1>24. ASSUME NEW t \in Tasks, NEW k, k \in Token, TokenAt("lock", k),
              TransactionInit(t, k)
       PROVE  TypeInv'
  <2>1. TableTypeOK'
    BY <1>0, <1>24 DEF TransactionInit, TableTypeOK
  <2>. QED
    BY <1>24, <2>1, TokenStep DEF TransactionInit, GoTo, PCs
<1>25. ASSUME NEW t \in Tasks, AllocateNew(t) PROVE TypeInv'
  <2>1. PICK n \in Names \cup {NoName} :
          TransactionInit(t, [NullToken EXCEPT !.op = "create", !.mode = "EXCLUSIVE",
                                               !.name = n])
    BY <1>25 DEF AllocateNew
  <2>. DEFINE k == [NullToken EXCEPT !.op = "create", !.mode = "EXCLUSIVE", !.name = n]
  <2>2. k \in Token /\ TokenAt("lock", k)
    BY DEF NullToken, Token, TokenAt, LockModes, UNDEFINED, RESERVED, KEEP
  <2>. QED
    BY <1>24, <2>1, <2>2
<1>26. ASSUME NEW t \in Tasks, GetById(t) PROVE TypeInv'
  <2>1. PICK m \in Modes, i \in Ids :
          TransactionInit(t, [NullToken EXCEPT !.op = "byid", !.mode = m,
                                               !.id = i, !.idx = i % MaxId])
    BY <1>26 DEF GetById
  <2>. DEFINE k == [NullToken EXCEPT !.op = "byid", !.mode = m, !.id = i, !.idx = i % MaxId]
  <2>2. m \in LockModes /\ i % MaxId \in Slots
    BY ModesAssumption, SlotOfSerial
  <2>3. k \in Token /\ TokenAt("lock", k)
    BY <2>2 DEF NullToken, Token, TokenAt, LockModes, UNDEFINED, RESERVED, KEEP
  <2>. QED
    BY <1>24, <2>1, <2>3
<1>27. ASSUME NEW t \in Tasks, GetBySearch(t) PROVE TypeInv'
  <2>1. PICK m \in SearchModes, n \in Names :
          TransactionInit(t, [NullToken EXCEPT !.op = "search", !.mode = m, !.name = n])
    BY <1>27 DEF GetBySearch
  <2>. DEFINE k == [NullToken EXCEPT !.op = "search", !.mode = m, !.name = n]
  <2>2. m \in LockModes
    BY ModesAssumption
  <2>3. k \in Token /\ TokenAt("lock", k)
    BY <2>2 DEF NullToken, Token, TokenAt, LockModes, UNDEFINED, RESERVED, KEEP
  <2>. QED
    BY <1>24, <2>1, <2>3
<1>28. ASSUME NEW t \in Tasks, ForEachObject(t) PROVE TypeInv'
  <2>. DEFINE k == [NullToken EXCEPT !.op = "foreach", !.mode = "GLOBAL"]
  <2>1. k \in Token /\ TokenAt("lock", k)
    BY DEF NullToken, Token, TokenAt, LockModes, UNDEFINED, RESERVED, KEEP
  <2>. QED
    BY <1>24, <1>28, <2>1 DEF ForEachObject
<1>29. CASE ApplicationShutdown
  BY <1>29 DEF ApplicationShutdown, TypeInv, TypeOK, TokensOK
<1>30. CASE UNCHANGED vars
  BY <1>30 DEF vars, TypeInv, TypeOK, TokensOK
<1>. QED
  BY <1>1, <1>2, <1>3, <1>4, <1>5, <1>6, <1>7, <1>8, <1>10, <1>11, <1>12,
     <1>13, <1>14, <1>15, <1>16, <1>17, <1>18, <1>19, <1>20, <1>21, <1>22,
     <1>23, <1>25, <1>26, <1>27, <1>28, <1>29, <1>30
  DEF Next, Begin, Step

\* The types of the object table hold in every reachable state, for every
\* number of tasks, slots, serial numbers and names, with and without a lock.
THEOREM TypeCorrect == Spec => []TypeOK
<1>1. TypeInv => TypeOK
  BY DEF TypeInv
<1>. QED
  BY <1>1, TypeInvInit, TypeInvNext, PTL DEF Spec

-----------------------------------------------------------------------------
(* The table lock.                                                         *)

\* A task at control point l with token k holds the table lock.  The last
\* case is a creating call that locks the table again though it never gave
\* it back: it waits for itself.
Owns(l, k) ==
  \/ l \in {"search", "scan", "claim", "notify", "convert", "finish", "iterate"}
  \/ l = "using" /\ KeepsTableLock(k.mode)
  \/ l = "relock" /\ ~ k.held

LockInv == \A t \in Tasks : Owns(pc[t], tok[t]) => mutex = t

LEMMA LockInvInit == Init => LockInv
  BY DEF Init, LockInv, Owns

\* Only task t takes a step.
Alone(t) == \A u \in Tasks \ {t} : pc'[u] = pc[u] /\ tok'[u] = tok[u]

\* Each step of a task leaves the lock alone, takes it when it is free or
\* gives back its own.
LockStep(t) ==
  \/ UNCHANGED mutex /\ (Owns(pc'[t], tok'[t]) => Owns(pc[t], tok[t]))
  \/ mutex = NoTask /\ mutex' = t
  \/ Owns(pc[t], tok[t]) /\ ~ Owns(pc'[t], tok'[t]) /\ mutex' = NoTask

LEMMA LockInvStep ==
  ASSUME LockInv, NEW t \in Tasks, Alone(t), LockStep(t)
  PROVE  LockInv'
  BY TasksAssumption DEF LockInv, Alone, LockStep

LEMMA Steps ==
  ASSUME TypeInv, HasLock, NEW t \in Tasks, Begin(t) \/ Step(t) \/ CancelTask(t)
  PROVE  Alone(t) /\ LockStep(t)
<1>. USE DEF TypeInv, TypeOK, TokensOK, Alone, LockStep, Owns, table
<1>1. CASE Begin(t)
  BY <1>1
  DEF Begin, AllocateNew, GetById, GetBySearch, ForEachObject, TransactionInit,
      GoTo
<1>2. CASE LockTable(t)
  BY <1>2 DEF LockTable, Lock_Global, GoTo
<1>3. CASE FindNextMatch(t)
  BY <1>3 DEF FindNextMatch, Unlock_Global, Return, GoTo
<1>4. CASE CheckName(t)
  BY <1>4 DEF CheckName, Unlock_Global, Return, GoTo
<1>5. CASE ScanSlot(t) \/ ScanFails(t) \/ ClaimSlot(t)
  BY <1>5 DEF ScanSlot, ScanFails, ClaimSlot, Unlock_Global, Return, GoTo
<1>6. CASE NotifyAllocated(t) \/ NotifyRejected(t)
  BY <1>6 DEF NotifyAllocated, NotifyRejected, GoTo
<1>7. ASSUME pc[t] = "convert", ConvertError(t) PROVE Alone(t) /\ LockStep(t)
  BY <1>7 DEF ConvertError, Unlock_Global, Return, GoTo
<1>8. CASE ConvertInvalid(t) \/ ConvertMismatch(t) \/ ConvertGivesUp(t)
  BY <1>7, <1>8 DEF ConvertInvalid, ConvertMismatch, ConvertGivesUp, Contention
<1>9. CASE ConvertGranted(t)
  BY <1>9, SMTT(30) DEF ConvertGranted, Unlock_Global, GoTo, KeepsTableLock
<1>10. CASE ConvertWaits(t)
  BY <1>10 DEF ConvertWaits, Contention, Unlock_Global, GoTo
<1>11. CASE Reacquire(t)
  BY <1>11 DEF Reacquire, Lock_Global, GoTo
<1>12. CASE ObjectInit(t) \/ FinalizeNew(t)
  BY <1>12, SMTT(30) DEF ObjectInit, FinalizeNew, GoTo, TokenAt, Token
<1>13. CASE EndUse(t)
  BY <1>13, SMTT(30) DEF EndUse, GoTo, TokenAt, Token, KeepsTableLock
<1>14. CASE RelockTable(t)
  BY <1>14 DEF RelockTable, Lock_Global, GoTo
<1>15. CASE TransactionFinish(t)
  BY <1>15 DEF TransactionFinish, Unlock_Global, Return, GoTo
<1>16. CASE IterateNext(t) \/ IterateCallback(t)
  BY <1>16 DEF IterateNext, IterateCallback, Unlock_Global, Return, GoTo
<1>17. CASE CancelTask(t)
  BY <1>17 DEF CancelTask, GoTo
<1>. QED
  BY <1>1, <1>2, <1>3, <1>4, <1>5, <1>6, <1>8, <1>9, <1>10, <1>11, <1>12,
     <1>13, <1>14, <1>15, <1>16, <1>17
  DEF Step

LEMMA LockInvNext ==
  ASSUME HasLock, TypeInv, LockInv, [Next]_vars
  PROVE  LockInv'
<1>1. ASSUME NEW t \in Tasks, Begin(t) \/ Step(t) \/ CancelTask(t) PROVE LockInv'
  BY <1>1, Steps, LockInvStep
<1>2. CASE ApplicationShutdown
  BY <1>2 DEF ApplicationShutdown, LockInv
<1>3. CASE UNCHANGED vars
  BY <1>3 DEF vars, LockInv
<1>. QED
  BY <1>1, <1>2, <1>3 DEF Next

\* For every object type that has an entry in OS_impl_objtype_lock_table, at
\* most one task is between OS_Lock_Global and OS_Unlock_Global of its table.
THEOREM MutualExclusion ==
  ASSUME HasLock
  PROVE  Spec => []TableOwnedByOne
<1>1. LockInv => TableOwnedByOne
  BY DEF LockInv, Owns, TableOwnedByOne, InTable
<1>2. Spec => [](TypeInv /\ LockInv)
  BY TypeInvInit, TypeInvNext, LockInvInit, LockInvNext, PTL DEF Spec
<1>. QED
  BY <1>1, <1>2, PTL

-----------------------------------------------------------------------------
(* Users and reservations of a slot.                                       *)

\* A task that reserved a slot restores the id that the remaining REFCOUNT
\* users of the slot looked up.
SameId ==
  \A t, u \in Tasks :
    Reserves(t, tok[u].idx) /\ tok[u].held /\ tok[u].mode = "REFCOUNT"
      => tok[t].id = tok[u].id

HoldInv == /\ ReservationOwned /\ HeldObjectStays /\ SlotOfId
           /\ SameId /\ ExclusiveAlone

\* The slot of a token is the slot of its id; TransactionFinish is only
\* reached by a transaction that was granted.
LocalAt(l, k) ==
  /\ \/ k.held \/ k.own
     \/ l \in {"claim", "notify", "convert", "wait"}
     \/ l = "lock" /\ k.op = "byid"
     => (k.id \in Ids => k.idx = k.id % MaxId)
  /\ l = "finish" => k.held

AuxInv ==
  \A t \in Tasks : /\ LocalAt(pc[t], tok[t])
                   /\ pc[t] = "claim" => active_id[tok[t].idx] = UNDEFINED

\* The inductive invariant.
IInv == TypeInv /\ LockInv /\ AuxInv /\ HoldInv /\ RefcountExact

LEMMA NotAnId == UNDEFINED \notin Ids /\ RESERVED \notin Ids /\ UNDEFINED # RESERVED
  BY SizeAssumption, SMTT(30) DEF UNDEFINED, RESERVED, Ids

LEMMA HoldInit == Init => AuxInv /\ HoldInv /\ RefcountExact
<1>. SUFFICES ASSUME Init PROVE AuxInv /\ HoldInv /\ RefcountExact
  OBVIOUS
<1>1. \A t \in Tasks : pc[t] = "idle" /\ tok[t] = NullToken
  BY DEF Init
<1>2. \A t \in Tasks : ~ tok[t].held /\ ~ tok[t].own
  BY <1>1, SMTT(30) DEF NullToken
<1>3. AuxInv
  BY <1>1, <1>2 DEF AuxInv, LocalAt
<1>4. HoldInv
  BY <1>2, NotAnId DEF Init, HoldInv, ReservationOwned, HeldObjectStays, SlotOfId, SameId,
     ExclusiveAlone, Reserves
<1>5. ASSUME NEW s \in Slots PROVE refcount[s] = Cardinality(Users(s))
  <2>1. Users(s) = {}
    BY <1>2 DEF Users
  <2>. QED
    BY <2>1, FS_EmptySet DEF Init
<1>. QED
  BY <1>3, <1>4, <1>5 DEF RefcountExact

\* Task u holds or reserves after the step what it did before.
Kept(u) ==
  /\ tok'[u].held = tok[u].held /\ tok'[u].own = tok[u].own
  /\ tok[u].held \/ tok[u].own =>
       tok'[u].mode = tok[u].mode /\ tok'[u].id = tok[u].id /\ tok'[u].idx = tok[u].idx

LEMMA QuietStep ==
  ASSUME HoldInv, RefcountExact, \A u \in Tasks : Kept(u),
         UNCHANGED <<active_id, refcount>>
  PROVE  HoldInv' /\ RefcountExact'
<1>1. \A u \in Tasks, s \in Slots : Reserves(u, s)' <=> Reserves(u, s)
  BY DEF Reserves, Kept
<1>2. ReservationOwned'
  BY <1>1 DEF HoldInv, ReservationOwned
<1>3. HeldObjectStays'
  BY DEF HoldInv, HeldObjectStays, Kept
<1>4. SlotOfId'
  BY DEF HoldInv, SlotOfId
<1>5. SameId'
  BY SMTT(30) DEF HoldInv, SameId, Reserves, Kept
<1>6. ExclusiveAlone'
  BY SMTT(30) DEF HoldInv, ExclusiveAlone, Kept
<1>7. ASSUME NEW s \in Slots PROVE Users(s)' = Users(s)
  BY DEF Users, Kept
<1>. QED
  BY <1>2, <1>3, <1>4, <1>5, <1>6, <1>7 DEF HoldInv, RefcountExact

LEMMA UsersFinite ==
  ASSUME NEW s
  PROVE  IsFiniteSet(Users(s)) /\ Cardinality(Users(s)) \in Nat
  BY TasksAssumption, FS_Subset, FS_CardinalityType DEF Users

\* A task that becomes a user of slot s, and one that stops to be one.
LEMMA OneMoreUser ==
  ASSUME RefcountExact, NEW t \in Tasks, NEW s \in Slots, refcount \in [Slots -> Nat],
         \A u \in Tasks \ {t} : tok'[u] = tok[u],
         ~ tok[t].held, tok'[t].held, tok'[t].idx = s,
         refcount' = [refcount EXCEPT ![s] = @ + 1]
  PROVE  RefcountExact'
<1>1. Users(s)' = Users(s) \cup {t} /\ t \notin Users(s)
  BY SMTT(30) DEF Users
<1>2. \A r \in Slots \ {s} : Users(r)' = Users(r)
  BY DEF Users
<1>3. Cardinality(Users(s) \cup {t}) = Cardinality(Users(s)) + 1
  BY <1>1, UsersFinite, FS_AddElement
<1>. QED
  BY <1>1, <1>2, <1>3 DEF RefcountExact

LEMMA OneLessUser ==
  ASSUME RefcountExact, NEW t \in Tasks, NEW s \in Slots, refcount \in [Slots -> Nat],
         \A u \in Tasks \ {t} : tok'[u] = tok[u],
         tok[t].held, tok[t].idx = s, ~ tok'[t].held,
         refcount' = [refcount EXCEPT ![s] = IF @ > 0 THEN @ - 1 ELSE @]
  PROVE  RefcountExact'
<1>1. Users(s)' = Users(s) \ {t} /\ t \in Users(s)
  BY SMTT(30) DEF Users
<1>2. \A r \in Slots \ {s} : Users(r)' = Users(r)
  BY DEF Users
<1>3. Cardinality(Users(s) \ {t}) = Cardinality(Users(s)) - 1
  BY <1>1, UsersFinite, FS_RemoveElement
<1>4. Cardinality(Users(s)) \in Nat /\ Cardinality(Users(s)) # 0
  BY <1>1, UsersFinite, FS_EmptySet
<1>. QED
  BY <1>1, <1>2, <1>3, <1>4, SMTT(30) DEF RefcountExact

\* OS_ObjectIdFindNextFree takes a free slot: nobody uses or reserves it.
LEMMA ClaimStep ==
  ASSUME IInv, NEW t \in Tasks, Alone(t), ClaimSlot(t)
  PROVE  HoldInv' /\ RefcountExact'
<1>0. PICK s \in Slots : s = tok[t].idx
  BY DEF IInv, TypeInv, TokensOK, TokenAt, ClaimSlot
<1>1. /\ active_id[s] = UNDEFINED /\ tok[t].id \in Ids
      /\ tok[t].id % MaxId = s /\ ~ tok[t].held /\ ~ tok[t].own
      /\ active_id \in [Slots -> Ids \cup {UNDEFINED, RESERVED}]
      /\ refcount \in [Slots -> Nat]
  BY <1>0 DEF IInv, TypeInv, TypeOK, TokensOK, TokenAt, AuxInv, LocalAt, ClaimSlot
<1>2. /\ active_id' = [active_id EXCEPT ![s] = tok[t].id]
      /\ refcount' = [refcount EXCEPT ![s] = 0]
  BY <1>0 DEF ClaimSlot
<1>3. \A u \in Tasks : Kept(u)
  BY SMTT(30) DEF IInv, TypeInv, TypeOK, Token, Alone, Kept, ClaimSlot
<1>4. \A u \in Tasks : ~ Reserves(u, s)
  BY <1>1, NotAnId DEF IInv, HoldInv, ReservationOwned
<1>5. \A u \in Tasks : ~ (tok[u].held /\ tok[u].idx = s)
  BY <1>1, NotAnId, SMTT(30)
  DEF IInv, TypeInv, TokensOK, TokenAt, HoldInv, HeldObjectStays
<1>6. \A u \in Tasks, r \in Slots : Reserves(u, r)' <=> Reserves(u, r)
  BY <1>3 DEF Reserves, Kept
<1>7. ReservationOwned'
  BY <1>1, <1>2, <1>4, <1>6, NotAnId DEF IInv, HoldInv, ReservationOwned
<1>8. HeldObjectStays'
  BY <1>1, <1>2, <1>3, <1>5, SMTT(30)
  DEF IInv, TypeInv, TokensOK, TokenAt, HoldInv, HeldObjectStays, Kept
<1>9. SlotOfId'
  BY <1>1, <1>2 DEF IInv, HoldInv, SlotOfId
<1>10. SameId' /\ ExclusiveAlone'
  BY <1>3, SMTT(30) DEF IInv, HoldInv, SameId, ExclusiveAlone, Reserves, Kept
<1>11. Users(s)' = {} /\ \A r \in Slots : Users(r)' = Users(r)
  BY <1>3, <1>5 DEF Users, Kept
<1>12. RefcountExact'
  BY <1>1, <1>2, <1>11, FS_EmptySet DEF IInv, RefcountExact
<1>. QED
  BY <1>7, <1>8, <1>9, <1>10, <1>12 DEF HoldInv

\* While task t owns the table, no other task holds an object with the table
\* locked.
LEMMA OthersUnlocked ==
  ASSUME IInv, NEW t \in Tasks, Owns(pc[t], tok[t]), NEW u \in Tasks \ {t}, tok[u].held
  PROVE  tok[u].mode \in {"REFCOUNT", "EXCLUSIVE"}
<1>1. ~ Owns(pc[u], tok[u])
  BY DEF IInv, LockInv
<1>2. tok[u].mode \in LockModes
  BY DEF IInv, TypeInv, TokensOK, TokenAt
<1>. QED
  BY <1>1, <1>2 DEF IInv, TypeInv, TokensOK, TokenAt, Owns, KeepsTableLock, LockModes

\* OS_ObjectIdConvertToken grants a lock mode.
LEMMA GrantStep ==
  ASSUME IInv, NEW t \in Tasks, Alone(t), ConvertGranted(t)
  PROVE  HoldInv' /\ RefcountExact'
<1>0. PICK s \in Slots : s = tok[t].idx
  BY DEF IInv, TypeInv, TokensOK, TokenAt, ConvertGranted
<1>1. /\ tok[t].id \in Ids /\ tok[t].mode \in LockModes
      /\ tok[t].id % MaxId = s /\ ~ tok[t].held
      /\ tok[t].own => tok[t].mode = "EXCLUSIVE"
      /\ active_id \in [Slots -> Ids \cup {UNDEFINED, RESERVED}]
      /\ refcount \in [Slots -> Nat]
  BY <1>0 DEF IInv, TypeInv, TypeOK, TokensOK, TokenAt, AuxInv, LocalAt, ConvertGranted
<1>2. /\ tok'[t].held /\ ~ tok'[t].own /\ tok'[t].idx = s
      /\ tok'[t].mode = tok[t].mode /\ tok'[t].id = tok[t].id
  BY <1>0 DEF IInv, TypeInv, TypeOK, Token, ConvertGranted
<1>3. \A u \in Tasks \ {t} : tok'[u] = tok[u]
  BY DEF Alone
<1>4. refcount' = [refcount EXCEPT ![s] = @ + 1]
  BY <1>0 DEF ConvertGranted
<1>5. RefcountExact'
  BY <1>1, <1>2, <1>3, <1>4, OneMoreUser DEF IInv
<1>6. Owns(pc[t], tok[t])
  BY DEF ConvertGranted, Owns
<1>7. CASE tok[t].mode # "EXCLUSIVE"
  <2>1. active_id' = active_id
    BY <1>7 DEF ConvertGranted, Overwrites
  <2>2. active_id[s] = IF tok[t].mode = "RESERVED" THEN RESERVED ELSE tok[t].id
    BY <1>0, <1>1, <1>7 DEF ConvertGranted, IdMatches, ExpectedId
  <2>3. \A u \in Tasks, r \in Slots : Reserves(u, r)' <=> Reserves(u, r)
    BY <1>2, <1>3, <1>7 DEF Reserves
  <2>4. ReservationOwned'
    BY <2>1, <2>3 DEF IInv, HoldInv, ReservationOwned
  <2>5. HeldObjectStays'
    BY <1>1, <1>2, <1>3, <1>7, <2>1, <2>2, SMTT(30)
    DEF IInv, HoldInv, HeldObjectStays, LockModes
  <2>6. SlotOfId'
    BY <2>1 DEF IInv, HoldInv, SlotOfId
  <2>7. tok[t].mode # "RESERVED" => \A u \in Tasks : ~ Reserves(u, s)
    BY <1>1, <2>2, NotAnId DEF IInv, HoldInv, ReservationOwned
  <2>8. SameId'
    BY <1>0, <1>1, <1>2, <1>3, <1>7, <2>7, SMTT(30)
    DEF IInv, HoldInv, SameId, Reserves
  <2>9. ExclusiveAlone'
    BY <1>0, <1>1, <1>2, <1>3, <1>7, <2>7, SMTT(30)
    DEF IInv, HoldInv, ExclusiveAlone, Reserves
  <2>. QED
    BY <1>5, <2>4, <2>5, <2>6, <2>8, <2>9 DEF HoldInv
<1>8. CASE tok[t].mode = "EXCLUSIVE"
  <2>1. active_id' = [active_id EXCEPT ![s] = RESERVED]
    BY <1>0, <1>8 DEF ConvertGranted, Overwrites, SetActiveId
  <2>2. active_id[s] = IF tok[t].own THEN RESERVED ELSE tok[t].id
    BY <1>0, <1>8 DEF ConvertGranted, IdMatches, ExpectedId
  <2>3. \A u \in Tasks : ~ (tok[u].held /\ tok[u].idx = s)
    <3>1. refcount[s] = 0
      BY <1>0, <1>8 DEF ConvertGranted
    <3>2. Users(s) = {}
      BY <1>1, <3>1, UsersFinite, FS_EmptySet DEF IInv, RefcountExact
    <3>. QED
      BY <3>2 DEF Users
  <2>4. \A u \in Tasks \ {t} : ~ Reserves(u, s)
    BY <1>0, <1>1, <1>8, <2>2, NotAnId
    DEF IInv, HoldInv, ReservationOwned, Reserves
  <2>5. Reserves(t, s)' /\ \A r \in Slots \ {s} : ~ Reserves(t, r) /\ ~ Reserves(t, r)'
    BY <1>0, <1>2, <1>8 DEF Reserves
  <2>6. \A u \in Tasks \ {t}, r \in Slots : Reserves(u, r)' <=> Reserves(u, r)
    BY <1>3 DEF Reserves
  <2>7. ReservationOwned'
    <3>1. ASSUME NEW r \in Slots \ {s}
          PROVE  /\ active_id'[r] = RESERVED => \E u \in Tasks : Reserves(u, r)'
                 /\ \A u \in Tasks : Reserves(u, r)' => active_id'[r] = RESERVED
                 /\ \A u, v \in Tasks : Reserves(u, r)' /\ Reserves(v, r)' => u = v
      BY <1>1, <2>1, <2>5, <2>6 DEF IInv, HoldInv, ReservationOwned
    <3>2. /\ \E u \in Tasks : Reserves(u, s)'
          /\ active_id'[s] = RESERVED
          /\ \A u, v \in Tasks : Reserves(u, s)' /\ Reserves(v, s)' => u = v
      BY <1>1, <2>1, <2>4, <2>5, <2>6
    <3>. QED
      BY <3>1, <3>2 DEF ReservationOwned
  <2>8. HeldObjectStays'
    <3>1. ASSUME NEW u \in Tasks \ {t}, tok[u].held
          PROVE  tok[u].idx \in Slots /\ active_id'[tok[u].idx] = active_id[tok[u].idx]
      BY <1>1, <2>1, <2>3, <3>1 DEF IInv, TypeInv, TokensOK, TokenAt
    <3>. QED
      BY <1>1, <1>2, <1>3, <1>8, <2>1, <3>1, SMTT(30)
      DEF IInv, HoldInv, HeldObjectStays
  <2>9. SlotOfId'
    BY <1>1, <2>1, NotAnId DEF IInv, HoldInv, SlotOfId
  <2>10. SameId'
    BY <1>2, <1>3, <1>8, <2>3, SMTT(30) DEF IInv, HoldInv, SameId, Reserves
  <2>11. ExclusiveAlone'
    BY <1>2, <1>3, <1>8, <2>3, SMTT(30) DEF IInv, HoldInv, ExclusiveAlone
  <2>. QED
    BY <1>5, <2>7, <2>8, <2>9, <2>10, <2>11 DEF HoldInv
<1>. QED
  BY <1>7, <1>8

\* A transaction that finds the object in use waits.  An EXCLUSIVE one has
\* reserved the slot, under the eyes of its REFCOUNT users only.
LEMMA WaitStep ==
  ASSUME IInv, NEW t \in Tasks, Alone(t), ConvertWaits(t)
  PROVE  HoldInv' /\ RefcountExact'
<1>0. PICK s \in Slots : s = tok[t].idx
  BY DEF IInv, TypeInv, TokensOK, TokenAt, ConvertWaits, Contention
<1>1. /\ tok[t].id \in Ids /\ tok[t].mode \in LockModes /\ ~ tok[t].held
      /\ tok[t].own \in BOOLEAN /\ tok[t].held \in BOOLEAN
      /\ active_id \in [Slots -> Ids \cup {UNDEFINED, RESERVED}]
  BY DEF IInv, TypeInv, TypeOK, TokensOK, TokenAt, Token, ConvertWaits, Contention
<1>2. /\ ~ tok'[t].held /\ tok'[t].own = Overwrites(t) /\ tok'[t].idx = s
      /\ tok'[t].mode = tok[t].mode /\ tok'[t].id = tok[t].id
  BY <1>0, <1>1 DEF IInv, TypeInv, TypeOK, Token, ConvertWaits
<1>3. \A u \in Tasks \ {t} : tok'[u] = tok[u]
  BY DEF Alone
<1>4. UNCHANGED refcount
  BY DEF ConvertWaits
<1>5. Owns(pc[t], tok[t])
  BY DEF ConvertWaits, Contention, Owns
<1>6. CASE Overwrites(t) <=> tok[t].own
  <2>1. active_id' = active_id
    <3>1. CASE ~ Overwrites(t)
      BY <3>1 DEF ConvertWaits
    <3>2. CASE Overwrites(t)
      <4>1. active_id[s] = RESERVED
        BY <1>0, <1>6, <3>2 DEF Overwrites, IInv, HoldInv, ReservationOwned, Reserves
      <4>. QED
        BY <1>0, <1>1, <3>2, <4>1 DEF ConvertWaits, SetActiveId
    <3>. QED
      BY <3>1, <3>2
  <2>2. tok'[t].own = tok[t].own
    <3>1. Overwrites(t) \in BOOLEAN
      BY <1>1 DEF Overwrites, IdMatches
    <3>2. Overwrites(t) = tok[t].own
      BY <1>1, <1>6, <3>1
    <3>. QED
      BY <1>2, <3>2
  <2>3. Kept(t)
    <3>1. tok'[t].held = tok[t].held
      BY DEF ConvertWaits, IInv, TypeInv, TypeOK, Token
    <3>. QED
      BY <1>0, <1>2, <2>2, <3>1 DEF Kept
  <2>4. \A u \in Tasks : Kept(u)
    BY <1>3, <2>3 DEF Kept
  <2>. QED
    BY <1>4, <2>1, <2>4, QuietStep DEF IInv
<1>7. CASE Overwrites(t) /\ ~ tok[t].own
  <2>1. tok[t].mode = "EXCLUSIVE" /\ active_id[s] = tok[t].id /\ tok'[t].own
    BY <1>0, <1>2, <1>7 DEF Overwrites, IdMatches, ExpectedId
  <2>2. active_id' = [active_id EXCEPT ![s] = RESERVED]
    BY <1>0, <1>7 DEF ConvertWaits, SetActiveId
  <2>3. \A u \in Tasks : ~ Reserves(u, s)
    BY <1>1, <2>1, NotAnId DEF IInv, HoldInv, ReservationOwned
  <2>4. \A u \in Tasks \ {t} : tok[u].held /\ tok[u].idx = s
                               => tok[u].mode = "REFCOUNT" /\ tok[u].id = tok[t].id
    BY <1>1, <1>5, <2>1, <2>3, OthersUnlocked, NotAnId
    DEF IInv, HoldInv, HeldObjectStays, Reserves
  <2>5. Reserves(t, s)' /\ \A r \in Slots \ {s} : ~ Reserves(t, r) /\ ~ Reserves(t, r)'
    BY <1>0, <1>2, <2>1 DEF Reserves
  <2>6. \A u \in Tasks \ {t}, r \in Slots : Reserves(u, r)' <=> Reserves(u, r)
    BY <1>3 DEF Reserves
  <2>7. ReservationOwned'
    <3>1. ASSUME NEW r \in Slots \ {s}
          PROVE  /\ active_id'[r] = RESERVED => \E u \in Tasks : Reserves(u, r)'
                 /\ \A u \in Tasks : Reserves(u, r)' => active_id'[r] = RESERVED
                 /\ \A u, v \in Tasks : Reserves(u, r)' /\ Reserves(v, r)' => u = v
      BY <1>1, <2>2, <2>5, <2>6, SMTT(30) DEF IInv, HoldInv, ReservationOwned
    <3>2. /\ \E u \in Tasks : Reserves(u, s)'
          /\ active_id'[s] = RESERVED
          /\ \A u, v \in Tasks : Reserves(u, s)' /\ Reserves(v, s)' => u = v
      BY <1>1, <2>2, <2>3, <2>5, <2>6
    <3>. QED
      BY <3>1, <3>2 DEF ReservationOwned
  <2>8. HeldObjectStays'
    <3>1. ASSUME NEW u \in Tasks \ {t}, tok[u].held
          PROVE  \/ tok[u].mode = "REFCOUNT" /\ active_id'[tok[u].idx] = RESERVED
                 \/ active_id'[tok[u].idx] = active_id[tok[u].idx]
      BY <1>1, <2>2, <2>4, <3>1 DEF IInv, TypeInv, TokensOK, TokenAt
    <3>. QED
      BY <1>2, <1>3, <3>1, SMTT(30) DEF IInv, HoldInv, HeldObjectStays
  <2>9. SlotOfId'
    BY <1>1, <2>2, NotAnId DEF IInv, HoldInv, SlotOfId
  <2>10. SameId'
    BY <1>2, <1>3, <2>1, <2>4, SMTT(30) DEF IInv, HoldInv, SameId, Reserves
  <2>11. ExclusiveAlone'
    BY <1>2, <1>3, SMTT(30) DEF IInv, HoldInv, ExclusiveAlone
  <2>12. \A r \in Slots : Users(r)' = Users(r)
    BY <1>1, <1>2, <1>3 DEF Users
  <2>. QED
    BY <1>4, <2>7, <2>8, <2>9, <2>10, <2>11, <2>12 DEF IInv, HoldInv, RefcountExact
<1>8. tok[t].own => Overwrites(t)
  BY DEF Overwrites, IInv, TypeInv, TokensOK, TokenAt
<1>. QED
  BY <1>6, <1>7, <1>8

\* A task ends its reservation of slot s: by giving up the wait (id is the
\* object's id again), or by finishing a create or a delete.
LEMMA UnreserveStep ==
  ASSUME IInv, NEW t \in Tasks, NEW s \in Slots, NEW i \in Ids \cup {UNDEFINED},
         \A u \in Tasks \ {t} : tok'[u] = tok[u],
         Owns(pc[t], tok[t]), Reserves(t, s), i \in {tok[t].id, UNDEFINED},
         i = UNDEFINED => tok[t].held,
         ~ tok'[t].held, ~ tok'[t].own,
         active_id' = [active_id EXCEPT ![s] = i]
  PROVE  HoldInv'
<1>1. /\ tok[t].id \in Ids /\ tok[t].idx = s /\ tok[t].id % MaxId = s
      /\ active_id \in [Slots -> Ids \cup {UNDEFINED, RESERVED}]
  BY DEF Reserves, IInv, TypeInv, TypeOK, TokensOK, TokenAt, AuxInv, LocalAt
<1>2. \A u \in Tasks \ {t} : ~ Reserves(u, s)
  BY DEF IInv, HoldInv, ReservationOwned
<1>3. \A u \in Tasks \ {t} : tok[u].held /\ tok[u].idx = s
                             => tok[u].mode = "REFCOUNT" /\ tok[u].id = i
  <2>. SUFFICES ASSUME NEW u \in Tasks \ {t}, tok[u].held, tok[u].idx = s
                PROVE  tok[u].mode = "REFCOUNT" /\ tok[u].id = i
    OBVIOUS
  <2>1. tok[u].mode \in {"REFCOUNT", "EXCLUSIVE"}
    BY OthersUnlocked
  <2>2. tok[u].mode = "REFCOUNT"
    BY <1>2, <2>1 DEF Reserves
  <2>3. tok[u].id = tok[t].id
    BY <2>2 DEF IInv, HoldInv, SameId
  <2>4. ~ tok[t].held
    BY <1>1, <2>2 DEF IInv, HoldInv, ExclusiveAlone, Reserves
  <2>. QED
    BY <2>2, <2>3, <2>4
<1>4. \A r \in Slots : ~ Reserves(t, r)'
  BY DEF Reserves
<1>5. \A u \in Tasks \ {t}, r \in Slots : Reserves(u, r)' <=> Reserves(u, r)
  BY DEF Reserves
<1>6. ReservationOwned'
  <2>1. \A r \in Slots \ {s} : ~ Reserves(t, r)
    BY <1>1 DEF Reserves
  <2>2. i # RESERVED
    BY NotAnId
  <2>. QED
    BY <1>1, <1>2, <1>4, <1>5, <2>1, <2>2, SMTT(30)
    DEF IInv, HoldInv, ReservationOwned
<1>7. HeldObjectStays'
  <2>1. ASSUME NEW u \in Tasks \ {t}, tok[u].held
        PROVE  \/ tok[u].mode = "REFCOUNT" /\ active_id'[tok[u].idx] = tok[u].id
               \/ active_id'[tok[u].idx] = active_id[tok[u].idx]
    BY <1>1, <1>3, <2>1 DEF IInv, TypeInv, TokensOK, TokenAt
  <2>. QED
    BY <2>1, SMTT(30) DEF IInv, HoldInv, HeldObjectStays
<1>8. SlotOfId'
  BY <1>1, NotAnId DEF IInv, HoldInv, SlotOfId
<1>9. SameId'
  BY <1>4, <1>5, SMTT(30) DEF IInv, HoldInv, SameId, Reserves
<1>10. ExclusiveAlone'
  BY DEF IInv, HoldInv, ExclusiveAlone
<1>. QED
  BY <1>6, <1>7, <1>8, <1>9, <1>10 DEF HoldInv

\* OS_ObjectIdTransactionFinish.
LEMMA FinishStep ==
  ASSUME IInv, NEW t \in Tasks, Alone(t), TransactionFinish(t)
  PROVE  HoldInv' /\ RefcountExact'
<1>0. PICK s \in Slots : s = tok[t].idx
  BY DEF IInv, TypeInv, TokensOK, TokenAt, TransactionFinish
<1>1. /\ tok[t].held /\ tok[t].id \in Ids
      /\ tok[t].mode # "EXCLUSIVE" => tok[t].final = KEEP
      /\ tok[t].mode = "EXCLUSIVE" => tok[t].final \in {tok[t].id, UNDEFINED}
      /\ refcount \in [Slots -> Nat]
  BY DEF IInv, TypeInv, TypeOK, TokensOK, TokenAt, AuxInv, LocalAt,
         TransactionFinish
<1>2. ~ tok'[t].held /\ ~ tok'[t].own
  BY DEF IInv, TypeInv, TypeOK, TransactionFinish, Return, NullToken
<1>3. \A u \in Tasks \ {t} : tok'[u] = tok[u]
  BY DEF Alone
<1>4. refcount' = [refcount EXCEPT ![s] = IF @ > 0 THEN @ - 1 ELSE @]
  BY <1>0 DEF TransactionFinish
<1>5. RefcountExact'
  BY <1>0, <1>1, <1>2, <1>3, <1>4, OneLessUser DEF IInv
<1>6. CASE tok[t].mode = "EXCLUSIVE"
  <2>1. tok[t].final # KEEP
    BY <1>1, <1>6, SizeAssumption, SMTT(30) DEF KEEP, UNDEFINED, Ids
  <2>2. active_id' = [active_id EXCEPT ![s] = tok[t].final]
    BY <1>0, <2>1 DEF TransactionFinish, SetActiveId
  <2>3. Owns(pc[t], tok[t]) /\ Reserves(t, s)
    BY <1>0, <1>1, <1>6 DEF TransactionFinish, Owns, Reserves
  <2>. QED
    BY <1>1, <1>2, <1>3, <1>5, <1>6, <2>2, <2>3, UnreserveStep
<1>7. CASE tok[t].mode # "EXCLUSIVE"
  <2>1. active_id' = active_id
    BY <1>1, <1>7 DEF TransactionFinish
  <2>2. \A u \in Tasks, r \in Slots : Reserves(u, r)' <=> Reserves(u, r)
    BY <1>2, <1>3, <1>7 DEF Reserves
  <2>3. ReservationOwned' /\ SlotOfId'
    BY <2>1, <2>2 DEF IInv, HoldInv, ReservationOwned, SlotOfId
  <2>4. HeldObjectStays' /\ ExclusiveAlone'
    BY <1>2, <1>3, <2>1, SMTT(30)
    DEF IInv, HoldInv, HeldObjectStays, ExclusiveAlone
  <2>5. SameId'
    BY <1>2, <1>3, SMTT(30) DEF IInv, HoldInv, SameId, Reserves
  <2>. QED
    BY <1>5, <2>3, <2>4, <2>5 DEF HoldInv
<1>. QED
  BY <1>6, <1>7

\* An error of OS_ObjectIdConvertToken leaves no claim on the object.
LEMMA ErrorDrops ==
  ASSUME TypeInv, NEW t \in Tasks, pc[t] = "convert", ConvertError(t)
  PROVE  /\ tok[t].held = FALSE /\ tok'[t].held = FALSE /\ tok'[t].own = FALSE
         /\ tok[t].own \in BOOLEAN
<1>1. tok[t].held = FALSE /\ tok[t].own \in BOOLEAN
  BY DEF TypeInv, TypeOK, TokensOK, TokenAt, Token
<1>. QED
  BY <1>1, SMTT(30) DEF TypeInv, TypeOK, Token, ConvertError, Return, NullToken

\* The last attempt of a waiting transaction puts the id back.
LEMMA GiveUpStep ==
  ASSUME IInv, NEW t \in Tasks, Alone(t), ConvertGivesUp(t)
  PROVE  HoldInv' /\ RefcountExact'
<1>0. PICK s \in Slots : s = tok[t].idx
  BY DEF IInv, TypeInv, TokensOK, TokenAt, ConvertGivesUp, Contention
<1>1. /\ tok[t].id \in Ids
      /\ tok[t].own => tok[t].mode = "EXCLUSIVE"
      /\ active_id \in [Slots -> Ids \cup {UNDEFINED, RESERVED}]
  BY DEF IInv, TypeInv, TypeOK, TokensOK, TokenAt, ConvertGivesUp, Contention
<1>2. /\ tok[t].held = FALSE /\ tok'[t].held = FALSE /\ tok'[t].own = FALSE
      /\ tok[t].own \in BOOLEAN
  BY ErrorDrops DEF IInv, ConvertGivesUp, Contention
<1>3. \A u \in Tasks \ {t} : tok'[u] = tok[u]
  BY DEF Alone
<1>4. UNCHANGED refcount
  BY DEF ConvertGivesUp
<1>5. CASE tok[t].own
  <2>1. active_id' = [active_id EXCEPT ![s] = tok[t].id]
    BY <1>0, <1>1, <1>5 DEF ConvertGivesUp, Overwrites, SetActiveId
  <2>2. Owns(pc[t], tok[t]) /\ Reserves(t, s)
    BY <1>0, <1>1, <1>5 DEF ConvertGivesUp, Contention, Owns, Reserves
  <2>3. HoldInv'
    BY <1>1, <1>2, <1>3, <2>1, <2>2, UnreserveStep, NotAnId
  <2>4. \A r \in Slots : Users(r)' = Users(r)
    BY <1>2, <1>3 DEF Users
  <2>. QED
    BY <1>4, <2>3, <2>4 DEF IInv, RefcountExact
<1>6. CASE ~ tok[t].own
  <2>1. active_id' = active_id
    BY <1>0, <1>1, <1>6
    DEF ConvertGivesUp, Overwrites, IdMatches, ExpectedId, SetActiveId
  <2>2. \A u \in Tasks : Kept(u)
    BY <1>2, <1>3, <1>6 DEF Kept
  <2>. QED
    BY <1>4, <2>1, <2>2, QuietStep DEF IInv
<1>. QED
  BY <1>5, <1>6

\* The slot shows another id: nothing was overwritten.
LEMMA MismatchStep ==
  ASSUME IInv, NEW t \in Tasks, Alone(t), ConvertMismatch(t)
  PROVE  (\A u \in Tasks : Kept(u)) /\ UNCHANGED <<active_id, refcount>>
<1>0. PICK s \in Slots : s = tok[t].idx
  BY DEF IInv, TypeInv, TokensOK, TokenAt, ConvertMismatch
<1>1. ~ tok[t].own
  BY <1>0
  DEF IInv, TypeInv, TokensOK, TokenAt, HoldInv, ReservationOwned, Reserves,
      ConvertMismatch
<1>2. /\ tok[t].held = FALSE /\ tok'[t].held = FALSE /\ tok'[t].own = FALSE
      /\ tok[t].own \in BOOLEAN
  BY ErrorDrops DEF IInv, ConvertMismatch
<1>3. \A u \in Tasks : Kept(u)
  BY <1>1, <1>2 DEF Alone, Kept
<1>. QED
  BY <1>1, <1>3 DEF ConvertMismatch, Overwrites

\* Every operation starts a transaction with a token that holds nothing.
LEMMA BeginToken ==
  ASSUME NEW t \in Tasks, Begin(t)
  PROVE  \E k : /\ TransactionInit(t, k) /\ k.held = FALSE /\ k.own = FALSE
                /\ k.op = "byid" => k.idx = k.id % MaxId
                /\ k.op = "create" => k.idx = -1 /\ k.count = 0
<1>1. CASE AllocateNew(t)
  <2>1. PICK n \in Names \cup {NoName} :
          TransactionInit(t, [NullToken EXCEPT !.op = "create", !.mode = "EXCLUSIVE",
                                               !.name = n])
    BY <1>1 DEF AllocateNew
  <2>. DEFINE k == [NullToken EXCEPT !.op = "create", !.mode = "EXCLUSIVE", !.name = n]
  <2>2. /\ k.held = FALSE /\ k.own = FALSE /\ k.op # "byid"
        /\ k.idx = -1 /\ k.count = 0
    BY DEF NullToken
  <2>. HIDE DEF k
  <2>3. TransactionInit(t, k)
    BY <2>1 DEF k
  <2>. QED
    BY <2>2, <2>3
<1>2. CASE GetById(t)
  <2>1. PICK m \in Modes, i \in Ids :
          TransactionInit(t, [NullToken EXCEPT !.op = "byid", !.mode = m,
                                               !.id = i, !.idx = i % MaxId])
    BY <1>2 DEF GetById
  <2>. DEFINE k == [NullToken EXCEPT !.op = "byid", !.mode = m, !.id = i, !.idx = i % MaxId]
  <2>2. k.held = FALSE /\ k.own = FALSE /\ k.idx = k.id % MaxId /\ k.op = "byid"
    BY DEF NullToken
  <2>. HIDE DEF k
  <2>3. TransactionInit(t, k)
    BY <2>1 DEF k
  <2>. QED
    BY <2>2, <2>3
<1>3. CASE GetBySearch(t)
  <2>1. PICK m \in SearchModes, n \in Names :
          TransactionInit(t, [NullToken EXCEPT !.op = "search", !.mode = m, !.name = n])
    BY <1>3 DEF GetBySearch
  <2>. DEFINE k == [NullToken EXCEPT !.op = "search", !.mode = m, !.name = n]
  <2>2. k.held = FALSE /\ k.own = FALSE /\ k.op = "search"
    BY DEF NullToken
  <2>. HIDE DEF k
  <2>3. TransactionInit(t, k)
    BY <2>1 DEF k
  <2>. QED
    BY <2>2, <2>3
<1>4. CASE ForEachObject(t)
  <2>. DEFINE k == [NullToken EXCEPT !.op = "foreach", !.mode = "GLOBAL"]
  <2>1. k.held = FALSE /\ k.own = FALSE /\ k.op = "foreach"
    BY DEF NullToken
  <2>. HIDE DEF k
  <2>2. TransactionInit(t, k)
    BY <1>4 DEF ForEachObject, k
  <2>. QED
    BY <2>1, <2>2
<1>. QED
  BY <1>1, <1>2, <1>3, <1>4 DEF Begin

\* The steps that neither write the ids or the counts of the table nor change
\* what the task holds.
LEMMA QuietActions ==
  ASSUME TypeInv, NEW t \in Tasks, Alone(t),
         \/ Begin(t) \/ LockTable(t) \/ FindNextMatch(t) \/ CheckName(t)
         \/ ScanSlot(t) \/ ScanFails(t) \/ NotifyAllocated(t) \/ NotifyRejected(t)
         \/ ConvertInvalid(t) \/ Reacquire(t) \/ ObjectInit(t) \/ FinalizeNew(t)
         \/ EndUse(t) \/ RelockTable(t) \/ IterateNext(t) \/ IterateCallback(t)
         \/ CancelTask(t)
  PROVE  (\A u \in Tasks : Kept(u)) /\ UNCHANGED <<active_id, refcount>>
<1>. USE DEF table
<1>0. /\ tok \in [Tasks -> Token] /\ tok[t] \in Token /\ TokenAt(pc[t], tok[t])
      /\ tok[t].held \in BOOLEAN /\ tok[t].own \in BOOLEAN
  BY DEF TypeInv, TypeOK, TokensOK, Token
<1>1. ASSUME Kept(t) PROVE \A u \in Tasks : Kept(u)
  BY <1>1 DEF Alone, Kept
<1>2. ASSUME pc[t] \notin {"allocated", "building", "using", "relock", "finish",
                           "wait", "convert", "cancelled"},
             tok'[t].held = FALSE, tok'[t].own = FALSE
      PROVE  Kept(t)
  BY <1>0, <1>2 DEF TokenAt, Kept
<1>3. CASE Begin(t)
  <2>1. PICK k : TransactionInit(t, k) /\ k.held = FALSE /\ k.own = FALSE
    BY <1>3, BeginToken
  <2>2. tok'[t] = k
    BY <1>0, <2>1 DEF TransactionInit
  <2>. QED
    BY <1>1, <1>2, <2>1, <2>2 DEF TransactionInit
<1>4. CASE \/ LockTable(t) \/ NotifyAllocated(t) \/ Reacquire(t) \/ ObjectInit(t)
           \/ RelockTable(t) \/ IterateCallback(t) \/ CancelTask(t)
  BY <1>1, <1>4 DEF LockTable, NotifyAllocated, Reacquire, ObjectInit, RelockTable,
     IterateCallback, CancelTask, Kept
<1>5. CASE FindNextMatch(t) \/ CheckName(t) \/ ScanSlot(t) \/ ScanFails(t) \/ IterateNext(t)
  <2>1. tok[t].held = FALSE /\ tok[t].own = FALSE
    BY <1>0, <1>5
    DEF FindNextMatch, CheckName, ScanSlot, ScanFails, IterateNext, TokenAt
  <2>2. tok'[t].held = FALSE /\ tok'[t].own = FALSE
    BY <1>0, <1>5, <2>1, SMTT(30)
    DEF FindNextMatch, CheckName, ScanSlot, ScanFails, IterateNext, Return,
        NullToken, Token
  <2>3. Kept(t)
    BY <2>1, <2>2 DEF Kept
  <2>. QED
    BY <1>1, <1>5, <2>3
    DEF FindNextMatch, CheckName, ScanSlot, ScanFails, IterateNext
<1>6. CASE NotifyRejected(t) \/ FinalizeNew(t) \/ EndUse(t)
  <2>1. Kept(t)
    BY <1>0, <1>6
    DEF NotifyRejected, FinalizeNew, EndUse, Kept, Token
  <2>. QED
    BY <1>1, <1>6, <2>1 DEF NotifyRejected, FinalizeNew, EndUse
<1>7. CASE ConvertInvalid(t)
  <2>1. tok[t].own = FALSE
    BY <1>0, <1>7 DEF ConvertInvalid, TokenAt
  <2>2. Kept(t)
    BY <1>7, <2>1, ErrorDrops DEF ConvertInvalid, Kept
  <2>. QED
    BY <1>1, <1>7, <2>2 DEF ConvertInvalid
<1>. QED
  BY <1>3, <1>4, <1>5, <1>6, <1>7

LEMMA HoldNext ==
  ASSUME HasLock, IInv, [Next]_vars
  PROVE  HoldInv' /\ RefcountExact'
<1>1. ASSUME NEW t \in Tasks, Begin(t) \/ Step(t) \/ CancelTask(t)
      PROVE  HoldInv' /\ RefcountExact'
  <2>1. Alone(t)
    BY <1>1, Steps DEF IInv
  <2>2. CASE ClaimSlot(t) \/ ConvertGranted(t) \/ ConvertWaits(t) \/ ConvertGivesUp(t)
             \/ TransactionFinish(t)
    BY <2>1, <2>2, ClaimStep, GrantStep, WaitStep, GiveUpStep, FinishStep
  <2>3. CASE ConvertMismatch(t)
    BY <2>1, <2>3, MismatchStep, QuietStep DEF IInv
  <2>4. CASE ~ \/ ClaimSlot(t) \/ ConvertGranted(t) \/ ConvertWaits(t)
               \/ ConvertGivesUp(t) \/ TransactionFinish(t) \/ ConvertMismatch(t)
    <3>1. (\A u \in Tasks : Kept(u)) /\ UNCHANGED <<active_id, refcount>>
      BY <1>1, <2>1, <2>4, QuietActions DEF Step, IInv
    <3>. QED
      BY <3>1, QuietStep DEF IInv
  <2>. QED
    BY <2>2, <2>3, <2>4
<1>2. CASE ApplicationShutdown \/ UNCHANGED vars
  <2>1. UNCHANGED <<active_id, refcount, tok>>
    BY <1>2 DEF ApplicationShutdown, vars, table
  <2>2. \A u \in Tasks : Kept(u)
    BY <2>1 DEF Kept
  <2>. QED
    BY <2>1, <2>2, QuietStep DEF IInv
<1>. QED
  BY <1>1, <1>2 DEF Next
=============================================================================
