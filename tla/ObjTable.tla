------------------------------ MODULE ObjTable ------------------------------
(***************************************************************************)
(* What the object ID table promises to the code that uses it: the life of *)
(* the objects of one type.  IdMap, the table of osapi-idmap.c, implements *)
(* this specification; the modules of the object types build on it.        *)
(*                                                                         *)
(*   free       no object                                                  *)
(*   new        being created, by the one task that allocated it           *)
(*   valid      found by its id; any number of users                       *)
(*   waiting    withdrawn: one task waits until the users have left        *)
(*   exclusive  withdrawn: one task has the object for itself              *)
(***************************************************************************)
EXTENDS Integers

CONSTANTS
  MaxId,   \* the number of slots
  Ids      \* object ids; the slot of an id is its rest modulo MaxId

VARIABLE obj   \* slot -> [st, id, users]

NONE == -1     \* no id
Slots == 0 .. (MaxId - 1)
Free == [st |-> "free", id |-> NONE, users |-> 0]
SlotOf(i) == i % MaxId

TypeOfObj ==
  obj \in [Slots -> [st : {"free", "new", "valid", "waiting", "exclusive"},
                     id : Ids \cup {NONE}, users : Nat]]

InitObj == obj = [s \in Slots |-> Free]

\* The id leads to an object: OS_ObjectIdGetById finds it.
Valid(i) == obj[SlotOf(i)].st = "valid" /\ obj[SlotOf(i)].id = i

\* OS_ObjectIdAllocateNew
Allocate(i) ==
  /\ obj[SlotOf(i)].st = "free"
  /\ obj' = [obj EXCEPT ![SlotOf(i)] = [st |-> "new", id |-> i, users |-> 1]]

\* OS_ObjectIdFinalizeNew, after success or failure of the creation.
Created(s) ==
  /\ obj[s].st = "new" /\ obj[s].users = 1
  /\ obj' = [obj EXCEPT ![s].st = "valid", ![s].users = 0]

NotCreated(s) ==
  /\ obj[s].st = "new" /\ obj[s].users = 1
  /\ obj' = [obj EXCEPT ![s] = Free]

\* A GLOBAL or REFCOUNT transaction is granted.
Enter(i) == Valid(i) /\ obj' = [obj EXCEPT ![SlotOf(i)].users = @ + 1]

\* A RESERVED transaction is granted, on behalf of the task that creates or
\* deletes the object.
Assist(i) ==
  /\ obj[SlotOf(i)].st \in {"new", "waiting", "exclusive"}
  /\ obj' = [obj EXCEPT ![SlotOf(i)].users = @ + 1]

\* OS_ObjectIdRelease of one that is not EXCLUSIVE.
Leave(s) ==
  /\ obj[s].users > (IF obj[s].st \in {"new", "exclusive"} THEN 1 ELSE 0)
  /\ obj' = [obj EXCEPT ![s].users = @ - 1]

\* An EXCLUSIVE transaction withdraws the id; it is granted at once when
\* there are no users.
Reserve(i) ==
  /\ Valid(i)
  /\ obj' = IF obj[SlotOf(i)].users = 0
            THEN [obj EXCEPT ![SlotOf(i)].st = "exclusive", ![SlotOf(i)].users = 1]
            ELSE [obj EXCEPT ![SlotOf(i)].st = "waiting"]

Granted(s) ==
  /\ obj[s].st = "waiting" /\ obj[s].users = 0
  /\ obj' = [obj EXCEPT ![s].st = "exclusive", ![s].users = 1]

\* Too many attempts: OS_ERR_OBJECT_IN_USE, and the object is as before.
GiveUp(s) ==
  /\ obj[s].st = "waiting" /\ obj[s].users > 0
  /\ obj' = [obj EXCEPT ![s].st = "valid"]

\* The end of an EXCLUSIVE transaction: OS_ObjectIdRelease keeps the object,
\* OS_ObjectIdFinalizeDelete removes it.
Kept(s) ==
  /\ obj[s].st = "exclusive" /\ obj[s].users = 1
  /\ obj' = [obj EXCEPT ![s].st = "valid", ![s].users = 0]

Deleted(s) ==
  /\ obj[s].st = "exclusive" /\ obj[s].users = 1
  /\ obj' = [obj EXCEPT ![s] = Free]

NextObj ==
  \/ \E i \in Ids : Allocate(i) \/ Enter(i) \/ Assist(i) \/ Reserve(i)
  \/ \E s \in Slots : \/ Created(s) \/ NotCreated(s) \/ Leave(s)
                      \/ Granted(s) \/ GiveUp(s) \/ Kept(s) \/ Deleted(s)

SpecObj == InitObj /\ [][NextObj]_obj
=============================================================================
