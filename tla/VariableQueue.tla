---------------------------- MODULE VariableQueue ----------------------------
(***************************************************************************)
(* DxeQueueUefiVariableLib: a queue kept in UEFI variables, one variable   *)
(* for an item, whose name is a decimal number.  A queue is the sequence   *)
(* of its variables in the order in which GetNextVariableName meets them.  *)
(* The variable store appends a new variable behind the others, so that    *)
(* this is the order of their creation.                                    *)
(***************************************************************************)
EXTENDS Integers, Sequences

CONSTANT DEFAULT_QUEUE_MODULO   \* names are smaller numbers than this one

ASSUME QueueModuloAssumption == DEFAULT_QUEUE_MODULO \in Nat \ {0}

Items(q) == {q[i] : i \in DOMAIN q}

\* GetIdFromVarName of every variable of the queue.
Ids(q) == {item.Id : item \in Items(q)}

\* Mutation of NewId: the number of items takes the place of the highest name.
CountPlusOne(q) == Len(q) + 1

\* Mutation of NewId: the search for the highest name starts at one.
SearchFromOne(q) == (CHOOSE m \in Ids(q) \cup {1} : \A n \in Ids(q) \cup {1} : n <= m) + 1

\* The name that QueueAddItem gives the item: one above the highest in use.
NewId(q) == (CHOOSE m \in Ids(q) \cup {0} : \A n \in Ids(q) \cup {0} : n <= m) + 1

\* SetVariable of the variable store: a variable of that name is replaced, by one
\* behind the others.
SetVariable(q, item) ==
  Append(IF item.Id \in Ids(q) THEN SelectSeq(q, LAMBDA other : other.Id # item.Id) ELSE q, item)

\* EFI_OUT_OF_RESOURCES of QueueAddItem.
QueueIsFull(q) == NewId(q) >= DEFAULT_QUEUE_MODULO

\* QueueAddItem with data, a record that gets the name as its field Id.
QueueAddItem(q, data) ==
  SetVariable(q, [Id |-> NewId(q), CapsuleId |-> data.CapsuleId,
                  CapsuleHash |-> data.CapsuleHash, boot |-> data.boot])

\* QueuePopItem of a queue that is not empty.
QueuePopItem(q) == Tail(q)
=============================================================================
