------------------------------- MODULE Lists -------------------------------
(***************************************************************************)
(* The circular doubly linked lists of include/list.h, seen as sequences:  *)
(* the elements met by LIST_FOREACH from the list's head node.  An element *)
(* whose node is self-linked is on no list, so "!list_is_empty(&x->node)"  *)
(* is membership of x.  A position is an index; the head node, where       *)
(* LIST_FOREACH ends when it never breaks, stands after the last element.  *)
(***************************************************************************)
EXTENDS Integers, SequencesExt

\* !list_is_empty(&e->node), for an element that can only be on list s.
list_linked(s, e) == e \in ToSet(s)

\* The position of the list's own head node.
EndOf(s) == Len(s) + 1

\* The node at which a LIST_FOREACH that breaks on Test stops.
list_stop(s, Test(_)) ==
    LET i == SelectInSeq(s, Test) IN IF i = 0 THEN EndOf(s) ELSE i

\* list_insert_before(node at position i, e), for an e that is not linked.
list_insert_before(s, i, e) == InsertAt(s, i, e)

\* list_remove(e): a self-linked node is unlinked from itself, a no-op.
list_remove(s, e) == RemoveFirst(s, e)

\* list_remove of each element of S that is on the list.
list_remove_all(s, S) ==
    LET kept[i \in 0 .. Len(s)] ==
            IF i = 0 THEN <<>>
            ELSE IF s[i] \in S THEN kept[i - 1] ELSE Append(kept[i - 1], s[i])
    IN  kept[Len(s)]

\* What the pointers of a list that was never corrupted guarantee: a node
\* is linked in one place only.
NoDuplicates(s) == \A i, j \in DOMAIN s : s[i] = s[j] => i = j

\* a is met before b.
Before(s, a, b) == \E i, j \in DOMAIN s : i < j /\ s[i] = a /\ s[j] = b
=============================================================================
