---------------------------- MODULE RequestQueue ----------------------------
(***************************************************************************)
(* The class RequestQueue (queue/request_queue): a std::set of tickets and *)
(* a map from pids to iterators into it.  The nodes of the set live at     *)
(* addresses; an iterator is the address of a node, and it dangles when    *)
(* the node has been erased.  An address that was freed can be used again. *)
(* Erasing a node through a dangling iterator is undefined behaviour:      *)
(* IteratorsValid says that it never happens.                              *)
(***************************************************************************)
EXTENDS Tickets, Functions

CONSTANTS
  Address,  \* where the nodes of the set can be allocated
  Stamps    \* the timestamps of the tickets that are inserted

ASSUME RequestQueueAssumption == Stamps \subseteq Nat

VARIABLES
  node,     \* queue_: a function from the addresses in use to tickets
  iterator  \* pid_to_ticket_: a function from some pids to addresses

vars == <<node, iterator>>

Init == node = [a \in {} |-> a] /\ iterator = [p \in {} |-> p]

Without(f, S) == Restrict(f, DOMAIN f \ S)

With(f, x, v) == [y \in DOMAIN f \cup {x} |-> IF y = x THEN v ELSE f[y]]

\* The nodes that the iterators of pids refer to.
NodesOf(pids) == {iterator[p] : p \in pids \cap DOMAIN iterator}

\* Two slips in Insert and Remove: the node of the old ticket stays in the
\* set; the iterator stays in the map.
InsertLeavesOldNode(t) ==
  \E a \in Address \ DOMAIN node :
    /\ node' = With(node, a, t)
    /\ iterator' = With(Without(iterator, {t.pid}), t.pid, a)
RemoveLeavesIterator(pids) ==
  /\ node' = Without(node, NodesOf(pids))
  /\ UNCHANGED iterator

\* Insert: the old ticket of the process is erased through its iterator.  When
\* the set already holds an equal ticket nothing is inserted and the process
\* ends up without an iterator.
InsertTicket(t) ==
  LET others == Without(node, NodesOf({t.pid}))
      rest   == Without(iterator, {t.pid})
  IN  IF t \in Range(others)
      THEN node' = others /\ iterator' = rest
      ELSE \E a \in Address \ DOMAIN others :
             /\ node' = With(others, a, t)
             /\ iterator' = With(rest, t.pid, a)

\* Remove(pids, num_pids): the loop over Remove(pid).
RemoveTickets(pids) ==
  /\ node' = Without(node, NodesOf(pids))
  /\ iterator' = Without(iterator, pids)

Next ==
  \/ \E t \in [pid : Pid, ts : Stamps] : InsertTicket(t)
  \/ \E pids \in SUBSET Pid : RemoveTickets(pids)

Spec == Init /\ [][Next]_vars
-----------------------------------------------------------------------------
\* The set holds tickets at addresses; the map leads from pids to addresses.
TypeOK ==
  /\ DOMAIN node \subseteq Address
  /\ node \in [DOMAIN node -> [pid : Pid, ts : Stamps]]
  /\ DOMAIN iterator \subseteq Pid
  /\ iterator \in [DOMAIN iterator -> Address]

\* The map and the set agree: exactly the processes with a ticket have an
\* iterator, it refers to a node that is still in the set, and that node holds
\* the ticket of the process.  So every erase(it_map->second) is defined, and a
\* process never has two tickets in the set.
IteratorsValid ==
  /\ \A p \in DOMAIN iterator :
       iterator[p] \in DOMAIN node /\ node[iterator[p]].pid = p
  /\ \A a \in DOMAIN node :
       node[a].pid \in DOMAIN iterator /\ iterator[node[a].pid] = a

\* The class implements the set of tickets the algorithm works with.
TicketsHeld == INSTANCE TicketSet WITH tickets <- Range(node)

ImplementsTicketSet == TicketsHeld!Spec
=============================================================================
