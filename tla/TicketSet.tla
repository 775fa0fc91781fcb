----------------------------- MODULE TicketSet ------------------------------
(***************************************************************************)
(* What the rest of the program expects of a RequestQueue: a set of        *)
(* tickets, at most one of each process.  LamportQueueAlgorithm keeps its  *)
(* replicas in this form.                                                  *)
(***************************************************************************)
EXTENDS Tickets

CONSTANT Stamps  \* the timestamps of the tickets that are inserted

VARIABLE tickets

Init == tickets = {}

InsertTicket(t) == tickets' = Insert(tickets, t)

RemoveTickets(pids) == tickets' = Remove(tickets, pids)

Next ==
  \/ \E t \in [pid : Pid, ts : Stamps] : InsertTicket(t)
  \/ \E pids \in SUBSET Pid : RemoveTickets(pids)

Spec == Init /\ [][Next]_tickets
=============================================================================
