------------------------------ MODULE Tickets -------------------------------
(***************************************************************************)
(* Request tickets, their total order, and what the operations of          *)
(* RequestQueue do to the set of tickets it holds.  Module RequestQueue    *)
(* shows that the class, a std::set indexed by a map of iterators,         *)
(* implements these operators.                                             *)
(***************************************************************************)
EXTENDS Config

Ticket == [pid : Pid, ts : Nat]

\* operator<: by timestamp, then by pid.
Before(s, t) == s.ts < t.ts \/ (s.ts = t.ts /\ s.pid < t.pid)

\* Slips in the two operations below: a process keeps its old ticket; the loop
\* over the pids stops one short.
InsertKeepsOld(q, t) == IF \E u \in q : u.pid = t.pid THEN q ELSE q \cup {t}
RemoveSkipsLast(q, pids) ==
  LET last == {p \in pids : \A r \in pids : r <= p}
  IN  {u \in q : u.pid \notin pids \ last}

\* A process has at most one ticket in a queue: a new one replaces the old.
Insert(q, t) == {u \in q : u.pid # t.pid} \cup {t}

\* Remove(pids, num_pids): by pid, whatever the timestamp of the ticket.
Remove(q, pids) == {u \in q : u.pid \notin pids}

\* t is queue_.begin(), the first ticket in the order.
IsFirst(t, q) == t \in q /\ \A u \in q \ {t} : Before(t, u)
=============================================================================
