------------------------------ MODULE RunQueue ------------------------------
(***************************************************************************)
(* The run queue of task.c as it is in memory: Sched, and the node of      *)
(* every task_t with that of run_queue itself.  Sched's steps that touch   *)
(* the queue make the list.h calls of the code on the nodes; what those    *)
(* calls do does not depend on the sequence Sched keeps.                   *)
(***************************************************************************)
EXTENDS Sched, List

CONSTANT Queue      \* the address of run_queue

\* The task_t structures, finitely many, and run_queue are at addresses of their own.
ASSUME RunQueueAssumption ==
    /\ Queue \notin Task
    /\ NULL \notin Task \cup {Queue}
    /\ IsFiniteSet(Client)

VARIABLE nodes

rqvars == <<vars, nodes>>

Cleared == [prev |-> NULL, next |-> NULL]

\* task_init: list_initialize(&run_queue); the idle task's node is cleared, as
\* those of tasks not yet created are here.
RQInit ==
    /\ Init
    /\ nodes = list_initialize([a \in Task \cup {Queue} |-> Cleared], Queue)

\* The steps that do not touch the queue.
Elsewhere ==
    \/ Cli \/ Sti \/ Trampoline \/ StartCheck \/ StartExit
    \/ RsOld \/ RsRun \/ RsSwitch \/ RsExit
    \/ ExitDead \/ BootStart \/ BecomeIdle \/ IdleExit
    \/ \E u \in Client : UserStart(u)
    \/ UserYield \/ UserEnter \/ UserLeave \/ UserExit
    \/ RaiseIrq \/ TakeIrq

RQNext ==
    \/ StartAdd   /\ nodes' = list_add_head(nodes, Queue, arg)
    \/ RsAdd      /\ nodes' = list_add_tail(nodes, Queue, current_task)
    \/ RsPick     /\ nodes' = list_remove_head(nodes, Queue)
    \/ BootCreate /\ nodes' = list_clear_node(nodes, Boot)
    \/ \E u \in Client : UserCreate(u) /\ nodes' = list_clear_node(nodes, u)
    \/ Elsewhere  /\ UNCHANGED nodes

RQSpec == RQInit /\ [][RQNext]_rqvars

-----------------------------------------------------------------------------
(* Properties *)

\* The pointers are the queue: from run_queue they lead through exactly its
\* tasks, in order and back, and every other task's node is cleared, also
\* after its task has exited and been created anew.
QueueLinked ==
    /\ IsList(nodes, Queue, run_queue)
    /\ \A t \in Task : list_in_list(nodes, t) <=> t \in Range(run_queue)

\* Everything list.h lets a reader ask of a list is answered as the sequence
\* would answer it: its ends, its neighbours with and without wrapping, its
\* length and whether it is empty; and an entry taken out anywhere leaves the
\* rest of the sequence.
AtOr(k) == IF k \in DOMAIN run_queue THEN run_queue[k] ELSE NULL
ListReads ==
    LET q == run_queue n == Len(run_queue)
        Without(k) == SubSeq(q, 1, k - 1) \o SubSeq(q, k + 1, n)
    IN  /\ list_peek_head(nodes, Queue) = AtOr(1)
        /\ list_peek_tail(nodes, Queue) = AtOr(n)
        /\ list_is_empty(nodes, Queue) <=> n = 0
        /\ list_length(nodes, Queue) = n
        /\ IsList(list_remove_tail(nodes, Queue), Queue, SubSeq(q, 1, n - 1))
        /\ \A k \in DOMAIN q :
              /\ list_next(nodes, Queue, q[k]) = AtOr(k + 1)
              /\ list_prev(nodes, Queue, q[k]) = AtOr(k - 1)
              /\ list_next_wrap(nodes, Queue, q[k]) = q[(k % n) + 1]
              /\ list_prev_wrap(nodes, Queue, q[k]) = q[((k + n - 2) % n) + 1]
              /\ IsList(list_delete(nodes, q[k]), Queue, Without(k))
=============================================================================
