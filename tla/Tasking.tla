------------------------------ MODULE Tasking ------------------------------
(***************************************************************************)
(* What task.h promises its clients: cooperative multitasking.  One task   *)
(* runs until it yields or exits; each operation is a single step; a       *)
(* yielding task goes behind those that wait and a started task in front   *)
(* of them.  There are no critical sections, stacks or interrupts here:    *)
(* Sched shows that the code's steps amount to these.                      *)
(***************************************************************************)
EXTENDS Sequences

CONSTANTS Client, Idle

VARIABLES
    status,    \* of each client
    running,   \* the task that has the CPU
    queue,     \* the tasks waiting for it, first to run first
    booted     \* the boot code has given up the CPU

vars == <<status, running, queue, booted>>

Init ==
    /\ status = [t \in Client |-> "none"]
    /\ running = Idle
    /\ queue = <<>>
    /\ booted = FALSE

\* The CPU passes to the first task of q, to the idle task if there is none.
\* st is what the clients' statuses are once the old task has let go.
Dispatch(st, q) ==
    \/ /\ q = <<>>
       /\ running' = Idle /\ queue' = q
       /\ status' = st
    \/ /\ q # <<>>
       /\ running' = Head(q) /\ queue' = Tail(q)
       /\ status' = [st EXCEPT ![Head(q)] = "running"]

\* The boot code and every client may create and start tasks; the idle task,
\* once it is one, does nothing more.
Active == running # Idle \/ ~booted

Create(t) ==
    /\ Active
    /\ status[t] \in {"none", "dead"}
    /\ status' = [status EXCEPT ![t] = "initial"]
    /\ UNCHANGED <<running, queue, booted>>

Start(t) ==
    /\ Active
    /\ status[t] = "initial"
    /\ status' = [status EXCEPT ![t] = "ready"]
    /\ queue' = <<t>> \o queue
    /\ UNCHANGED <<running, booted>>

BecomeIdle ==
    /\ ~booted
    /\ booted' = TRUE
    /\ Dispatch(status, queue)

Yield ==
    /\ running # Idle
    /\ Dispatch([status EXCEPT ![running] = "ready"], Append(queue, running))
    /\ UNCHANGED booted

Exit ==
    /\ running # Idle
    /\ Dispatch([status EXCEPT ![running] = "dead"], queue)
    /\ UNCHANGED booted

Next ==
    \/ \E t \in Client : Create(t) \/ Start(t)
    \/ BecomeIdle \/ Yield \/ Exit

Spec == Init /\ [][Next]_vars
=============================================================================
