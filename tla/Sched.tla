------------------------------- MODULE Sched -------------------------------
(***************************************************************************)
(* The tasking core of the kernel: task.c, the context switch of           *)
(* x86/task.c and x86/task_asm.S, the interrupt flag of x86.h, and a       *)
(* hardware interrupt as the only other actor.                             *)
(*                                                                         *)
(* One CPU executes the stack of task `cpu`, one statement per step.  A    *)
(* task that is not on the CPU is suspended: pc[t] is then the return      *)
(* address in the frame its saved_sp points to.  An interrupt can come     *)
(* between any two steps taken with interrupts enabled.  Client code is    *)
(* any well-formed use of task.h: it leaves only critical sections it      *)
(* entered, and (re)creates only tasks that are not alive.                 *)
(***************************************************************************)
EXTENDS Integers, Sequences, Functions

CONSTANTS
    Client,      \* the task_t structures of the kernel's clients
    Boot,        \* boot_thread, the one _start_c creates
    Idle,        \* idle_task: the boot-time stack, later the hlt loop
    MaxNest      \* bound: critical sections a client nests

ASSUME SchedAssumption ==
    /\ Boot \in Client
    /\ Idle \notin Client
    /\ MaxNest \in Nat

Task == Client \cup {Idle}

VARIABLES
    state,        \* task_t.state; "none" before the structure is first created
    csc,          \* task_t.critical_section_count
    run_queue,    \* the run queue, head first
    current_task,
    intFlag,      \* EFLAGS.IF
    cpu,          \* the task whose stack is being executed
    pc,           \* the next statement of each stack
    link,         \* where the cli or sti being executed goes on to
    ret,          \* where task_start or task_reschedule returns to
    arg,          \* the argument of the task_start being executed, else Idle
    nest,         \* critical sections the client code itself is in
    irqPending    \* an interrupt is raised and not yet taken

vars == <<state, csc, run_queue, current_task, intFlag, cpu, pc, link, ret,
          arg, nest, irqPending>>

TaskState == {"none", "INITIAL", "READY", "RUNNING", "DEAD"}

\* Statements at which a stack can stand.  "cli" and "sti" are the second
\* halves of enter_ and exit_critical_section.
BootLabel    == {"boot", "boot_start", "become_idle", "idle_exit", "hlt"}
StartLabel   == {"start_check", "start_add", "start_exit"}
ReschedLabel == {"rs_old", "rs_add", "rs_pick", "rs_run", "rs_switch", "rs_exit"}
ClientLabel  == {"trampoline", "user", "exit_dead", "unreachable"}
Target       == BootLabel \cup StartLabel \cup ReschedLabel \cup ClientLabel
Label        == Target \cup {"none", "cli", "sti"}

\* The state task_init leaves: the boot code is the idle task, INITIAL and in
\* a critical section, and interrupts are still off.  pit_init has programmed
\* the timer, so a tick may be pending.
Init ==
    /\ state = [t \in Task |-> IF t = Idle THEN "INITIAL" ELSE "none"]
    /\ csc = [t \in Task |-> IF t = Idle THEN 1 ELSE 0]
    /\ run_queue = <<>>
    /\ current_task = Idle
    /\ intFlag = FALSE
    /\ cpu = Idle
    /\ pc = [t \in Task |-> IF t = Idle THEN "boot" ELSE "none"]
    /\ link = "none"
    /\ ret = [t \in Task |-> "none"]
    /\ arg = Idle
    /\ nest = [t \in Task |-> 0]
    /\ irqPending \in BOOLEAN

-----------------------------------------------------------------------------
(* Critical sections *)

At(l)   == pc[cpu] = l
Goto(l) == pc' = [pc EXCEPT ![cpu] = l]

\* Mutant: interrupts are enabled again at the first exit, whatever the nesting.
ExitCritical_Always(l) ==
    /\ csc' = [csc EXCEPT ![current_task] = @ - 1]
    /\ Goto("sti")
    /\ link' = l

\* Mutant: the counter is kept and interrupts are never disabled.
EnterCritical_NoCli(l) ==
    /\ csc' = [csc EXCEPT ![current_task] = @ + 1]
    /\ Goto(l)
    /\ UNCHANGED link

\* enter_critical_section up to the cli; execution goes on at l.
EnterCritical(l) ==
    /\ csc' = [csc EXCEPT ![current_task] = @ + 1]
    /\ \/ csc[current_task] = 0 /\ Goto("cli") /\ link' = l
       \/ csc[current_task] # 0 /\ Goto(l) /\ UNCHANGED link

\* exit_critical_section up to the sti; execution goes on at l.
ExitCritical(l) ==
    /\ csc' = [csc EXCEPT ![current_task] = @ - 1]
    /\ \/ csc[current_task] = 1 /\ Goto("sti") /\ link' = l
       \/ csc[current_task] # 1 /\ Goto(l) /\ UNCHANGED link

\* x86_cli or x86_sti, and the return from the function around it.
Cli ==
    /\ At("cli")
    /\ intFlag' = FALSE
    /\ Goto(link) /\ link' = "none"
    /\ UNCHANGED <<state, csc, run_queue, current_task, cpu, ret, arg, nest,
                   irqPending>>

Sti ==
    /\ At("sti")
    /\ intFlag' = TRUE
    /\ Goto(link) /\ link' = "none"
    /\ UNCHANGED <<state, csc, run_queue, current_task, cpu, ret, arg, nest,
                   irqPending>>

-----------------------------------------------------------------------------
(* task_create and task_start *)

\* Mutant: the first frame returns to the entry point, not to the trampoline.
InitTask_NoTrampoline(u, l) ==
    /\ state' = [state EXCEPT ![u] = "INITIAL"]
    /\ csc'   = [csc EXCEPT ![u] = 1]
    /\ nest'  = [nest EXCEPT ![u] = 0]
    /\ ret'   = [ret EXCEPT ![u] = "none"]
    /\ pc'    = [pc EXCEPT ![u] = "user", ![cpu] = l]

\* task_create(u), then on at l: x86_init_task makes task_trampoline the return address of
\* the first frame.  It is not a critical section; nothing it writes is
\* shared before task_start.
InitTask(u, l) ==
    /\ state' = [state EXCEPT ![u] = "INITIAL"]
    /\ csc'   = [csc EXCEPT ![u] = 1]
    /\ nest'  = [nest EXCEPT ![u] = 0]
    /\ ret'   = [ret EXCEPT ![u] = "none"]
    /\ pc'    = [pc EXCEPT ![u] = "trampoline", ![cpu] = l]

\* task_start(u), called to return to r.
CallStart(u, r) ==
    /\ arg' = u
    /\ ret' = [ret EXCEPT ![cpu] = r]
    /\ EnterCritical("start_check")
    /\ UNCHANGED <<state, run_queue, current_task, intFlag, cpu, nest, irqPending>>

\* Mutant: any task can be started, whatever its state.
StartCheck_NoGuard ==
    /\ At("start_check")
    /\ state' = [state EXCEPT ![arg] = "READY"]
    /\ Goto("start_add")
    /\ UNCHANGED <<csc, run_queue, current_task, intFlag, cpu, link, ret, arg,
                   nest, irqPending>>

\* Mutant: the failure path returns without leaving the critical section.
StartCheck_NoExit ==
    /\ At("start_check")
    /\ \/ state[arg] # "INITIAL" /\ Goto(ret[cpu]) /\ UNCHANGED state
       \/ state[arg] = "INITIAL" /\ Goto("start_add")
          /\ state' = [state EXCEPT ![arg] = "READY"]
    /\ UNCHANGED <<csc, run_queue, current_task, intFlag, cpu, link, ret, arg,
                   nest, irqPending>>

\* Only an INITIAL task can be started: task_start returns -1 for any other.
StartCheck ==
    /\ At("start_check")
    /\ \/ state[arg] # "INITIAL" /\ Goto("start_exit") /\ UNCHANGED state
       \/ state[arg] = "INITIAL" /\ Goto("start_add")
          /\ state' = [state EXCEPT ![arg] = "READY"]
    /\ UNCHANGED <<csc, run_queue, current_task, intFlag, cpu, link, ret, arg,
                   nest, irqPending>>

\* A started task goes to the head of the queue.
StartAdd ==
    /\ At("start_add")
    /\ run_queue' = <<arg>> \o run_queue
    /\ Goto("start_exit")
    /\ UNCHANGED <<state, csc, current_task, intFlag, cpu, link, ret, arg, nest,
                   irqPending>>

StartExit ==
    /\ At("start_exit")
    /\ ExitCritical(ret[cpu])
    /\ ret' = [ret EXCEPT ![cpu] = "none"]
    /\ arg' = Idle
    /\ UNCHANGED <<state, run_queue, current_task, intFlag, cpu, nest, irqPending>>

-----------------------------------------------------------------------------
(* task_reschedule and task_exit *)

\* task_reschedule(), called to return to r.
CallReschedule(r) ==
    /\ ret' = [ret EXCEPT ![cpu] = r]
    /\ EnterCritical("rs_old")
    /\ UNCHANGED <<state, run_queue, current_task, intFlag, cpu, arg, nest,
                   irqPending>>

\* Mutant: a task that yields is not marked for the queue.
RsOld_NoRequeue ==
    /\ At("rs_old")
    /\ \/ state[current_task] = "RUNNING" /\ Goto("rs_pick")
          /\ state' = [state EXCEPT ![current_task] = "READY"]
       \/ state[current_task] # "RUNNING" /\ Goto("rs_pick") /\ UNCHANGED state
    /\ UNCHANGED <<csc, run_queue, current_task, intFlag, cpu, link, ret, arg,
                   nest, irqPending>>

\* A RUNNING task becomes READY again; a DEAD one does not, and neither does
\* the idle task, INITIAL during boot.
RsOld ==
    /\ At("rs_old")
    /\ \/ state[current_task] = "RUNNING" /\ Goto("rs_add")
          /\ state' = [state EXCEPT ![current_task] = "READY"]
       \/ state[current_task] # "RUNNING" /\ Goto("rs_pick") /\ UNCHANGED state
    /\ UNCHANGED <<csc, run_queue, current_task, intFlag, cpu, link, ret, arg,
                   nest, irqPending>>

\* Mutant: the old task goes back to the head of the queue.
RsAdd_Head ==
    /\ At("rs_add")
    /\ run_queue' = <<current_task>> \o run_queue
    /\ Goto("rs_pick")
    /\ UNCHANGED <<state, csc, current_task, intFlag, cpu, link, ret, arg, nest,
                   irqPending>>

\* The old task goes to the tail of the queue.
RsAdd ==
    /\ At("rs_add")
    /\ run_queue' = Append(run_queue, current_task)
    /\ Goto("rs_pick")
    /\ UNCHANGED <<state, csc, current_task, intFlag, cpu, link, ret, arg, nest,
                   irqPending>>

\* The head of the queue is next, the idle task when there is none.
RsPick ==
    /\ At("rs_pick")
    /\ \/ run_queue = <<>> /\ current_task' = Idle /\ UNCHANGED run_queue
       \/ run_queue # <<>> /\ current_task' = Head(run_queue)
          /\ run_queue' = Tail(run_queue)
    /\ Goto("rs_run")
    /\ UNCHANGED <<state, csc, intFlag, cpu, link, ret, arg, nest, irqPending>>

RsRun ==
    /\ At("rs_run")
    /\ state' = [state EXCEPT ![current_task] = "RUNNING"]
    /\ Goto("rs_switch")
    /\ UNCHANGED <<csc, run_queue, current_task, intFlag, cpu, link, ret, arg,
                   nest, irqPending>>

\* x86_task_switch: the old stack is left with a return address in
\* task_reschedule and the new one is resumed where it was left.  When the
\* picked task is the old one there is no switch and execution goes on.
RsSwitch ==
    /\ At("rs_switch")
    /\ Goto("rs_exit")
    /\ cpu' = current_task
    /\ UNCHANGED <<state, csc, run_queue, current_task, intFlag, link, ret, arg,
                   nest, irqPending>>

RsExit ==
    /\ At("rs_exit")
    /\ ExitCritical(ret[cpu])
    /\ ret' = [ret EXCEPT ![cpu] = "none"]
    /\ UNCHANGED <<state, run_queue, current_task, intFlag, cpu, arg, nest,
                   irqPending>>

\* Mutant: an exiting task keeps its state and is requeued like any other.
ExitDead_StillRunning ==
    /\ At("exit_dead")
    /\ UNCHANGED <<state, arg, nest, run_queue, current_task, intFlag, cpu, irqPending>>
    /\ ret' = [ret EXCEPT ![cpu] = "unreachable"]
    /\ EnterCritical("rs_old")

\* task_exit inside its critical section: DEAD, then task_reschedule().
ExitDead ==
    /\ At("exit_dead")
    /\ state' = [state EXCEPT ![current_task] = "DEAD"]
    /\ ret' = [ret EXCEPT ![cpu] = "unreachable"]
    /\ EnterCritical("rs_old")
    /\ UNCHANGED <<run_queue, current_task, intFlag, cpu, arg, nest, irqPending>>

-----------------------------------------------------------------------------
(* The boot stack: the end of _start_c, then task_become_idle *)

BootCreate ==
    /\ At("boot")
    /\ InitTask(Boot, "boot_start")
    /\ UNCHANGED <<run_queue, current_task, intFlag, cpu, link, arg, irqPending>>

BootStart  == At("boot_start") /\ CallStart(Boot, "become_idle")
BecomeIdle == At("become_idle") /\ CallReschedule("idle_exit")

IdleExit ==
    /\ At("idle_exit")
    /\ ExitCritical("hlt")
    /\ UNCHANGED <<state, run_queue, current_task, intFlag, cpu, ret, arg, nest,
                   irqPending>>

-----------------------------------------------------------------------------
(* Clients of task.h *)

\* A new stack: task_trampoline leaves the critical section the task was
\* born in and calls the entry point.
Trampoline ==
    /\ At("trampoline")
    /\ ExitCritical("user")
    /\ UNCHANGED <<state, run_queue, current_task, intFlag, cpu, ret, arg, nest,
                   irqPending>>

UserCreate(u) ==
    /\ At("user")
    /\ state[u] \in {"none", "DEAD"}
    /\ InitTask(u, "user")
    /\ UNCHANGED <<run_queue, current_task, intFlag, cpu, link, arg, irqPending>>

UserStart(u) == At("user") /\ state[u] # "none" /\ CallStart(u, "user")
UserYield    == At("user") /\ CallReschedule("user")

UserEnter ==
    /\ At("user") /\ nest[cpu] < MaxNest
    /\ nest' = [nest EXCEPT ![cpu] = @ + 1]
    /\ EnterCritical("user")
    /\ UNCHANGED <<state, run_queue, current_task, intFlag, cpu, ret, arg, irqPending>>

UserLeave ==
    /\ At("user") /\ nest[cpu] > 0
    /\ nest' = [nest EXCEPT ![cpu] = @ - 1]
    /\ ExitCritical("user")
    /\ UNCHANGED <<state, run_queue, current_task, intFlag, cpu, ret, arg, irqPending>>

\* The entry point returns, or calls task_exit itself.
UserExit ==
    /\ At("user")
    /\ EnterCritical("exit_dead")
    /\ UNCHANGED <<state, run_queue, current_task, intFlag, cpu, ret, arg, nest,
                   irqPending>>

-----------------------------------------------------------------------------
(* Interrupts.  No handler of the kernel calls into task.c, so a task is   *)
(* interrupted and resumed with the scheduler's state as it was.           *)

RaiseIrq ==
    /\ ~irqPending
    /\ irqPending' = TRUE
    /\ UNCHANGED <<state, csc, run_queue, current_task, intFlag, cpu, pc, link,
                   ret, arg, nest>>

TakeIrq ==
    /\ irqPending /\ intFlag
    /\ irqPending' = FALSE
    /\ UNCHANGED <<state, csc, run_queue, current_task, intFlag, cpu, pc, link,
                   ret, arg, nest>>

-----------------------------------------------------------------------------
KernelStep ==
    \/ Cli \/ Sti \/ Trampoline
    \/ StartCheck \/ StartAdd \/ StartExit
    \/ RsOld \/ RsAdd \/ RsPick \/ RsRun \/ RsSwitch \/ RsExit
    \/ ExitDead \/ BootCreate \/ BootStart \/ BecomeIdle \/ IdleExit

ClientStep ==
    \/ \E u \in Client : UserCreate(u) \/ UserStart(u)
    \/ UserYield \/ UserEnter \/ UserLeave \/ UserExit

Next == KernelStep \/ ClientStep \/ RaiseIrq \/ TakeIrq

Spec == Init /\ [][Next]_vars

\* The CPU executes; a pending interrupt is taken at the next instruction
\* boundary at which it can be; and tasks are cooperative: one that gets to run
\* yields or exits in the end, and leaves its critical sections.
GivesUpCpu(t) == cpu = t /\ (UserYield \/ UserExit)
Fairness ==
    /\ WF_vars(KernelStep)
    /\ SF_vars(TakeIrq)
    /\ \A t \in Client : SF_vars(GivesUpCpu(t)) /\ SF_vars(cpu = t /\ UserLeave)

FairSpec == Spec /\ Fairness

-----------------------------------------------------------------------------
(* Properties *)

TypeOK ==
    /\ state \in [Task -> TaskState]
    /\ csc \in [Task -> Nat]
    /\ run_queue \in Seq(Client)
    /\ current_task \in Task
    /\ intFlag \in BOOLEAN
    /\ cpu \in Task
    /\ pc \in [Task -> Label]
    /\ link \in Target \cup {"none"}
    /\ ret \in [Task -> {"none", "become_idle", "idle_exit", "user", "unreachable"}]
    /\ arg \in Task
    /\ nest \in [Task -> 0..MaxNest]
    /\ irqPending \in BOOLEAN

\* Interrupt handlers run on the interrupted task's stack, between any two
\* statements that run with interrupts on.  Whatever the scheduler does, they
\* never see it half done: current_task is the stack they run on and the one
\* RUNNING task, and the queue holds every READY task once and nothing else.
IrqSeesQuiescent ==
    intFlag =>
        /\ cpu = current_task
        /\ \A t \in Task : state[t] = "RUNNING" <=> t = current_task
        /\ Range(run_queue) = {t \in Task : state[t] = "READY"}
        /\ IsInjective(run_queue)

\* The statement a stack goes on with once the cli or sti is done.
Where(t) == IF pc[t] \in {"cli", "sti"} THEN link ELSE pc[t]

\* The critical sections the code on stack t has entered and not left.
Depth(t) ==
    nest[t]
    + (IF Where(t) \in StartLabel \cup ReschedLabel THEN 1 ELSE 0)
    + (IF Where(t) \in {"trampoline", "exit_dead", "unreachable"}
          \/ ret[t] = "unreachable" THEN 1 ELSE 0)
    + (IF t = Idle /\ Where(t) # "hlt" THEN 1 ELSE 0)

\* Each task's counter is what its own code entered and has not left, across
\* any number of switches in between, although enter_ and exit_critical_section
\* count on whatever task is current; and interrupts are on exactly when the
\* task on the CPU is in no critical section, but for the one instruction
\* between the count and the cli or sti.
CriticalSectionsBalance ==
    /\ \A t \in Task : pc[t] # "none" => csc[t] = Depth(t)
    /\ pc[cpu] \notin {"cli", "sti"} => (intFlag <=> csc[cpu] = 0)

\* When the scheduler falls back to the idle task, which never gives the CPU
\* away again, no task is left that could run.
NoStrandedTask ==
    state[Idle] = "RUNNING" =>
        \A t \in Client : state[t] \notin {"READY", "RUNNING"}

\* A switch only ever resumes a stack x86_init_task or an earlier switch left:
\* in the trampoline or in task_reschedule, with its critical section to leave
\* still counted, and for a task that can run, with somewhere to return to.
SuspendedResumable ==
    \A t \in Client :
        state[t] \in {"INITIAL", "READY"} /\ cpu # t =>
            /\ pc[t] \in {"trampoline", "rs_exit"}
            /\ pc[t] = "rs_exit" => ret[t] = "user"
            /\ csc[t] > 0

\* task_exit never returns: its __UNREACHABLE (task.c:90) is not reached, even
\* when the task's structure is created and started again.
NeverBackFromExit == \A t \in Task : Where(t) # "unreachable"

\* A READY task runs in the end, unless tasks are being started for ever: each
\* started task enters the queue at its head, so a chain of tasks that start
\* one another can keep the rest waiting.
StartsForever == []<><<StartAdd>>_vars
ReadyRuns ==
    StartsForever \/ \A t \in Client : state[t] = "READY" ~> state[t] = "RUNNING"

\* Interrupts are never shut out for good: every switch away from a task in a
\* critical section ends on a stack that turns them on again.
IrqTaken == irqPending ~> ~irqPending

-----------------------------------------------------------------------------
(* Sched implements Tasking.  A reschedule takes effect where the next task *)
(* is picked, a start where the task enters the queue; what the code has    *)
(* done of one before that point is undone by the mapping.                  *)

\* current_task waits in the queue only between rs_add and rs_pick.
Requeued == At("rs_pick") /\ state[cpu] = "READY"

StatusOf == [none |-> "none", INITIAL |-> "initial", READY |-> "ready",
             RUNNING |-> "running", DEAD |-> "dead"]

AbsStatus(t) ==
    IF t = current_task THEN "running"
    ELSE IF At("start_add") /\ t = arg THEN "initial"
    ELSE StatusOf[state[t]]

AbsQueue == IF Requeued
            THEN SubSeq(run_queue, 1, Len(run_queue) - 1)
            ELSE run_queue

\* The boot stack has been left: the idle task is never current again before
\* it is the fallback of a switch away from some other stack.
Booted == ~(current_task = Idle /\ cpu = Idle /\ state[Idle] = "INITIAL")

Abs == INSTANCE Tasking WITH
    status  <- [t \in Client |-> AbsStatus(t)],
    running <- current_task,
    queue   <- AbsQueue,
    booted  <- Booted

\* Every step of the scheduler's code is a step of the cooperative tasking
\* task.h describes, or none at all: no operation is half visible, no task
\* runs twice for one turn, and only the running task gives the CPU away.
ImplementsTasking == Abs!Spec

-----------------------------------------------------------------------------
(* The inductive invariant *)

Here == Where(cpu)

\* What a stack that is not on the CPU looks like: never created; new; left in
\* task_reschedule; left there by task_exit; or the boot stack.
Suspended(t) ==
    \/ /\ state[t] = "none" /\ t # Idle
       /\ pc[t] = "none" /\ ret[t] = "none" /\ nest[t] = 0
    \/ /\ state[t] \in {"INITIAL", "READY", "RUNNING"} /\ t # Idle
       /\ pc[t] = "trampoline" /\ ret[t] = "none" /\ nest[t] = 0 /\ csc[t] = 1
    \/ /\ state[t] \in {"READY", "RUNNING"} /\ t # Idle
       /\ pc[t] = "rs_exit" /\ ret[t] = "user" /\ csc[t] = nest[t] + 1
    \/ /\ state[t] = "DEAD" /\ t # Idle
       /\ pc[t] = "rs_exit" /\ ret[t] = "unreachable" /\ csc[t] = nest[t] + 2
    \/ /\ state[t] \in {"INITIAL", "RUNNING"} /\ t = Idle
       /\ pc[t] = "rs_exit" /\ ret[t] = "idle_exit" /\ nest[t] = 0 /\ csc[t] = 2

SuspendedInv == \A t \in Task : t # cpu => Suspended(t)

\* Where the stack on the CPU can be, and where its calls return to.
FrameInv ==
    /\ Here \notin {"rs_run", "rs_switch"} => cpu = current_task
    /\ Here \in Target \ {"unreachable"}
    /\ csc[cpu] = Depth(cpu)
    /\ cpu = Idle => nest[cpu] = 0 /\ Here \in BootLabel \cup StartLabel \cup ReschedLabel
    /\ cpu # Idle => Here \notin BootLabel
    /\ Here \in StartLabel =>
          ret[cpu] = (IF cpu = Idle THEN "become_idle" ELSE "user") /\ arg \in Client
    /\ Here \in ReschedLabel =>
          ret[cpu] \in (IF cpu = Idle THEN {"idle_exit"} ELSE {"user", "unreachable"})
    /\ Here \notin StartLabel \cup ReschedLabel => ret[cpu] = "none"

\* Interrupts are off exactly in a critical section.
FlagInv ==
    /\ pc[cpu] = "cli" =>
          intFlag /\ csc[cpu] = 1 /\ Here \in {"user", "start_check", "rs_old", "exit_dead"}
    /\ pc[cpu] = "sti" => ~intFlag /\ csc[cpu] = 0
    /\ pc[cpu] \notin {"cli", "sti"} => (intFlag <=> csc[cpu] = 0)

\* The state of the task on the CPU, while it is current and then while it is
\* only the one being switched away from.
LeftState == CASE ret[cpu] = "user" -> "READY"
               [] ret[cpu] = "unreachable" -> "DEAD"
               [] OTHER -> "INITIAL"

StateInv ==
    /\ Here \in {"trampoline", "user", "exit_dead", "idle_exit", "hlt", "rs_exit"} =>
          state[cpu] = "RUNNING"
    /\ Here = "rs_exit" => ret[cpu] # "unreachable"
    /\ Here \in {"boot", "boot_start", "become_idle"} => state[cpu] = "INITIAL"
    /\ Here = "boot" => \A t \in Client : state[t] = "none"
    /\ Here \in StartLabel =>
          state[cpu] = IF cpu = Idle THEN "INITIAL" ELSE "RUNNING"
    /\ Here = "rs_old" =>
          state[cpu] = IF ret[cpu] = "user" THEN "RUNNING" ELSE LeftState
    /\ Here = "rs_add" => state[cpu] = "READY" /\ ret[cpu] = "user"
    /\ Here \in {"rs_pick", "rs_run"} => state[cpu] = LeftState
    /\ Here = "rs_switch" =>
          /\ state[current_task] = "RUNNING"
          /\ cpu # current_task => state[cpu] = LeftState
          /\ ret[cpu] = "unreachable" => cpu # current_task
    /\ \A t \in Task : state[t] = "RUNNING" => t = current_task /\ Here # "rs_run"

\* The task that is READY and not, or not yet, in the queue.
InHand == CASE Here = "start_add" -> {arg}
            [] Here \in {"rs_add", "rs_run"} -> {current_task} \ {Idle}
            [] OTHER -> {}

QueueInv ==
    /\ IsInjective(run_queue)
    /\ Range(run_queue) \cap InHand = {}
    /\ Range(run_queue) \cup InHand = {t \in Task : state[t] = "READY"}
    /\ current_task = Idle /\ Here \in {"rs_run", "rs_switch", "rs_exit", "idle_exit", "hlt"} =>
          run_queue = <<>>

IInv == TypeOK /\ SuspendedInv /\ FrameInv /\ FlagInv /\ StateInv /\ QueueInv
=============================================================================
