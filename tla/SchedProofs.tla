---------------------------- MODULE SchedProofs ----------------------------
(* Proofs that Sched is correct for every set of clients and every nesting. *)
EXTENDS Sched, SequenceTheorems, TLAPS

-----------------------------------------------------------------------------
(* What the queue operations do to the set of queued tasks *)

\* list_add_tail adds exactly the new member.
LEMMA AppendMembers ==
    ASSUME NEW S, NEW q \in Seq(S), NEW x \in S, IsInjective(q), x \notin Range(q)
    PROVE  /\ Append(q, x) \in Seq(S)
           /\ IsInjective(Append(q, x))
           /\ Range(Append(q, x)) = Range(q) \cup {x}
  <1> DEFINE r == Append(q, x)
  <1>1. /\ r \in Seq(S) /\ Len(r) = Len(q) + 1 /\ r[Len(q) + 1] = x
        /\ \A i \in 1..Len(q) : r[i] = q[i]
    BY AppendProperties
  <1>2. DOMAIN q = 1..Len(q) /\ DOMAIN r = 1..(Len(q) + 1) /\ Len(q) \in Nat
    BY <1>1, LenProperties
  <1>3. Range(r) = Range(q) \cup {x}
    <2>1. \A y \in Range(r) : y \in Range(q) \cup {x}
      BY <1>1, <1>2 DEF Range
    <2>2. \A y \in Range(q) : y \in Range(r)
      BY <1>1, <1>2 DEF Range
    <2>3. x \in Range(r)
      BY <1>1, <1>2 DEF Range
    <2> QED BY <2>1, <2>2, <2>3
  <1>4. IsInjective(r)
    <2> SUFFICES ASSUME NEW i \in DOMAIN r, NEW j \in DOMAIN r, r[i] = r[j]
                 PROVE  i = j
      BY DEF IsInjective
    <2>1. \A k \in DOMAIN q : q[k] # x
      BY DEF Range
    <2> QED BY <1>1, <1>2, <2>1 DEF IsInjective
  <1> QED BY <1>1, <1>3, <1>4

\* list_add_head adds exactly the new member.
LEMMA PrependMembers ==
    ASSUME NEW S, NEW q \in Seq(S), NEW x \in S, IsInjective(q), x \notin Range(q)
    PROVE  /\ <<x>> \o q \in Seq(S)
           /\ IsInjective(<<x>> \o q)
           /\ Range(<<x>> \o q) = Range(q) \cup {x}
  <1> DEFINE r == <<x>> \o q
  <1>0. <<x>> \in Seq(S) /\ Len(<<x>>) = 1 /\ <<x>>[1] = x
    OBVIOUS
  <1>1. /\ r \in Seq(S) /\ Len(r) = Len(q) + 1 /\ r[1] = x
        /\ \A i \in 1..Len(q) : r[i + 1] = q[i]
    <2>1. /\ r \in Seq(S) /\ Len(r) = 1 + Len(q)
          /\ \A i \in 1..Len(r) : r[i] = IF i <= 1 THEN <<x>>[i] ELSE q[i - 1]
      BY <1>0, ConcatProperties
    <2> QED BY <1>0, <2>1, LenProperties
  <1>2. DOMAIN q = 1..Len(q) /\ DOMAIN r = 1..(Len(q) + 1) /\ Len(q) \in Nat
    BY <1>1, LenProperties
  <1>3. \A k \in DOMAIN r : k = 1 \/ (k - 1 \in DOMAIN q /\ r[k] = q[k - 1])
    BY <1>1, <1>2
  <1>4. Range(r) = Range(q) \cup {x}
    <2>1. \A y \in Range(r) : y \in Range(q) \cup {x}
      BY <1>1, <1>3 DEF Range
    <2>2. ASSUME NEW y \in Range(q) PROVE y \in Range(r)
      <3>1. PICK i \in DOMAIN q : y = q[i]
        BY DEF Range
      <3>2. i + 1 \in DOMAIN r /\ r[i + 1] = y
        BY <1>1, <1>2, <3>1
      <3> QED BY <3>2 DEF Range
    <2>3. x \in Range(r)
      BY <1>1, <1>2 DEF Range
    <2> QED BY <2>1, <2>2, <2>3
  <1>5. IsInjective(r)
    <2> SUFFICES ASSUME NEW i \in DOMAIN r, NEW j \in DOMAIN r, r[i] = r[j]
                 PROVE  i = j
      BY DEF IsInjective
    <2>1. \A k \in DOMAIN q : q[k] # x
      BY DEF Range
    <2>2. CASE i = 1 \/ j = 1
      BY <1>1, <1>3, <2>1, <2>2
    <2>3. CASE i # 1 /\ j # 1
      <3>1. i - 1 = j - 1
        BY <1>3, <2>3 DEF IsInjective
      <3> QED BY <3>1, <1>2
    <2> QED BY <2>2, <2>3
  <1> QED BY <1>1, <1>4, <1>5

\* list_remove_head removes exactly the first member.
LEMMA TailMembers ==
    ASSUME NEW S, NEW q \in Seq(S), q # <<>>, IsInjective(q)
    PROVE  /\ Head(q) \in S /\ Tail(q) \in Seq(S)
           /\ IsInjective(Tail(q))
           /\ Head(q) \in Range(q)
           /\ Range(Tail(q)) = Range(q) \ {Head(q)}
  <1>1. /\ Head(q) \in S /\ Head(q) = q[1]
        /\ Tail(q) \in Seq(S) /\ Len(Tail(q)) = Len(q) - 1
        /\ \A i \in 1..(Len(q) - 1) : Tail(q)[i] = q[i + 1]
    BY HeadTailProperties
  <1>2. /\ Len(q) \in Nat \ {0} /\ DOMAIN q = 1..Len(q)
        /\ DOMAIN Tail(q) = 1..(Len(q) - 1)
    BY <1>1, LenProperties, EmptySeq
  <1>3. IsInjective(Tail(q))
    <2> SUFFICES ASSUME NEW i \in DOMAIN Tail(q), NEW j \in DOMAIN Tail(q),
                        Tail(q)[i] = Tail(q)[j]
                 PROVE  i = j
      BY DEF IsInjective
    <2>1. i + 1 \in DOMAIN q /\ j + 1 \in DOMAIN q /\ q[i + 1] = q[j + 1]
      BY <1>1, <1>2
    <2>2. i + 1 = j + 1
      BY <2>1 DEF IsInjective
    <2> QED BY <2>2, <1>2
  <1>4. Head(q) \in Range(q)
    BY <1>1, <1>2 DEF Range
  <1>5. Range(Tail(q)) = Range(q) \ {Head(q)}
    <2>1. ASSUME NEW y \in Range(Tail(q)) PROVE y \in Range(q) /\ y # Head(q)
      <3>1. PICK i \in 1..(Len(q) - 1) : y = Tail(q)[i]
        BY <1>2 DEF Range
      <3>2. i + 1 \in DOMAIN q /\ y = q[i + 1] /\ i + 1 # 1 /\ 1 \in DOMAIN q
        BY <1>1, <1>2, <3>1
      <3> QED BY <1>1, <3>2 DEF Range, IsInjective
    <2>2. ASSUME NEW y \in Range(q), y # Head(q) PROVE y \in Range(Tail(q))
      <3>1. PICK i \in DOMAIN q : y = q[i]
        BY DEF Range
      <3>2. i - 1 \in 1..(Len(q) - 1) /\ Tail(q)[i - 1] = y
        BY <1>1, <1>2, <2>2, <3>1
      <3> QED BY <1>2, <3>2 DEF Range
    <2> QED BY <2>1, <2>2
  <1> QED BY <1>1, <1>3, <1>4, <1>5
-----------------------------------------------------------------------------
(* The invariant is inductive: one lemma per action *)

USE SchedAssumption DEF At, Goto, Here, Where, Task, TaskState, Target, Label,
    BootLabel, StartLabel, ReschedLabel, ClientLabel

\* Entering a critical section, on the stack of the current task.
LEMMA EnterEffect ==
    ASSUME TypeOK, FlagInv, cpu = current_task, pc[cpu] \notin {"cli", "sti"},
           NEW l \in {"user", "start_check", "rs_old", "exit_dead"},
           EnterCritical(l), UNCHANGED <<cpu, intFlag>>
    PROVE  /\ csc' = [csc EXCEPT ![cpu] = @ + 1] /\ csc' \in [Task -> Nat]
           /\ pc' \in [Task -> Label] /\ link' \in Target \cup {"none"}
           /\ \A t \in Task : t # cpu => pc'[t] = pc[t]
           /\ Here' = l /\ FlagInv'
  <1>1. /\ cpu \in Task /\ pc \in [Task -> Label] /\ csc \in [Task -> Nat] /\ cpu' = cpu
        /\ link \in Target \cup {"none"} /\ intFlag' = intFlag /\ intFlag \in BOOLEAN
        /\ l \in Target
    BY DEF TypeOK
  <1>2. intFlag <=> csc[cpu] = 0
    BY DEF FlagInv
  <1>3. /\ csc' = [csc EXCEPT ![cpu] = @ + 1] /\ csc' \in [Task -> Nat]
        /\ csc'[cpu] = csc[cpu] + 1
    BY <1>1 DEF EnterCritical
  <1>4. \/ csc[cpu] = 0 /\ pc' = [pc EXCEPT ![cpu] = "cli"] /\ link' = l
        \/ csc[cpu] # 0 /\ pc' = [pc EXCEPT ![cpu] = l] /\ link' = link
    BY DEF EnterCritical
  <1>5. pc' \in [Task -> Label] /\ \A t \in Task : t # cpu => pc'[t] = pc[t]
    BY <1>1, <1>4
  <1>6. Here' = l /\ link' \in Target \cup {"none"}
    BY <1>1, <1>4
  <1>7. FlagInv'
    BY <1>1, <1>2, <1>3, <1>4, <1>6 DEF FlagInv
  <1> QED BY <1>3, <1>5, <1>6, <1>7

\* Leaving a critical section, on the stack of the current task.
LEMMA ExitEffect ==
    ASSUME TypeOK, FlagInv, cpu = current_task, pc[cpu] \notin {"cli", "sti"},
           csc[cpu] # 0, NEW l \in Target,
           ExitCritical(l), UNCHANGED <<cpu, intFlag>>
    PROVE  /\ csc' = [csc EXCEPT ![cpu] = @ - 1] /\ csc' \in [Task -> Nat]
           /\ pc' \in [Task -> Label] /\ link' \in Target \cup {"none"}
           /\ \A t \in Task : t # cpu => pc'[t] = pc[t]
           /\ Here' = l /\ FlagInv'
  <1>1. /\ cpu \in Task /\ pc \in [Task -> Label] /\ csc \in [Task -> Nat] /\ cpu' = cpu
        /\ link \in Target \cup {"none"} /\ intFlag' = intFlag /\ intFlag \in BOOLEAN
        /\ l \in Target
    BY DEF TypeOK
  <1>2. intFlag <=> csc[cpu] = 0
    BY DEF FlagInv
  <1>3. /\ csc' = [csc EXCEPT ![cpu] = @ - 1] /\ csc' \in [Task -> Nat]
        /\ csc'[cpu] = csc[cpu] - 1
    BY <1>1 DEF ExitCritical
  <1>4. \/ csc[cpu] = 1 /\ pc' = [pc EXCEPT ![cpu] = "sti"] /\ link' = l
        \/ csc[cpu] # 1 /\ pc' = [pc EXCEPT ![cpu] = l] /\ link' = link
    BY DEF ExitCritical
  <1>5. pc' \in [Task -> Label] /\ \A t \in Task : t # cpu => pc'[t] = pc[t]
    BY <1>1, <1>4
  <1>6. Here' = l /\ link' \in Target \cup {"none"}
    BY <1>1, <1>4
  <1>7. FlagInv'
    BY <1>1, <1>2, <1>3, <1>4, <1>6 DEF FlagInv
  <1> QED BY <1>3, <1>5, <1>6, <1>7

\* A client that calls task_start enters its critical section.
LEMMA UserStartStep ==
    ASSUME IInv, NEW u \in Client, UserStart(u)
    PROVE  IInv'
  <1> USE DEF IInv
  <1>1. /\ cpu = current_task /\ pc[cpu] \notin {"cli", "sti"}
        /\ EnterCritical("start_check") /\ UNCHANGED <<cpu, intFlag>>
    BY DEF UserStart, CallStart, FrameInv
  <1>2. /\ csc' = [csc EXCEPT ![cpu] = @ + 1] /\ csc' \in [Task -> Nat]
        /\ pc' \in [Task -> Label] /\ link' \in Target \cup {"none"}
        /\ \A t \in Task : t # cpu => pc'[t] = pc[t]
        /\ Here' = "start_check" /\ FlagInv'
    BY <1>1, EnterEffect
  <1>3. TypeOK'
    BY <1>1, <1>2 DEF UserStart, CallStart, TypeOK
  <1>4. SuspendedInv'
    BY <1>1, <1>2 DEF UserStart, CallStart, TypeOK, SuspendedInv, Suspended, Depth, LeftState, FrameInv, StateInv
  <1>5. FrameInv'
    BY <1>1, <1>2 DEF UserStart, CallStart, TypeOK, FrameInv, Depth, FlagInv, StateInv
  <1>6. StateInv'
    BY <1>1, <1>2 DEF UserStart, CallStart, TypeOK, StateInv, SuspendedInv, Suspended, FrameInv, FlagInv, QueueInv, InHand, LeftState, Depth
  <1>7. QueueInv'
    BY <1>1, <1>2 DEF UserStart, CallStart, TypeOK, QueueInv, FrameInv, StateInv, InHand, LeftState
  <1> QED BY <1>2, <1>3, <1>4, <1>5, <1>6, <1>7

\* A client that calls task_reschedule enters its critical section.
LEMMA UserYieldStep ==
    ASSUME IInv, UserYield
    PROVE  IInv'
  <1> USE DEF IInv
  <1>1. /\ cpu = current_task /\ pc[cpu] \notin {"cli", "sti"}
        /\ EnterCritical("rs_old") /\ UNCHANGED <<cpu, intFlag>>
    BY DEF UserYield, CallReschedule, FrameInv
  <1>2. /\ csc' = [csc EXCEPT ![cpu] = @ + 1] /\ csc' \in [Task -> Nat]
        /\ pc' \in [Task -> Label] /\ link' \in Target \cup {"none"}
        /\ \A t \in Task : t # cpu => pc'[t] = pc[t]
        /\ Here' = "rs_old" /\ FlagInv'
    BY <1>1, EnterEffect
  <1>3. TypeOK'
    BY <1>1, <1>2 DEF UserYield, CallReschedule, TypeOK
  <1>4. SuspendedInv'
    BY <1>1, <1>2 DEF UserYield, CallReschedule, TypeOK, SuspendedInv, Suspended, Depth, LeftState, FrameInv, StateInv
  <1>5. FrameInv'
    BY <1>1, <1>2 DEF UserYield, CallReschedule, TypeOK, FrameInv, Depth, FlagInv, StateInv
  <1>6. StateInv'
    BY <1>1, <1>2 DEF UserYield, CallReschedule, TypeOK, StateInv, SuspendedInv, Suspended, FrameInv, FlagInv, QueueInv, InHand, LeftState, Depth
  <1>7. QueueInv'
    BY <1>1, <1>2 DEF UserYield, CallReschedule, TypeOK, QueueInv, FrameInv, StateInv, InHand, LeftState
  <1> QED BY <1>2, <1>3, <1>4, <1>5, <1>6, <1>7

\* A client may enter a critical section of its own, at any nesting.
LEMMA UserEnterStep ==
    ASSUME IInv, UserEnter
    PROVE  IInv'
  <1> USE DEF IInv
  <1>1. /\ cpu = current_task /\ pc[cpu] \notin {"cli", "sti"}
        /\ EnterCritical("user") /\ UNCHANGED <<cpu, intFlag>>
    BY DEF UserEnter, FrameInv
  <1>2. /\ csc' = [csc EXCEPT ![cpu] = @ + 1] /\ csc' \in [Task -> Nat]
        /\ pc' \in [Task -> Label] /\ link' \in Target \cup {"none"}
        /\ \A t \in Task : t # cpu => pc'[t] = pc[t]
        /\ Here' = "user" /\ FlagInv'
    BY <1>1, EnterEffect
  <1>3. TypeOK'
    BY <1>1, <1>2 DEF UserEnter, TypeOK
  <1>4. SuspendedInv'
    BY <1>1, <1>2 DEF UserEnter, TypeOK, SuspendedInv, Suspended, Depth, LeftState, FrameInv, StateInv
  <1>5. FrameInv'
    BY <1>1, <1>2, SMTT(30) DEF UserEnter, TypeOK, FrameInv, Depth, FlagInv, StateInv
  <1>6. StateInv'
    BY <1>1, <1>2 DEF UserEnter, TypeOK, StateInv, SuspendedInv, Suspended, FrameInv, FlagInv, QueueInv, InHand, LeftState, Depth
  <1>7. QueueInv'
    BY <1>1, <1>2 DEF UserEnter, TypeOK, QueueInv, FrameInv, StateInv, InHand, LeftState
  <1> QED BY <1>2, <1>3, <1>4, <1>5, <1>6, <1>7

\* A client that is done enters task_exit's critical section.
LEMMA UserExitStep ==
    ASSUME IInv, UserExit
    PROVE  IInv'
  <1> USE DEF IInv
  <1>1. /\ cpu = current_task /\ pc[cpu] \notin {"cli", "sti"}
        /\ EnterCritical("exit_dead") /\ UNCHANGED <<cpu, intFlag>>
    BY DEF UserExit, FrameInv
  <1>2. /\ csc' = [csc EXCEPT ![cpu] = @ + 1] /\ csc' \in [Task -> Nat]
        /\ pc' \in [Task -> Label] /\ link' \in Target \cup {"none"}
        /\ \A t \in Task : t # cpu => pc'[t] = pc[t]
        /\ Here' = "exit_dead" /\ FlagInv'
    BY <1>1, EnterEffect
  <1>3. TypeOK'
    BY <1>1, <1>2 DEF UserExit, TypeOK
  <1>4. SuspendedInv'
    BY <1>1, <1>2 DEF UserExit, TypeOK, SuspendedInv, Suspended, Depth, LeftState, FrameInv, StateInv
  <1>5. FrameInv'
    BY <1>1, <1>2 DEF UserExit, TypeOK, FrameInv, Depth, FlagInv, StateInv
  <1>6. StateInv'
    BY <1>1, <1>2 DEF UserExit, TypeOK, StateInv, SuspendedInv, Suspended, FrameInv, FlagInv, QueueInv, InHand, LeftState, Depth
  <1>7. QueueInv'
    BY <1>1, <1>2 DEF UserExit, TypeOK, QueueInv, FrameInv, StateInv, InHand, LeftState
  <1> QED BY <1>2, <1>3, <1>4, <1>5, <1>6, <1>7

\* task_exit marks the current task DEAD and calls task_reschedule, one critical
\* section deeper.
LEMMA ExitDeadStep ==
    ASSUME IInv, ExitDead
    PROVE  IInv'
  <1> USE DEF IInv
  <1>1. /\ cpu = current_task /\ pc[cpu] \notin {"cli", "sti"}
        /\ EnterCritical("rs_old") /\ UNCHANGED <<cpu, intFlag>>
    BY DEF ExitDead, FrameInv
  <1>2. /\ csc' = [csc EXCEPT ![cpu] = @ + 1] /\ csc' \in [Task -> Nat]
        /\ pc' \in [Task -> Label] /\ link' \in Target \cup {"none"}
        /\ \A t \in Task : t # cpu => pc'[t] = pc[t]
        /\ Here' = "rs_old" /\ FlagInv'
    BY <1>1, EnterEffect
  <1>3. TypeOK'
    BY <1>1, <1>2 DEF ExitDead, TypeOK
  <1>4. SuspendedInv'
    BY <1>1, <1>2 DEF ExitDead, TypeOK, SuspendedInv, Suspended, Depth, LeftState, FrameInv, StateInv
  <1>5. FrameInv'
    BY <1>1, <1>2 DEF ExitDead, TypeOK, FrameInv, Depth, FlagInv, StateInv
  <1>6. StateInv'
    BY <1>1, <1>2 DEF ExitDead, TypeOK, StateInv, SuspendedInv, Suspended, FrameInv, FlagInv, QueueInv, InHand, LeftState, Depth
  <1>7. QueueInv'
    BY <1>1, <1>2 DEF ExitDead, TypeOK, QueueInv, FrameInv, StateInv, InHand, LeftState
  <1> QED BY <1>2, <1>3, <1>4, <1>5, <1>6, <1>7

\* The boot code starts the boot thread inside its critical section.
LEMMA BootStartStep ==
    ASSUME IInv, BootStart
    PROVE  IInv'
  <1> USE DEF IInv
  <1>0. cpu = Idle /\ nest[Idle] = 0 /\ csc[Idle] = 1 /\ state[Idle] = "INITIAL"
    BY DEF BootStart, FrameInv, StateInv, Depth
  <1>1. /\ cpu = current_task /\ pc[cpu] \notin {"cli", "sti"}
        /\ EnterCritical("start_check") /\ UNCHANGED <<cpu, intFlag>>
    BY DEF BootStart, CallStart, FrameInv
  <1>2. /\ csc' = [csc EXCEPT ![cpu] = @ + 1] /\ csc' \in [Task -> Nat]
        /\ pc' \in [Task -> Label] /\ link' \in Target \cup {"none"}
        /\ \A t \in Task : t # cpu => pc'[t] = pc[t]
        /\ Here' = "start_check" /\ FlagInv'
    BY <1>1, EnterEffect
  <1>3. TypeOK'
    BY <1>1, <1>2 DEF BootStart, CallStart, TypeOK
  <1>4. SuspendedInv'
    <2>1. \A v \in Task : v # cpu => ret'[v] = ret[v] /\ csc'[v] = csc[v]
      BY <1>2 DEF BootStart, CallStart, TypeOK
    <2> QED BY <1>0, <1>1, <1>2, <2>1 DEF BootStart, CallStart, SuspendedInv, Suspended
  <1>5. FrameInv'
    <2>1. csc'[Idle] = 2 /\ nest'[Idle] = 0
      BY <1>0, <1>2 DEF BootStart, CallStart, TypeOK
    <2>2. csc'[Idle] = Depth(Idle)'
      BY <1>0, <1>1, <1>2, <2>1 DEF BootStart, CallStart, TypeOK, Depth
    <2> QED BY <1>0, <1>1, <1>2, <2>1, <2>2 DEF BootStart, CallStart, FrameInv, TypeOK
  <1>6. StateInv'
    BY <1>1, <1>2, ZenonT(60) DEF BootStart, CallStart, TypeOK, StateInv, SuspendedInv, Suspended, FrameInv, FlagInv, QueueInv, InHand, LeftState, Depth
  <1>7. QueueInv'
    BY <1>1, <1>2 DEF BootStart, CallStart, TypeOK, QueueInv, FrameInv, StateInv, InHand, LeftState
  <1> QED BY <1>2, <1>3, <1>4, <1>5, <1>6, <1>7

\* The boot code gives up the CPU for the first time.
LEMMA BecomeIdleStep ==
    ASSUME IInv, BecomeIdle
    PROVE  IInv'
  <1> USE DEF IInv
  <1>0. cpu = Idle /\ nest[Idle] = 0 /\ csc[Idle] = 1 /\ state[Idle] = "INITIAL"
    BY DEF BecomeIdle, FrameInv, StateInv, Depth
  <1>1. /\ cpu = current_task /\ pc[cpu] \notin {"cli", "sti"}
        /\ EnterCritical("rs_old") /\ UNCHANGED <<cpu, intFlag>>
    BY DEF BecomeIdle, CallReschedule, FrameInv
  <1>2. /\ csc' = [csc EXCEPT ![cpu] = @ + 1] /\ csc' \in [Task -> Nat]
        /\ pc' \in [Task -> Label] /\ link' \in Target \cup {"none"}
        /\ \A t \in Task : t # cpu => pc'[t] = pc[t]
        /\ Here' = "rs_old" /\ FlagInv'
    BY <1>1, EnterEffect
  <1>3. TypeOK'
    BY <1>1, <1>2 DEF BecomeIdle, CallReschedule, TypeOK
  <1>4. SuspendedInv'
    <2>1. \A v \in Task : v # cpu => ret'[v] = ret[v] /\ csc'[v] = csc[v]
      BY <1>2 DEF BecomeIdle, CallReschedule, TypeOK
    <2> QED BY <1>0, <1>1, <1>2, <2>1 DEF BecomeIdle, CallReschedule, SuspendedInv, Suspended
  <1>5. FrameInv'
    <2>1. csc'[Idle] = 2 /\ nest'[Idle] = 0
      BY <1>0, <1>2 DEF BecomeIdle, CallReschedule, TypeOK
    <2>2. csc'[Idle] = Depth(Idle)'
      BY <1>0, <1>1, <1>2, <2>1 DEF BecomeIdle, CallReschedule, TypeOK, Depth
    <2> QED BY <1>0, <1>1, <1>2, <2>1, <2>2 DEF BecomeIdle, CallReschedule, FrameInv, TypeOK
  <1>6. StateInv'
    BY <1>1, <1>2, ZenonT(60) DEF BecomeIdle, CallReschedule, TypeOK, StateInv, SuspendedInv, Suspended, FrameInv, FlagInv, QueueInv, InHand, LeftState, Depth
  <1>7. QueueInv'
    BY <1>1, <1>2 DEF BecomeIdle, CallReschedule, TypeOK, QueueInv, FrameInv, StateInv, InHand, LeftState
  <1> QED BY <1>2, <1>3, <1>4, <1>5, <1>6, <1>7

\* task_start leaves its critical section and returns, to the boot code or to
\* the client that called it.
LEMMA StartExitStep ==
    ASSUME IInv, StartExit
    PROVE  IInv'
  <1> USE DEF IInv
  <1>1. /\ cpu = current_task /\ pc[cpu] \notin {"cli", "sti"} /\ csc[cpu] # 0
        /\ ExitCritical(ret[cpu]) /\ ret[cpu] \in Target /\ UNCHANGED <<cpu, intFlag>>
    BY DEF StartExit, TypeOK, FrameInv, Depth, StateInv
  <1>2. /\ csc' = [csc EXCEPT ![cpu] = @ - 1] /\ csc' \in [Task -> Nat]
        /\ pc' \in [Task -> Label] /\ link' \in Target \cup {"none"}
        /\ \A t \in Task : t # cpu => pc'[t] = pc[t]
        /\ Here' = ret[cpu] /\ FlagInv'
    BY <1>1, ExitEffect
  <1>3. TypeOK'
    BY <1>1, <1>2 DEF StartExit, TypeOK
  <1>4. SuspendedInv'
    BY <1>1, <1>2 DEF StartExit, TypeOK, SuspendedInv, Suspended, Depth, LeftState, FrameInv, StateInv
  <1>5. FrameInv'
    <2>1. csc[cpu] = nest[cpu] + (IF cpu = Idle THEN 2 ELSE 1) /\ nest[cpu] \in Nat
      BY DEF StartExit, TypeOK, FrameInv, StateInv, Depth
    <2>2. /\ csc'[cpu] = nest[cpu] + (IF cpu = Idle THEN 1 ELSE 0)
          /\ ret'[cpu] = "none" /\ nest' = nest /\ arg' \in Task
      BY <1>1, <1>2, <2>1 DEF StartExit, TypeOK
    <2>3. csc'[cpu] = Depth(cpu)'
      BY <1>1, <1>2, <2>2 DEF StartExit, TypeOK, FrameInv, StateInv, Depth
    <2> QED BY <1>1, <1>2, <2>2, <2>3 DEF StartExit, TypeOK, FrameInv, StateInv
  <1>6. StateInv'
    <2>1. /\ Here = "start_exit"
          /\ Here' = IF cpu = Idle THEN "become_idle" ELSE "user"
      BY <1>1, <1>2 DEF StartExit, FrameInv
    <2>2. state[cpu] = IF cpu = Idle THEN "INITIAL" ELSE "RUNNING"
      BY <2>1 DEF StateInv
    <2> QED BY <1>1, <2>1, <2>2 DEF StartExit, StateInv
  <1>7. QueueInv'
    BY <1>1, <1>2, SMTT(30) DEF StartExit, TypeOK, QueueInv, FrameInv, StateInv, InHand, LeftState
  <1> QED BY <1>2, <1>3, <1>4, <1>5, <1>6, <1>7

\* task_reschedule leaves its critical section and returns: never to task_exit,
\* as no stack left there is resumed.
LEMMA RsExitStep ==
    ASSUME IInv, RsExit
    PROVE  IInv'
  <1> USE DEF IInv
  <1>1. /\ cpu = current_task /\ pc[cpu] \notin {"cli", "sti"} /\ csc[cpu] # 0
        /\ ExitCritical(ret[cpu]) /\ ret[cpu] \in Target /\ UNCHANGED <<cpu, intFlag>>
    BY DEF RsExit, TypeOK, FrameInv, Depth, StateInv
  <1>2. /\ csc' = [csc EXCEPT ![cpu] = @ - 1] /\ csc' \in [Task -> Nat]
        /\ pc' \in [Task -> Label] /\ link' \in Target \cup {"none"}
        /\ \A t \in Task : t # cpu => pc'[t] = pc[t]
        /\ Here' = ret[cpu] /\ FlagInv'
    BY <1>1, ExitEffect
  <1>3. TypeOK'
    BY <1>1, <1>2 DEF RsExit, TypeOK
  <1>4. SuspendedInv'
    BY <1>1, <1>2 DEF RsExit, TypeOK, SuspendedInv, Suspended, Depth, LeftState, FrameInv, StateInv
  <1>5. FrameInv'
    <2>1. csc[cpu] = nest[cpu] + (IF cpu = Idle THEN 2 ELSE 1) /\ nest[cpu] \in Nat
      BY DEF RsExit, TypeOK, FrameInv, StateInv, Depth
    <2>0. ret[cpu] = IF cpu = Idle THEN "idle_exit" ELSE "user"
      BY DEF RsExit, FrameInv, StateInv
    <2>2. /\ csc'[cpu] = nest[cpu] + (IF cpu = Idle THEN 1 ELSE 0)
          /\ ret'[cpu] = "none" /\ nest' = nest /\ arg' \in Task
      BY <1>1, <1>2, <2>1 DEF RsExit, TypeOK
    <2>3. csc'[cpu] = Depth(cpu)'
      BY <1>1, <1>2, <2>0, <2>2, SMTT(30) DEF TypeOK, Depth
    <2> QED BY <1>1, <1>2, <2>2, <2>3 DEF RsExit, TypeOK, FrameInv, StateInv
  <1>6. StateInv'
    <2>1. /\ Here = "rs_exit"
          /\ Here' = IF cpu = Idle THEN "idle_exit" ELSE "user"
      BY <1>1, <1>2 DEF RsExit, FrameInv, StateInv
    <2>2. state[cpu] = "RUNNING"
      BY <2>1 DEF StateInv
    <2> QED BY <1>1, <2>1, <2>2 DEF RsExit, StateInv
  <1>7. QueueInv'
    BY <1>1, <1>2 DEF RsExit, TypeOK, QueueInv, FrameInv, StateInv, InHand, LeftState
  <1> QED BY <1>2, <1>3, <1>4, <1>5, <1>6, <1>7

\* The boot code leaves its last critical section and is the idle loop.
LEMMA IdleExitStep ==
    ASSUME IInv, IdleExit
    PROVE  IInv'
  <1> USE DEF IInv
  <1>0. cpu = Idle /\ nest[Idle] = 0 /\ csc[Idle] = 1 /\ ret[Idle] = "none"
    <2>1. Here = "idle_exit"
      BY DEF IdleExit
    <2>2. cpu = Idle /\ nest[Idle] = 0 /\ ret[Idle] = "none"
      BY <2>1 DEF FrameInv
    <2> QED BY <2>1, <2>2 DEF FrameInv, Depth
  <1>1. /\ cpu = current_task /\ pc[cpu] \notin {"cli", "sti"} /\ csc[cpu] # 0
        /\ ExitCritical("hlt") /\ "hlt" \in Target /\ UNCHANGED <<cpu, intFlag>>
    BY <1>0 DEF IdleExit, FrameInv
  <1>2. /\ csc' = [csc EXCEPT ![cpu] = @ - 1] /\ csc' \in [Task -> Nat]
        /\ pc' \in [Task -> Label] /\ link' \in Target \cup {"none"}
        /\ \A t \in Task : t # cpu => pc'[t] = pc[t]
        /\ Here' = "hlt" /\ FlagInv'
    BY <1>1, ExitEffect
  <1>3. TypeOK'
    BY <1>1, <1>2 DEF IdleExit, TypeOK
  <1>4. SuspendedInv'
    <2>1. \A t \in Task : t # cpu => csc'[t] = csc[t]
      BY <1>2 DEF TypeOK
    <2> QED BY <1>1, <1>2, <2>1 DEF IdleExit, SuspendedInv, Suspended
  <1>5. FrameInv'
    <2>1. csc'[Idle] = 0 /\ nest'[Idle] = 0 /\ ret'[Idle] = "none"
      BY <1>0, <1>2 DEF IdleExit, TypeOK
    <2>2. csc'[Idle] = Depth(Idle)'
      BY <1>0, <1>1, <1>2, <2>1 DEF Depth
    <2> QED BY <1>0, <1>1, <1>2, <2>1, <2>2 DEF IdleExit, FrameInv, Depth
  <1>6. StateInv'
    BY <1>1, <1>2, ZenonT(60) DEF IdleExit, TypeOK, StateInv, SuspendedInv, Suspended, FrameInv, FlagInv, QueueInv, InHand, LeftState, Depth
  <1>7. QueueInv'
    BY <1>1, <1>2 DEF IdleExit, TypeOK, QueueInv, FrameInv, StateInv, InHand, LeftState
  <1> QED BY <1>2, <1>3, <1>4, <1>5, <1>6, <1>7

\* A new task leaves the critical section it was born in.
LEMMA TrampolineStep ==
    ASSUME IInv, Trampoline
    PROVE  IInv'
  <1> USE DEF IInv
  <1>1. /\ cpu = current_task /\ pc[cpu] \notin {"cli", "sti"} /\ csc[cpu] # 0
        /\ ExitCritical("user") /\ "user" \in Target /\ UNCHANGED <<cpu, intFlag>>
    BY DEF Trampoline, TypeOK, FrameInv, Depth, StateInv
  <1>2. /\ csc' = [csc EXCEPT ![cpu] = @ - 1] /\ csc' \in [Task -> Nat]
        /\ pc' \in [Task -> Label] /\ link' \in Target \cup {"none"}
        /\ \A t \in Task : t # cpu => pc'[t] = pc[t]
        /\ Here' = "user" /\ FlagInv'
    BY <1>1, ExitEffect
  <1>3. TypeOK'
    BY <1>1, <1>2 DEF Trampoline, TypeOK
  <1>4. SuspendedInv'
    BY <1>1, <1>2 DEF Trampoline, TypeOK, SuspendedInv, Suspended, Depth, LeftState, FrameInv, StateInv
  <1>5. FrameInv'
    BY <1>1, <1>2 DEF Trampoline, TypeOK, FrameInv, Depth, FlagInv, StateInv
  <1>6. StateInv'
    <2>1. /\ state' = state /\ current_task' = current_task /\ cpu' = cpu /\ Here' = "user"
          /\ Here = "trampoline"
      BY <1>1, <1>2 DEF Trampoline, At, Here, Where
    <2>2. /\ state[cpu] = "RUNNING"
          /\ \A t \in Task : state[t] = "RUNNING" => t = current_task
      BY <2>1 DEF StateInv
    <2> QED BY <2>1, <2>2 DEF StateInv, StartLabel
  <1>7. QueueInv'
    BY <1>1, <1>2 DEF Trampoline, TypeOK, QueueInv, FrameInv, StateInv, InHand, LeftState
  <1> QED BY <1>2, <1>3, <1>4, <1>5, <1>6, <1>7

\* A client leaves a critical section it entered.
LEMMA UserLeaveStep ==
    ASSUME IInv, UserLeave
    PROVE  IInv'
  <1> USE DEF IInv
  <1>1. /\ cpu = current_task /\ pc[cpu] \notin {"cli", "sti"} /\ csc[cpu] # 0
        /\ ExitCritical("user") /\ "user" \in Target /\ UNCHANGED <<cpu, intFlag>>
    BY DEF UserLeave, TypeOK, FrameInv, Depth, StateInv
  <1>2. /\ csc' = [csc EXCEPT ![cpu] = @ - 1] /\ csc' \in [Task -> Nat]
        /\ pc' \in [Task -> Label] /\ link' \in Target \cup {"none"}
        /\ \A t \in Task : t # cpu => pc'[t] = pc[t]
        /\ Here' = "user" /\ FlagInv'
    BY <1>1, ExitEffect
  <1>3. TypeOK'
    BY <1>1, <1>2 DEF UserLeave, TypeOK
  <1>4. SuspendedInv'
    BY <1>1, <1>2 DEF UserLeave, TypeOK, SuspendedInv, Suspended, Depth, LeftState, FrameInv, StateInv
  <1>5. FrameInv'
    <2>1. Here = "user" /\ cpu # Idle /\ ret[cpu] = "none" /\ cpu \in Task
      BY DEF UserLeave, TypeOK, FrameInv
    <2>2. csc[cpu] = nest[cpu]
      BY <2>1 DEF FrameInv, Depth, TypeOK
    <2>3. csc'[cpu] = nest'[cpu] /\ nest'[cpu] \in Nat
      BY <1>2, <2>1, <2>2 DEF UserLeave, TypeOK
    <2>4. csc'[cpu] = Depth(cpu)'
      BY <1>1, <1>2, <2>1, <2>3 DEF UserLeave, Depth
    <2> QED BY <1>1, <1>2, <2>1, <2>4 DEF UserLeave, FrameInv
  <1>6. StateInv'
    BY <1>1, <1>2 DEF UserLeave, TypeOK, StateInv, SuspendedInv, Suspended, FrameInv, FlagInv, QueueInv, InHand, LeftState, Depth
  <1>7. QueueInv'
    BY <1>1, <1>2 DEF UserLeave, TypeOK, QueueInv, FrameInv, StateInv, InHand, LeftState
  <1> QED BY <1>2, <1>3, <1>4, <1>5, <1>6, <1>7

\* The cli of enter_critical_section ends the window in which the count was
\* already one and interrupts were still on.
LEMMA CliStep ==
    ASSUME IInv, Cli
    PROVE  IInv'
  <1> USE DEF IInv
  <1>1. TypeOK'
    BY DEF Cli, TypeOK, FrameInv, StateInv
  <1>2. SuspendedInv'
    BY DEF Cli, TypeOK, SuspendedInv, FrameInv, StateInv, Suspended, Depth, LeftState
  <1>3. FrameInv'
    BY DEF Cli, TypeOK, FrameInv, FlagInv, StateInv, SuspendedInv, Suspended, Depth
  <1>4. FlagInv'
    BY DEF Cli, TypeOK, FrameInv, FlagInv, StateInv, Depth
  <1>5. StateInv'
    BY DEF Cli, TypeOK, SuspendedInv, Suspended, FrameInv, FlagInv, StateInv, QueueInv, InHand, LeftState
  <1>6. QueueInv'
    BY DEF Cli, TypeOK, FrameInv, StateInv, QueueInv, InHand, LeftState
  <1> QED BY <1>1, <1>2, <1>3, <1>4, <1>5, <1>6

\* The sti of exit_critical_section ends the window in which the count was
\* already zero and interrupts were still off.
LEMMA StiStep ==
    ASSUME IInv, Sti
    PROVE  IInv'
  <1> USE DEF IInv
  <1>1. TypeOK'
    BY DEF Sti, TypeOK, FrameInv, StateInv
  <1>2. SuspendedInv'
    BY DEF Sti, TypeOK, SuspendedInv, FrameInv, StateInv, Suspended, Depth, LeftState
  <1>3. FrameInv'
    BY DEF Sti, TypeOK, FrameInv, FlagInv, StateInv, SuspendedInv, Suspended, Depth
  <1>4. FlagInv'
    BY DEF Sti, TypeOK, FrameInv, FlagInv, StateInv, Depth
  <1>5. StateInv'
    BY DEF Sti, TypeOK, SuspendedInv, Suspended, FrameInv, FlagInv, StateInv, QueueInv, InHand, LeftState
  <1>6. QueueInv'
    BY DEF Sti, TypeOK, FrameInv, StateInv, QueueInv, InHand, LeftState
  <1> QED BY <1>1, <1>2, <1>3, <1>4, <1>5, <1>6

\* task_start takes an INITIAL task in hand and refuses any other.
LEMMA StartCheckStep ==
    ASSUME IInv, StartCheck
    PROVE  IInv'
  <1> USE DEF IInv
  <1>1. TypeOK'
    <2>1. pc' \in [Task -> Label]
      BY DEF StartCheck, TypeOK
    <2>2. state' \in [Task -> TaskState]
      BY DEF StartCheck, TypeOK
    <2> QED BY <2>1, <2>2, SMTT(30) DEF StartCheck, TypeOK
  <1>2. SuspendedInv'
    BY DEF StartCheck, TypeOK, SuspendedInv, FrameInv, StateInv, Suspended, Depth, LeftState
  <1>3. FrameInv'
    BY SMTT(30) DEF StartCheck, TypeOK, FrameInv, FlagInv, StateInv, SuspendedInv, Suspended, Depth
  <1>4. FlagInv'
    BY DEF StartCheck, TypeOK, FrameInv, FlagInv, StateInv, Depth
  <1>5. StateInv'
    BY SMTT(30) DEF StartCheck, TypeOK, SuspendedInv, Suspended, FrameInv, FlagInv, StateInv, QueueInv, InHand, LeftState
  <1>6. QueueInv'
    BY SMTT(30) DEF StartCheck, TypeOK, FrameInv, StateInv, QueueInv, InHand, LeftState
  <1> QED BY <1>1, <1>2, <1>3, <1>4, <1>5, <1>6

\* task_start puts the task in hand in the queue, where it was not yet.
LEMMA StartAddStep ==
    ASSUME IInv, StartAdd
    PROVE  IInv'
  <1> USE DEF IInv
  <1>1. TypeOK'
    BY PrependMembers DEF StartAdd, TypeOK, FrameInv, StateInv
  <1>2. SuspendedInv'
    BY DEF StartAdd, TypeOK, SuspendedInv, FrameInv, StateInv, Suspended, Depth, LeftState
  <1>3. FrameInv'
    BY DEF StartAdd, TypeOK, FrameInv, FlagInv, StateInv, SuspendedInv, Suspended, Depth
  <1>4. FlagInv'
    BY DEF StartAdd, TypeOK, FrameInv, FlagInv, StateInv, Depth
  <1>5. StateInv'
    BY DEF StartAdd, TypeOK, SuspendedInv, Suspended, FrameInv, FlagInv, StateInv, QueueInv, InHand, LeftState
  <1>6. QueueInv'
    BY PrependMembers DEF StartAdd, TypeOK, FrameInv, StateInv, QueueInv, InHand, LeftState
  <1> QED BY <1>1, <1>2, <1>3, <1>4, <1>5, <1>6

\* task_reschedule takes a RUNNING task in hand and leaves a DEAD one, and the
\* boot stack, out of the queue.
LEMMA RsOldStep ==
    ASSUME IInv, RsOld
    PROVE  IInv'
  <1> USE DEF IInv
  <1>1. TypeOK'
    <2>1. pc' \in [Task -> Label]
      BY DEF RsOld, TypeOK
    <2>2. state' \in [Task -> TaskState]
      BY DEF RsOld, TypeOK
    <2> QED BY <2>1, <2>2 DEF RsOld, TypeOK
  <1>2. SuspendedInv'
    BY DEF RsOld, TypeOK, SuspendedInv, FrameInv, StateInv, Suspended, Depth, LeftState
  <1>3. FrameInv'
    BY SMTT(30) DEF RsOld, TypeOK, FrameInv, FlagInv, StateInv, SuspendedInv, Suspended, Depth
  <1>4. FlagInv'
    BY DEF RsOld, TypeOK, FrameInv, FlagInv, StateInv, Depth
  <1>5. StateInv'
    BY DEF RsOld, TypeOK, SuspendedInv, Suspended, FrameInv, FlagInv, StateInv, QueueInv, InHand, LeftState
  <1>6. QueueInv'
    BY SMTT(30) DEF RsOld, TypeOK, FrameInv, StateInv, QueueInv, InHand, LeftState
  <1> QED BY <1>1, <1>2, <1>3, <1>4, <1>5, <1>6

\* task_reschedule puts the old task in the queue, where it was not yet.
LEMMA RsAddStep ==
    ASSUME IInv, RsAdd
    PROVE  IInv'
  <1> USE DEF IInv
  <1>1. TypeOK'
    BY AppendMembers DEF RsAdd, TypeOK, FrameInv, StateInv
  <1>2. SuspendedInv'
    BY DEF RsAdd, TypeOK, SuspendedInv, FrameInv, StateInv, Suspended, Depth, LeftState
  <1>3. FrameInv'
    BY DEF RsAdd, TypeOK, FrameInv, FlagInv, StateInv, SuspendedInv, Suspended, Depth
  <1>4. FlagInv'
    BY DEF RsAdd, TypeOK, FrameInv, FlagInv, StateInv, Depth
  <1>5. StateInv'
    BY DEF RsAdd, TypeOK, SuspendedInv, Suspended, FrameInv, FlagInv, StateInv, QueueInv, InHand, LeftState
  <1>6. QueueInv'
    BY AppendMembers DEF RsAdd, TypeOK, FrameInv, StateInv, QueueInv, InHand, LeftState
  <1> QED BY <1>1, <1>2, <1>3, <1>4, <1>5, <1>6

\* task_reschedule takes the head of the queue in hand, or finds the queue
\* empty and falls back to the idle task.
LEMMA RsPickStep ==
    ASSUME IInv, RsPick
    PROVE  IInv'
  <1> USE DEF IInv
  <1>0. /\ run_queue' \in Seq(Client) /\ IsInjective(run_queue')
        /\ \/ /\ run_queue = <<>> /\ run_queue' = <<>> /\ current_task' = Idle
              /\ Range(run_queue) = {} /\ Range(run_queue') = {}
           \/ /\ current_task' \in Client /\ current_task' \in Range(run_queue)
              /\ Range(run_queue') = Range(run_queue) \ {current_task'}
    <2>1. CASE run_queue = <<>>
      <3>1. DOMAIN run_queue = {}
        BY <2>1
      <3>2. Range(run_queue) = {}
        BY <3>1 DEF Range
      <3> QED BY <2>1, <3>2 DEF RsPick, TypeOK, QueueInv
    <2>2. CASE run_queue # <<>>
      <3>1. /\ current_task' = Head(run_queue) /\ run_queue' = Tail(run_queue)
            /\ run_queue \in Seq(Client) /\ IsInjective(run_queue)
        BY <2>2 DEF RsPick, TypeOK, QueueInv
      <3>2. /\ Head(run_queue) \in Client /\ Tail(run_queue) \in Seq(Client)
            /\ IsInjective(Tail(run_queue)) /\ Head(run_queue) \in Range(run_queue)
            /\ Range(Tail(run_queue)) = Range(run_queue) \ {Head(run_queue)}
        BY <2>2, <3>1, TailMembers
      <3> QED BY <3>1, <3>2
    <2> QED BY <2>1, <2>2
  <1>1. TypeOK'
    <2>1. pc' \in [Task -> Label]
      BY DEF RsPick, TypeOK
    <2> QED BY <1>0, <2>1 DEF RsPick, TypeOK
  <1>2. SuspendedInv'
    BY DEF RsPick, TypeOK, SuspendedInv, FrameInv, StateInv, Suspended, Depth, LeftState
  <1>3. FrameInv'
    BY DEF RsPick, TypeOK, FrameInv, FlagInv, StateInv, SuspendedInv, Suspended, Depth
  <1>4. FlagInv'
    BY DEF RsPick, TypeOK, FrameInv, FlagInv, StateInv, Depth
  <1>5. StateInv'
    BY DEF RsPick, TypeOK, SuspendedInv, Suspended, FrameInv, FlagInv, StateInv, QueueInv, InHand, LeftState
  <1>6. QueueInv'
    <2>1. Here = "rs_pick" /\ Here' = "rs_run" /\ state' = state
      BY DEF RsPick, TypeOK
    <2>2. Range(run_queue) = {t \in Task : state[t] = "READY"}
      BY <2>1 DEF QueueInv, InHand
    <2>3. state[Idle] # "READY"
      BY <2>1, <2>2 DEF TypeOK, Range
    <2>4. InHand' = {current_task'} \ {Idle}
      BY <2>1 DEF InHand
    <2> QED BY <1>0, <2>1, <2>2, <2>4 DEF QueueInv
  <1> QED BY <1>1, <1>2, <1>3, <1>4, <1>5, <1>6

\* The picked task becomes the one RUNNING task.
LEMMA RsRunStep ==
    ASSUME IInv, RsRun
    PROVE  IInv'
  <1> USE DEF IInv
  <1>0. /\ Here = "rs_run" /\ Here' = "rs_switch" /\ pc[cpu] = "rs_run"
        /\ state' = [state EXCEPT ![current_task] = "RUNNING"]
        /\ state'[current_task] = "RUNNING" /\ current_task \in Task /\ cpu \in Task
        /\ \A t \in Task : t # current_task => state'[t] = state[t]
    BY DEF RsRun, TypeOK
  <1>9. current_task # Idle => state[current_task] = "READY"
    BY <1>0 DEF QueueInv, InHand
  <1>10. cpu # Idle => ret[cpu] \in {"user", "unreachable"}
    BY <1>0 DEF FrameInv
  <1>1. TypeOK'
    BY DEF RsRun, TypeOK, FrameInv, StateInv
  <1>2. SuspendedInv'
    <2> SUFFICES ASSUME NEW t \in Task, t # cpu PROVE Suspended(t)'
      BY DEF RsRun, SuspendedInv
    <2>1. Suspended(t)
      BY DEF SuspendedInv
    <2>2. pc'[t] = pc[t] /\ csc' = csc /\ ret' = ret /\ nest' = nest
      BY DEF RsRun, TypeOK
    <2>3. CASE t = current_task
      BY <1>0, <1>9, <2>1, <2>2, <2>3 DEF Suspended
    <2>4. CASE t # current_task
      BY <1>0, <2>1, <2>2, <2>4 DEF Suspended
    <2> QED BY <2>3, <2>4
  <1>3. FrameInv'
    BY DEF RsRun, TypeOK, FrameInv, FlagInv, StateInv, SuspendedInv, Suspended, Depth
  <1>4. FlagInv'
    BY DEF RsRun, TypeOK, FrameInv, FlagInv, StateInv, Depth
  <1>5. StateInv'
    BY DEF RsRun, TypeOK, SuspendedInv, Suspended, FrameInv, FlagInv, StateInv, QueueInv, InHand, LeftState
  <1>6. QueueInv'
    <2>1. Range(run_queue) = {t \in Task : state[t] = "READY"} \ {current_task}
      <3>1. CASE current_task = Idle
        <4>1. Range(run_queue) = {t \in Task : state[t] = "READY"}
          BY <1>0, <3>1 DEF QueueInv, InHand
        <4> QED BY <3>1, <4>1, SMTT(30) DEF TypeOK, Range
      <3>2. CASE current_task # Idle
        BY <1>0, <3>2 DEF QueueInv, InHand
      <3> QED BY <3>1, <3>2
    <2>2. InHand' = {}
      BY <1>0 DEF InHand
    <2>3. {t \in Task : state'[t] = "READY"} = {t \in Task : state[t] = "READY"} \ {current_task}
      BY <1>0
    <2> QED BY <1>0, <2>1, <2>2, <2>3 DEF RsRun, QueueInv
  <1> QED BY <1>1, <1>2, <1>3, <1>4, <1>5, <1>6

\* x86_asm_switch leaves one suspended stack behind and resumes another, whose
\* counter, return address and state fit the place it is resumed at.
LEMMA RsSwitchStep ==
    ASSUME IInv, RsSwitch
    PROVE  IInv'
  <1> USE DEF IInv
  <1>0. /\ Here = "rs_switch" /\ pc[cpu] = "rs_switch" /\ ~intFlag
        /\ cpu \in Task /\ current_task \in Task /\ state[current_task] = "RUNNING"
        /\ pc' = [pc EXCEPT ![cpu] = "rs_exit"] /\ pc'[cpu] = "rs_exit"
        /\ cpu' = current_task /\ current_task' = current_task
        /\ UNCHANGED <<state, csc, run_queue, intFlag, link, ret, arg, nest, irqPending>>
    BY DEF RsSwitch, TypeOK, StateInv, FrameInv, FlagInv, Depth
  <1>7. \/ /\ current_task # Idle /\ pc'[cpu'] = "trampoline" /\ ret[cpu'] = "none"
           /\ nest[cpu'] = 0 /\ csc[cpu'] = 1
        \/ /\ current_task # Idle /\ pc'[cpu'] = "rs_exit" /\ ret[cpu'] = "user"
           /\ csc[cpu'] = nest[cpu'] + 1
        \/ /\ current_task = Idle /\ pc'[cpu'] = "rs_exit" /\ ret[cpu'] = "idle_exit"
           /\ nest[cpu'] = 0 /\ csc[cpu'] = 2
    <2>1. CASE current_task = cpu
      <3>1. ret[cpu] = IF cpu = Idle THEN "idle_exit" ELSE "user"
        BY <1>0, <2>1 DEF StateInv, FrameInv
      <3>2. csc[cpu] = Depth(cpu) /\ (cpu = Idle => nest[cpu] = 0) /\ nest[cpu] \in Nat
        BY DEF FrameInv, TypeOK
      <3>3. csc[cpu] = nest[cpu] + (IF cpu = Idle THEN 2 ELSE 1)
        BY <1>0, <3>1, <3>2 DEF Depth
      <3> QED BY <1>0, <2>1, <3>1, <3>2, <3>3
    <2>2. CASE current_task # cpu
      <3>1. Suspended(current_task) /\ pc'[current_task] = pc[current_task]
        BY <1>0, <2>2 DEF SuspendedInv, TypeOK
      <3> QED BY <1>0, <3>1 DEF Suspended
    <2> QED BY <2>1, <2>2
  <1>8. /\ Here' = pc'[cpu'] /\ Here' \in {"rs_exit", "trampoline"} /\ csc'[cpu'] # 0
        /\ nest[cpu'] \in Nat
    BY <1>0, <1>7 DEF TypeOK
  <1>9. csc'[cpu'] = Depth(cpu)'
    BY <1>0, <1>7, <1>8 DEF Depth
  <1>1. TypeOK'
    BY DEF RsSwitch, TypeOK, FrameInv, StateInv
  <1>2. SuspendedInv'
    BY DEF RsSwitch, TypeOK, SuspendedInv, FrameInv, StateInv, Suspended, Depth, LeftState
  <1>3. FrameInv'
    BY <1>0, <1>7, <1>8, <1>9 DEF FrameInv
  <1>4. FlagInv'
    BY <1>0, <1>8 DEF FlagInv
  <1>5. StateInv'
    <2>1. \A t \in Task : state[t] = "RUNNING" => t = current_task
      BY DEF StateInv
    <2> QED BY <1>0, <1>7, <1>8, <2>1 DEF StateInv
  <1>6. QueueInv'
    <2>1. InHand = {} /\ InHand' = {}
      BY <1>0, <1>8 DEF InHand
    <2> QED BY <1>0, <1>8, <2>1 DEF QueueInv
  <1> QED BY <1>1, <1>2, <1>3, <1>4, <1>5, <1>6

\* The boot code creates the first client, when there are none yet.
LEMMA BootCreateStep ==
    ASSUME IInv, BootCreate
    PROVE  IInv'
  <1> USE DEF IInv
  <1>0. Here = "boot" /\ cpu = Idle /\ state[Boot] = "none" /\ Here' = "boot_start"
    BY DEF BootCreate, InitTask, TypeOK, FrameInv, StateInv
  <1>1. TypeOK'
    BY DEF BootCreate, InitTask, TypeOK, FrameInv, StateInv
  <1>2. SuspendedInv'
    BY <1>0 DEF BootCreate, InitTask, TypeOK, SuspendedInv, FrameInv, StateInv, Suspended, Depth, LeftState
  <1>3. FrameInv'
    BY DEF BootCreate, InitTask, TypeOK, FrameInv, FlagInv, StateInv, SuspendedInv, Suspended, Depth
  <1>4. FlagInv'
    BY DEF BootCreate, InitTask, TypeOK, FrameInv, FlagInv, StateInv, Depth
  <1>5. StateInv'
    BY DEF BootCreate, InitTask, TypeOK, SuspendedInv, Suspended, FrameInv, FlagInv, StateInv, QueueInv, InHand, LeftState
  <1>6. QueueInv'
    BY <1>0 DEF BootCreate, InitTask, TypeOK, FrameInv, StateInv, QueueInv, InHand, LeftState
  <1> QED BY <1>1, <1>2, <1>3, <1>4, <1>5, <1>6

\* task_create on a structure that is not alive prepares a stack that can be
\* resumed, without touching the queue.
LEMMA UserCreateStep ==
    ASSUME IInv, NEW u \in Client, UserCreate(u)
    PROVE  IInv'
  <1> USE DEF IInv
  <1>1. TypeOK'
    <2>1. u \in Task /\ "INITIAL" \in TaskState /\ {"trampoline", "user"} \subseteq Label
      OBVIOUS
    <2>2. state' \in [Task -> TaskState] /\ csc' \in [Task -> Nat]
      BY <2>1 DEF UserCreate, InitTask, TypeOK
    <2>3. nest' \in [Task -> 0..MaxNest]
      BY <2>1 DEF UserCreate, InitTask, TypeOK
    <2>4. pc' \in [Task -> Label]
      BY <2>1 DEF UserCreate, InitTask, TypeOK
    <2> QED BY <2>1, <2>2, <2>3, <2>4, ZenonT(60) DEF UserCreate, InitTask, TypeOK
  <1>2. SuspendedInv'
    BY DEF UserCreate, InitTask, TypeOK, SuspendedInv, FrameInv, StateInv, Suspended, Depth, LeftState
  <1>3. FrameInv'
    BY DEF UserCreate, InitTask, TypeOK, FrameInv, FlagInv, StateInv, SuspendedInv, Suspended, Depth
  <1>4. FlagInv'
    BY DEF UserCreate, InitTask, TypeOK, FrameInv, FlagInv, StateInv, Depth
  <1>5. StateInv'
    BY DEF UserCreate, InitTask, TypeOK, SuspendedInv, Suspended, FrameInv, FlagInv, StateInv, QueueInv, InHand, LeftState
  <1>6. QueueInv'
    BY DEF UserCreate, InitTask, TypeOK, FrameInv, StateInv, QueueInv, InHand, LeftState
  <1> QED BY <1>1, <1>2, <1>3, <1>4, <1>5, <1>6

\* A device raises an interrupt.
LEMMA RaiseIrqStep ==
    ASSUME IInv, RaiseIrq
    PROVE  IInv'
  <1> USE DEF IInv
  <1>1. TypeOK'
    BY DEF RaiseIrq, TypeOK, FrameInv, StateInv
  <1>2. SuspendedInv'
    BY DEF RaiseIrq, TypeOK, SuspendedInv, FrameInv, StateInv, Suspended, Depth, LeftState
  <1>3. FrameInv'
    BY DEF RaiseIrq, TypeOK, FrameInv, FlagInv, StateInv, SuspendedInv, Suspended, Depth
  <1>4. FlagInv'
    BY DEF RaiseIrq, TypeOK, FrameInv, FlagInv, StateInv, Depth
  <1>5. StateInv'
    BY DEF RaiseIrq, TypeOK, SuspendedInv, Suspended, FrameInv, FlagInv, StateInv, QueueInv, InHand, LeftState
  <1>6. QueueInv'
    BY DEF RaiseIrq, TypeOK, FrameInv, StateInv, QueueInv, InHand, LeftState
  <1> QED BY <1>1, <1>2, <1>3, <1>4, <1>5, <1>6

\* An interrupt is taken and returns.
LEMMA TakeIrqStep ==
    ASSUME IInv, TakeIrq
    PROVE  IInv'
  <1> USE DEF IInv
  <1>1. TypeOK'
    BY DEF TakeIrq, TypeOK, FrameInv, StateInv
  <1>2. SuspendedInv'
    BY DEF TakeIrq, TypeOK, SuspendedInv, FrameInv, StateInv, Suspended, Depth, LeftState
  <1>3. FrameInv'
    BY DEF TakeIrq, TypeOK, FrameInv, FlagInv, StateInv, SuspendedInv, Suspended, Depth
  <1>4. FlagInv'
    BY DEF TakeIrq, TypeOK, FrameInv, FlagInv, StateInv, Depth
  <1>5. StateInv'
    BY DEF TakeIrq, TypeOK, SuspendedInv, Suspended, FrameInv, FlagInv, StateInv, QueueInv, InHand, LeftState
  <1>6. QueueInv'
    BY DEF TakeIrq, TypeOK, FrameInv, StateInv, QueueInv, InHand, LeftState
  <1> QED BY <1>1, <1>2, <1>3, <1>4, <1>5, <1>6

-----------------------------------------------------------------------------
(* The invariant and what it implies *)

\* The state task_init leaves satisfies the invariant.
LEMMA InitInv == Init => IInv
  <1> SUFFICES ASSUME Init PROVE IInv
    OBVIOUS
  <1>1. TypeOK
    <2>1. run_queue \in Seq(Client)
      BY DEF Init
    <2>2. /\ state \in [Task -> TaskState] /\ csc \in [Task -> Nat]
          /\ pc \in [Task -> Label] /\ nest \in [Task -> 0..MaxNest]
      BY DEF Init
    <2> QED BY <2>1, <2>2 DEF Init, TypeOK
  <1>2. SuspendedInv
    BY DEF Init, SuspendedInv, Suspended
  <1>3. FrameInv
    BY DEF Init, FrameInv, Depth
  <1>4. FlagInv /\ StateInv
    BY DEF Init, FlagInv, StateInv
  <1>5. QueueInv
    <2>1. Range(run_queue) = {} /\ IsInjective(run_queue)
      BY DEF Init, Range, IsInjective
    <2>2. InHand = {}
      BY DEF Init, InHand
    <2> QED BY <2>1, <2>2 DEF Init, QueueInv
  <1> QED BY <1>1, <1>2, <1>3, <1>4, <1>5 DEF IInv

\* A step that changes nothing keeps the invariant.
LEMMA StutterStep == IInv /\ UNCHANGED vars => IInv'
  BY SMTT(30) DEF vars, IInv, TypeOK, SuspendedInv, Suspended, FrameInv, Depth, FlagInv,
         StateInv, LeftState, QueueInv, InHand

\* Every reachable state of the scheduler satisfies the inductive invariant.
THEOREM Invariance == Spec => []IInv
  <1>1. ASSUME IInv, [Next]_vars PROVE IInv'
    <2>1. CASE KernelStep
      BY <1>1, <2>1, CliStep, StiStep, TrampolineStep, StartCheckStep,
         StartAddStep, StartExitStep, RsOldStep, RsAddStep, RsPickStep,
         RsRunStep, RsSwitchStep, RsExitStep, ExitDeadStep, BootCreateStep,
         BootStartStep, BecomeIdleStep, IdleExitStep DEF KernelStep
    <2>2. CASE ClientStep
      BY <1>1, <2>2, UserCreateStep, UserStartStep, UserYieldStep,
         UserEnterStep, UserLeaveStep, UserExitStep DEF ClientStep
    <2>3. CASE RaiseIrq
      BY <1>1, <2>3, RaiseIrqStep
    <2>4. CASE TakeIrq
      BY <1>1, <2>4, TakeIrqStep
    <2>5. CASE UNCHANGED vars
      BY <1>1, <2>5, StutterStep
    <2> QED BY <1>1, <2>1, <2>2, <2>3, <2>4, <2>5 DEF Next
  <1> QED BY InitInv, <1>1, PTL DEF Spec

\* The variables keep their types: no counter of a task goes negative and only
\* clients are ever queued.
THEOREM TypeCorrect == Spec => []TypeOK
  <1>1. IInv => TypeOK
    BY DEF IInv
  <1> QED BY Invariance, <1>1, PTL

\* An interrupt handler never finds the scheduler's state half changed.
THEOREM IrqQuiescent == Spec => []IrqSeesQuiescent
  <1>1. IInv => IrqSeesQuiescent
    <2> SUFFICES ASSUME IInv, intFlag PROVE IrqSeesQuiescent
      BY DEF IrqSeesQuiescent
    <2>1. Here \notin {"start_add", "rs_add", "rs_pick", "rs_run", "rs_switch"}
      BY DEF IInv, TypeOK, FlagInv, FrameInv, Depth
    <2>2. Range(run_queue) = {t \in Task : state[t] = "READY"} /\ IsInjective(run_queue)
      BY <2>1 DEF IInv, QueueInv, InHand
    <2>3. Here \in {"user", "start_check", "rs_old", "exit_dead", "hlt", "trampoline"}
          /\ csc[cpu] \in {0, 1} /\ csc[cpu] = Depth(cpu) /\ nest[cpu] \in Nat
      BY <2>1 DEF IInv, TypeOK, FlagInv, FrameInv, Depth
    <2>4. Here \in {"start_check", "rs_old"} => cpu # Idle /\ ret[cpu] # "unreachable"
      BY <2>3 DEF IInv, FrameInv, Depth
    <2>5. state[cpu] = "RUNNING" /\ cpu = current_task
      BY <2>3, <2>4 DEF IInv, FrameInv, StateInv
    <2>6. \A t \in Task : state[t] = "RUNNING" <=> t = current_task
      BY <2>5 DEF IInv, StateInv
    <2> QED BY <2>2, <2>5, <2>6 DEF IrqSeesQuiescent
  <1> QED BY Invariance, <1>1, PTL

\* Every task's counter is the number of critical sections its own code is in,
\* and the interrupt flag follows the counter of the task on the CPU.
THEOREM SectionsBalance == Spec => []CriticalSectionsBalance
  <1>1. IInv => CriticalSectionsBalance
    <2> SUFFICES ASSUME IInv PROVE CriticalSectionsBalance
      OBVIOUS
    <2>1. ASSUME NEW t \in Task, pc[t] # "none", t # cpu PROVE csc[t] = Depth(t)
      BY <2>1, SMTT(30) DEF IInv, TypeOK, SuspendedInv, Suspended, Depth
    <2>2. csc[cpu] = Depth(cpu)
      BY DEF IInv, FrameInv
    <2>3. pc[cpu] \notin {"cli", "sti"} => (intFlag <=> csc[cpu] = 0)
      BY DEF IInv, FlagInv
    <2> QED BY <2>1, <2>2, <2>3 DEF CriticalSectionsBalance
  <1> QED BY Invariance, <1>1, PTL

\* No client is left behind when the idle task takes over.
THEOREM NoneStranded == Spec => []NoStrandedTask
  <1>1. IInv => NoStrandedTask
    <2> SUFFICES ASSUME IInv, state[Idle] = "RUNNING", NEW t \in Client
                 PROVE  state[t] \notin {"READY", "RUNNING"}
      BY DEF NoStrandedTask
    <2>1. current_task = Idle /\ Here # "rs_run"
      BY DEF IInv, StateInv
    <2>2. state[t] # "RUNNING"
      BY <2>1 DEF IInv, StateInv
    <2>3. Here \in {"rs_switch", "rs_exit", "idle_exit", "hlt"}
      BY <2>1 DEF IInv, FrameInv, StateInv, LeftState
    <2>4. run_queue = <<>> /\ InHand = {}
      BY <2>1, <2>3 DEF IInv, QueueInv, InHand
    <2>5. Range(run_queue) = {}
      BY <2>4 DEF Range
    <2> QED BY <2>2, <2>4, <2>5 DEF IInv, QueueInv
  <1> QED BY Invariance, <1>1, PTL

\* A context switch only ever resumes a stack that was left to be resumed.
THEOREM ResumesSuspended == Spec => []SuspendedResumable
  <1>1. IInv => SuspendedResumable
    <2> SUFFICES ASSUME IInv, NEW t \in Client, cpu # t, state[t] \in {"INITIAL", "READY"}
                 PROVE  /\ pc[t] \in {"trampoline", "rs_exit"}
                        /\ pc[t] = "rs_exit" => ret[t] = "user"
                        /\ csc[t] > 0
      BY DEF SuspendedResumable
    <2>1. Suspended(t) /\ t # Idle /\ nest[t] \in Nat
      BY DEF IInv, TypeOK, SuspendedInv
    <2> QED BY <2>1 DEF Suspended
  <1> QED BY Invariance, <1>1, PTL

\* task_exit does not return.
THEOREM ExitIsFinal == Spec => []NeverBackFromExit
  <1>1. IInv => NeverBackFromExit
    BY ZenonT(60) DEF IInv, TypeOK, SuspendedInv, Suspended, FrameInv, NeverBackFromExit
  <1> QED BY Invariance, <1>1, PTL

-----------------------------------------------------------------------------
(* Sched implements Tasking: each action is invisible or one operation of it *)

\* The task that yields is the last of the queue until the next one is picked.
LastInv == Requeued => run_queue # <<>> /\ run_queue[Len(run_queue)] = cpu

RefInv == IInv /\ LastInv

\* A step that touches neither the states, the queue nor the task on the CPU is
\* invisible, unless it enters or leaves one of the two statements the mapping
\* undoes.
LEMMA Invisible ==
    ASSUME UNCHANGED <<state, run_queue, current_task, cpu>>,
           pc[cpu] \notin {"start_add", "rs_pick"},
           pc'[cpu] \notin {"start_add", "rs_pick"}
    PROVE  UNCHANGED Abs!vars /\ LastInv'
  <1>1. \A t \in Client : AbsStatus(t)' = AbsStatus(t)
    BY DEF AbsStatus
  <1>2. AbsQueue' = AbsQueue /\ ~Requeued'
    BY DEF AbsQueue, Requeued
  <1>3. Booted' = Booted
    BY DEF Booted
  <1> QED BY <1>1, <1>2, <1>3 DEF Abs!vars, LastInv

\* Counting a critical section, on the way to l.
LEMMA CountingInvisible ==
    ASSUME IInv, UNCHANGED <<state, run_queue, current_task, cpu>>,
           pc[cpu] \notin {"start_add", "rs_pick"},
           NEW l \in Target \ {"start_add", "rs_pick"},
           EnterCritical(l) \/ ExitCritical(l)
    PROVE  UNCHANGED Abs!vars /\ LastInv'
  <1>1. cpu \in Task /\ pc \in [Task -> Label]
    BY DEF IInv, TypeOK
  <1>2. pc'[cpu] \in {l, "cli", "sti"}
    BY <1>1 DEF EnterCritical, ExitCritical
  <1> QED BY <1>2, Invisible

\* The steps no client can see.
LEMMA CodeInvisible ==
    ASSUME IInv,
           \/ Cli \/ Sti \/ Trampoline \/ StartExit \/ RsExit
           \/ BootStart \/ BecomeIdle \/ IdleExit
           \/ (\E u \in Client : UserStart(u))
           \/ UserYield \/ UserEnter \/ UserLeave \/ UserExit
    PROVE  UNCHANGED Abs!vars /\ LastInv'
  <1>0. cpu \in Task /\ pc \in [Task -> Label] /\ nest[cpu] \in Nat
    BY DEF IInv, TypeOK
  <1>1. CASE Cli \/ Sti
    <2>1. link \notin {"start_add", "rs_pick"}
      <3>1. pc[cpu] = "cli" => link \in {"user", "start_check", "rs_old", "exit_dead"}
        BY DEF IInv, FlagInv
      <3>2. pc[cpu] = "sti" => Depth(cpu) = 0
        BY DEF IInv, FlagInv, FrameInv
      <3>3. pc[cpu] = "sti" => link \notin StartLabel \cup ReschedLabel
        BY <1>0, <3>2 DEF Depth
      <3> QED BY <1>1, <3>1, <3>3 DEF Cli, Sti
    <2>2. pc'[cpu] = link
      BY <1>0, <1>1 DEF Cli, Sti
    <2>3. pc[cpu] \notin {"start_add", "rs_pick"}
      BY <1>1 DEF Cli, Sti
    <2>4. UNCHANGED <<state, run_queue, current_task, cpu>>
      BY <1>1 DEF Cli, Sti
    <2> QED BY <2>1, <2>2, <2>3, <2>4, Invisible
  <1>2. CASE StartExit \/ RsExit
    <2>1. ret[cpu] \in Target \ {"start_add", "rs_pick"}
      BY <1>2 DEF IInv, FrameInv, StartExit, RsExit
    <2> QED BY <1>2, <2>1, CountingInvisible DEF StartExit, RsExit
  <1>3. CASE Trampoline \/ IdleExit
    BY <1>3, CountingInvisible DEF Trampoline, IdleExit
  <1>4. CASE BootStart \/ \E u \in Client : UserStart(u)
    BY <1>4, CountingInvisible DEF BootStart, UserStart, CallStart
  <1>5. CASE BecomeIdle \/ UserYield
    BY <1>5, CountingInvisible DEF BecomeIdle, UserYield, CallReschedule
  <1>6. CASE UserEnter \/ UserLeave \/ UserExit
    BY <1>6, CountingInvisible DEF UserEnter, UserLeave, UserExit
  <1> QED BY <1>1, <1>2, <1>3, <1>4, <1>5, <1>6

\* Interrupts leave the scheduler's state as it was.
LEMMA IrqInvisible ==
    ASSUME LastInv, RaiseIrq \/ TakeIrq \/ UNCHANGED vars
    PROVE  UNCHANGED Abs!vars /\ LastInv'
  <1>1. UNCHANGED <<state, run_queue, current_task, cpu, pc, arg>>
    BY DEF RaiseIrq, TakeIrq, vars
  <1>2. \A t \in Client : AbsStatus(t)' = AbsStatus(t)
    BY <1>1 DEF AbsStatus
  <1>3. AbsQueue' = AbsQueue /\ Requeued' = Requeued
    BY <1>1 DEF AbsQueue, Requeued
  <1>4. Booted' = Booted
    BY <1>1 DEF Booted
  <1> QED BY <1>1, <1>2, <1>3, <1>4 DEF Abs!vars, LastInv

\* The names task.h's clients know the states by.
LEMMA StatusValues ==
    /\ StatusOf["none"] = "none" /\ StatusOf["INITIAL"] = "initial"
    /\ StatusOf["READY"] = "ready" /\ StatusOf["RUNNING"] = "running"
    /\ StatusOf["DEAD"] = "dead"
  BY DEF StatusOf

\* task_start finds the task INITIAL, or fails: nothing a client can see yet.
LEMMA StartCheckInvisible ==
    ASSUME IInv, StartCheck
    PROVE  UNCHANGED Abs!vars /\ LastInv'
  <1>0. /\ cpu \in Task /\ pc \in [Task -> Label] /\ state \in [Task -> TaskState]
        /\ arg \in Client /\ pc[cpu] = "start_check" /\ cpu = current_task
    BY DEF IInv, TypeOK, FrameInv, StartCheck
  <1>1. ASSUME NEW t \in Client PROVE AbsStatus(t)' = AbsStatus(t)
    <2>1. CASE state[arg] = "INITIAL"
      <3>1. state' = [state EXCEPT ![arg] = "READY"] /\ pc'[cpu] = "start_add"
        BY <1>0, <2>1 DEF StartCheck
      <3>2. UNCHANGED <<arg, current_task, cpu>>
        BY DEF StartCheck
      <3>3. t # arg => state'[t] = state[t]
        BY <1>0, <3>1
      <3> QED BY <1>0, <2>1, <3>1, <3>2, <3>3, StatusValues DEF AbsStatus
    <2>2. CASE state[arg] # "INITIAL"
      <3>1. UNCHANGED <<state, arg, current_task, cpu>> /\ pc'[cpu] = "start_exit"
        BY <1>0, <2>2 DEF StartCheck
      <3> QED BY <1>0, <3>1 DEF AbsStatus
    <2> QED BY <2>1, <2>2
  <1>2. pc'[cpu] \in {"start_add", "start_exit"} /\ UNCHANGED <<run_queue, current_task, cpu>>
    BY <1>0 DEF StartCheck
  <1>3. AbsQueue' = AbsQueue /\ ~Requeued'
    BY <1>0, <1>2 DEF AbsQueue, Requeued
  <1>4. Booted' = Booted
    <2>1. state'[Idle] = state[Idle]
      BY <1>0 DEF StartCheck
    <2> QED BY <1>2, <2>1 DEF Booted
  <1> QED BY <1>1, <1>2, <1>3, <1>4 DEF Abs!vars, LastInv

\* The old task stops RUNNING, or is DEAD, before another one is picked; it is
\* still the running task a client sees.
LEMMA OldInvisible ==
    ASSUME IInv, RsOld \/ ExitDead
    PROVE  UNCHANGED Abs!vars /\ LastInv'
  <1>0. /\ cpu \in Task /\ pc \in [Task -> Label] /\ state \in [Task -> TaskState]
        /\ pc[cpu] \in {"rs_old", "exit_dead"} /\ cpu = current_task
    BY DEF IInv, TypeOK, FrameInv, RsOld, ExitDead
  <1>1. /\ pc'[cpu] \in {"rs_add", "rs_pick", "rs_old", "cli"}
        /\ pc'[cpu] = "rs_pick" => state' = state /\ state[cpu] # "READY"
    BY <1>0 DEF RsOld, ExitDead, EnterCritical, IInv, StateInv, LeftState
  <1>2. UNCHANGED <<run_queue, current_task, cpu>>
    BY DEF RsOld, ExitDead
  <1>3. \A t \in Task : t # cpu => state'[t] = state[t]
    BY <1>0 DEF RsOld, ExitDead
  <1>4. cpu = Idle => state'[cpu] = state[cpu]
    BY <1>0 DEF RsOld, ExitDead, IInv, StateInv, LeftState, FrameInv
  <1>5. \A t \in Client : AbsStatus(t)' = AbsStatus(t)
    BY <1>0, <1>1, <1>2, <1>3 DEF AbsStatus
  <1>6. AbsQueue' = AbsQueue /\ ~Requeued'
    BY <1>0, <1>1, <1>2 DEF AbsQueue, Requeued
  <1>7. Booted' = Booted
    BY <1>0, <1>2, <1>3, <1>4 DEF Booted
  <1> QED BY <1>2, <1>5, <1>6, <1>7 DEF Abs!vars, LastInv

\* list_add_tail, and the last element taken off again.
LEMMA AppendLast ==
    ASSUME NEW S, NEW q \in Seq(S), NEW x \in S
    PROVE  /\ SubSeq(Append(q, x), 1, Len(Append(q, x)) - 1) = q
           /\ Append(q, x) # <<>>
           /\ Append(q, x)[Len(Append(q, x))] = x
  OBVIOUS

\* A queue is its last element appended to the rest.
LEMMA LastAppend ==
    ASSUME NEW S, NEW q \in Seq(S), q # <<>>
    PROVE  Append(SubSeq(q, 1, Len(q) - 1), q[Len(q)]) = q
  OBVIOUS

\* The yielding task is queued; the mapping hides it until the next is picked.
LEMMA RsAddInvisible ==
    ASSUME IInv, RsAdd
    PROVE  UNCHANGED Abs!vars /\ LastInv'
  <1>0. /\ cpu \in Task /\ pc \in [Task -> Label] /\ state \in [Task -> TaskState]
        /\ pc[cpu] = "rs_add" /\ cpu = current_task /\ run_queue \in Seq(Client)
        /\ state[cpu] = "READY" /\ cpu \in Client
    BY DEF IInv, TypeOK, FrameInv, StateInv, RsAdd
  <1>1. /\ UNCHANGED <<state, cpu, current_task>> /\ pc'[cpu] = "rs_pick"
        /\ run_queue' = Append(run_queue, cpu)
    BY <1>0 DEF RsAdd
  <1>2. \A t \in Client : AbsStatus(t)' = AbsStatus(t)
    BY <1>0, <1>1 DEF AbsStatus
  <1>3. Requeued' /\ ~Requeued /\ Booted' = Booted
    BY <1>0, <1>1 DEF Requeued, Booted
  <1>4. AbsQueue' = AbsQueue
    BY <1>0, <1>1, <1>3, AppendLast DEF AbsQueue
  <1>5. LastInv'
    BY <1>0, <1>1, AppendLast DEF LastInv
  <1> QED BY <1>1, <1>2, <1>3, <1>4, <1>5 DEF Abs!vars

\* Switching the stacks: the task a client sees running has changed before.
LEMMA RsSwitchInvisible ==
    ASSUME IInv, RsSwitch
    PROVE  UNCHANGED Abs!vars /\ LastInv'
  <1>0. /\ cpu \in Task /\ pc \in [Task -> Label] /\ state \in [Task -> TaskState]
        /\ pc[cpu] = "rs_switch" /\ current_task \in Task
        /\ state[current_task] = "RUNNING"
    BY DEF IInv, TypeOK, StateInv, RsSwitch
  <1>1. /\ UNCHANGED <<state, run_queue, current_task>> /\ cpu' = current_task
        /\ pc' = [pc EXCEPT ![cpu] = "rs_exit"]
    BY DEF RsSwitch
  <1>2. pc'[cpu'] \in {"rs_exit", "trampoline"}
    BY <1>0, <1>1 DEF IInv, SuspendedInv, Suspended
  <1>3. \A t \in Client : AbsStatus(t)' = AbsStatus(t)
    BY <1>0, <1>1, <1>2 DEF AbsStatus
  <1>4. ~Requeued' /\ ~Requeued /\ Booted' /\ Booted
    BY <1>0, <1>1, <1>2 DEF Requeued, Booted
  <1> QED BY <1>1, <1>3, <1>4 DEF Abs!vars, LastInv, AbsQueue

\* The step at which the CPU changes hands.
LEMMA RsPickVisible ==
    ASSUME RefInv, RsPick
    PROVE  [Abs!Next]_(Abs!vars) /\ LastInv'
  <1> DEFINE status == [t \in Client |-> AbsStatus(t)]
  <1>0. /\ cpu \in Task /\ pc \in [Task -> Label] /\ state \in [Task -> TaskState]
        /\ pc[cpu] = "rs_pick" /\ cpu = current_task /\ run_queue \in Seq(Client)
        /\ state[cpu] = LeftState
    BY DEF RefInv, IInv, TypeOK, FrameInv, StateInv, RsPick
  <1>1. /\ UNCHANGED <<state, cpu>> /\ pc'[cpu] = "rs_run"
        /\ run_queue = <<>> => current_task' = Idle /\ run_queue' = run_queue
        /\ run_queue # <<>> => current_task' = Head(run_queue) /\ run_queue' = Tail(run_queue)
    BY <1>0 DEF RsPick
  <1>2. run_queue # <<>> => Head(run_queue) \in Client
    BY <1>0
  <1>3. ~Requeued' /\ AbsQueue' = run_queue' /\ LastInv'
    BY <1>1 DEF Requeued, AbsQueue, LastInv
  <1>4. \A t \in Client : AbsStatus(t)' = IF t = current_task' THEN "running" ELSE StatusOf[state[t]]
    BY <1>1 DEF AbsStatus
  <1>5. \A t \in Client : AbsStatus(t) = IF t = cpu THEN "running" ELSE StatusOf[state[t]]
    BY <1>0 DEF AbsStatus
  <1>6. CASE cpu = Idle
    <2>1. state[cpu] = "INITIAL"
      BY <1>0, <1>6 DEF RefInv, IInv, FrameInv, LeftState
    <2>2. ~Booted /\ ~Requeued /\ AbsQueue = run_queue
      BY <1>0, <1>6, <2>1 DEF Booted, Requeued, AbsQueue
    <2>3. CASE run_queue = <<>>
      <3>1. ~Booted' /\ current_task' = current_task
        BY <1>0, <1>1, <1>6, <2>1, <2>3 DEF Booted
      <3>2. status' = status
        BY <1>0, <1>4, <1>5, <3>1
      <3>3. Booted' = Booted
        BY <2>2, <3>1 DEF Booted
      <3>4. AbsQueue' = AbsQueue
        BY <1>1, <1>3, <2>2, <2>3
      <3> QED BY <1>3, <3>1, <3>2, <3>3, <3>4 DEF Abs!vars
    <2>4. CASE run_queue # <<>>
      <3>1. Booted' /\ current_task' = Head(run_queue) /\ Head(run_queue) \in Client
        BY <1>1, <1>2, <2>4 DEF Booted
      <3>2. status' = [status EXCEPT ![Head(run_queue)] = "running"]
        BY <1>4, <1>5, <1>6, <3>1
      <3>3. Abs!Dispatch(status, AbsQueue)
        BY <1>1, <1>3, <2>2, <2>4, <3>1, <3>2 DEF Abs!Dispatch
      <3> QED BY <1>3, <2>2, <3>1, <3>3 DEF Abs!BecomeIdle, Abs!Next
    <2> QED BY <2>3, <2>4
  <1>7. CASE cpu # Idle /\ state[cpu] = "READY"
    <2>1. Requeued /\ cpu \in Client /\ Booted /\ Booted'
      BY <1>0, <1>1, <1>7 DEF Requeued, Booted
    <2>2. run_queue # <<>> /\ Append(AbsQueue, cpu) = run_queue
      BY <1>0, <2>1, LastAppend DEF RefInv, LastInv, AbsQueue
    <2>3. current_task' = Head(run_queue) /\ Head(run_queue) \in Client
      BY <1>1, <1>2, <2>2
    <2>4. status' = [[status EXCEPT ![cpu] = "ready"] EXCEPT ![Head(run_queue)] = "running"]
      BY <1>4, <1>5, <1>7, <2>1, <2>3, StatusValues
    <2>5. Abs!Dispatch([status EXCEPT ![current_task] = "ready"], Append(AbsQueue, current_task))
      BY <1>0, <1>1, <1>3, <2>2, <2>3, <2>4 DEF Abs!Dispatch
    <2>6. Abs!Yield
      BY <1>0, <1>7, <2>1, <2>5 DEF Abs!Yield
    <2> QED BY <1>3, <2>6 DEF Abs!Next
  <1>8. CASE cpu # Idle /\ state[cpu] # "READY"
    <2>1. state[cpu] = "DEAD" /\ cpu \in Client
      BY <1>0, <1>8 DEF LeftState, RefInv, IInv, FrameInv
    <2>2. ~Requeued /\ AbsQueue = run_queue /\ Booted /\ Booted'
      BY <1>0, <1>1, <1>8 DEF Requeued, AbsQueue, Booted
    <2> DEFINE st == [status EXCEPT ![cpu] = "dead"]
    <2>3. CASE run_queue = <<>>
      <3>1. status' = st
        <4>1. current_task' = Idle /\ \A t \in Client : t # Idle
          BY <1>1, <2>3
        <4>2. \A t \in Client : status'[t] = st[t]
          BY <1>4, <1>5, <2>1, <4>1, StatusValues
        <4> QED BY <4>2
      <3>2. Abs!Dispatch(st, AbsQueue)
        BY <1>1, <1>3, <2>2, <2>3, <3>1 DEF Abs!Dispatch
      <3>3. Abs!Exit
        BY <1>0, <1>8, <2>2, <3>2 DEF Abs!Exit
      <3> QED BY <1>3, <3>3 DEF Abs!Next
    <2>4. CASE run_queue # <<>>
      <3>1. current_task' = Head(run_queue) /\ Head(run_queue) \in Client
        BY <1>1, <1>2, <2>4
      <3>2. status' = [st EXCEPT ![Head(run_queue)] = "running"]
        <4>1. \A t \in Client : status'[t] = [st EXCEPT ![Head(run_queue)] = "running"][t]
          BY <1>4, <1>5, <2>1, <3>1, StatusValues
        <4> QED BY <3>1, <4>1
      <3>3. Abs!Dispatch(st, AbsQueue)
        BY <1>1, <1>3, <2>2, <2>4, <3>1, <3>2 DEF Abs!Dispatch
      <3>4. Abs!Exit
        BY <1>0, <1>8, <2>2, <3>3 DEF Abs!Exit
      <3> QED BY <1>3, <3>4 DEF Abs!Next
    <2> QED BY <2>3, <2>4
  <1> QED BY <1>6, <1>7, <1>8

\* Marking the picked task: visible only when the boot code finds no task to
\* run and becomes the idle task at once.
LEMMA RsRunVisible ==
    ASSUME RefInv, RsRun
    PROVE  [Abs!Next]_(Abs!vars) /\ LastInv'
  <1> DEFINE status == [t \in Client |-> AbsStatus(t)]
  <1>0. /\ cpu \in Task /\ pc \in [Task -> Label] /\ state \in [Task -> TaskState]
        /\ pc[cpu] = "rs_run" /\ current_task \in Task
        /\ current_task = Idle => run_queue = <<>>
    BY DEF RefInv, IInv, TypeOK, QueueInv, RsRun
  <1>1. /\ UNCHANGED <<run_queue, current_task, cpu>> /\ pc'[cpu] = "rs_switch"
        /\ state' = [state EXCEPT ![current_task] = "RUNNING"]
    BY <1>0 DEF RsRun
  <1>2. \A t \in Client : AbsStatus(t)' = AbsStatus(t)
    BY <1>0, <1>1 DEF AbsStatus
  <1>3. ~Requeued /\ ~Requeued' /\ AbsQueue = run_queue /\ AbsQueue' = run_queue
    BY <1>0, <1>1 DEF Requeued, AbsQueue
  <1>4. Booted'
    BY <1>0, <1>1 DEF Booted
  <1>5. CASE Booted
    BY <1>1, <1>2, <1>3, <1>4, <1>5 DEF Abs!vars, LastInv
  <1>6. CASE ~Booted
    <2>1. current_task = Idle /\ run_queue = <<>>
      BY <1>0, <1>6 DEF Booted
    <2>2. Abs!Dispatch(status, AbsQueue)
      BY <1>1, <1>2, <1>3, <2>1 DEF Abs!Dispatch
    <2> QED BY <1>3, <1>4, <1>6, <2>2 DEF Abs!BecomeIdle, Abs!Next, LastInv
  <1> QED BY <1>5, <1>6

\* The started task is READY, and first in the queue, in one step.
LEMMA StartAddVisible ==
    ASSUME RefInv, StartAdd
    PROVE  Abs!Next /\ LastInv'
  <1> DEFINE status == [t \in Client |-> AbsStatus(t)]
  <1>0. /\ cpu \in Task /\ pc \in [Task -> Label] /\ state \in [Task -> TaskState]
        /\ pc[cpu] = "start_add" /\ cpu = current_task /\ arg \in Client
        /\ state[cpu] = (IF cpu = Idle THEN "INITIAL" ELSE "RUNNING")
    BY DEF RefInv, IInv, TypeOK, FrameInv, StateInv, StartAdd
  <1>1. state[arg] = "READY"
    BY <1>0 DEF RefInv, IInv, QueueInv, InHand
  <1>2. /\ UNCHANGED <<state, current_task, cpu, arg>> /\ pc'[cpu] = "start_exit"
        /\ run_queue' = <<arg>> \o run_queue
    BY <1>0 DEF StartAdd
  <1>3. arg # current_task
    BY <1>0, <1>1
  <1>4. status[arg] = "initial"
    BY <1>0, <1>3 DEF AbsStatus
  <1>5. status' = [status EXCEPT ![arg] = "ready"]
    BY <1>0, <1>1, <1>2, <1>3, StatusValues DEF AbsStatus
  <1>6. ~Requeued /\ ~Requeued' /\ AbsQueue = run_queue /\ AbsQueue' = <<arg>> \o run_queue
    BY <1>0, <1>2 DEF Requeued, AbsQueue
  <1>7. Booted' = Booted /\ (current_task # Idle \/ ~Booted)
    BY <1>0, <1>2 DEF Booted
  <1>8. Abs!Start(arg)
    BY <1>0, <1>2, <1>4, <1>5, <1>6, <1>7 DEF Abs!Start, Abs!Active
  <1> QED BY <1>0, <1>6, <1>8 DEF Abs!Next, LastInv

\* task_create is visible when it marks the task INITIAL.
LEMMA CreateVisible ==
    ASSUME RefInv, NEW u \in Client,
           \/ BootCreate /\ u = Boot
           \/ UserCreate(u)
    PROVE  Abs!Next /\ LastInv'
  <1> DEFINE status == [t \in Client |-> AbsStatus(t)]
  <1>0. /\ cpu \in Task /\ pc \in [Task -> Label] /\ state \in [Task -> TaskState]
        /\ pc[cpu] \in {"boot", "user"} /\ cpu = current_task
        /\ state[u] \in {"none", "DEAD"}
        /\ state[cpu] = (IF cpu = Idle THEN "INITIAL" ELSE "RUNNING")
    BY DEF RefInv, IInv, TypeOK, FrameInv, StateInv, BootCreate, UserCreate
  <1>1. /\ UNCHANGED <<run_queue, current_task, cpu>> /\ u # cpu
        /\ state' = [state EXCEPT ![u] = "INITIAL"]
        /\ pc'[cpu] \in {"boot_start", "user"}
    BY <1>0 DEF BootCreate, UserCreate, InitTask
  <1>2. status[u] \in {"none", "dead"}
    BY <1>0, <1>1, StatusValues DEF AbsStatus
  <1>3. status' = [status EXCEPT ![u] = "initial"]
    BY <1>0, <1>1, StatusValues DEF AbsStatus
  <1>4. ~Requeued /\ ~Requeued' /\ AbsQueue = run_queue /\ AbsQueue' = run_queue
    BY <1>0, <1>1 DEF Requeued, AbsQueue
  <1>5. Booted' = Booted /\ (current_task # Idle \/ ~Booted)
    BY <1>0, <1>1 DEF Booted
  <1>6. Abs!Create(u)
    BY <1>1, <1>2, <1>3, <1>4, <1>5 DEF Abs!Create, Abs!Active
  <1> QED BY <1>4, <1>6 DEF Abs!Next, LastInv

\* Every step of the code is a step of the tasking interface, or invisible.
LEMMA StepSimulation ==
    ASSUME RefInv, [Next]_vars
    PROVE  [Abs!Next]_(Abs!vars) /\ LastInv'
  <1>1. CASE KernelStep
    BY <1>1, CodeInvisible, StartCheckInvisible, OldInvisible, RsAddInvisible,
       RsSwitchInvisible, RsPickVisible, RsRunVisible, StartAddVisible,
       CreateVisible DEF KernelStep, RefInv
  <1>2. CASE ClientStep
    BY <1>2, CodeInvisible, CreateVisible DEF ClientStep, RefInv
  <1>3. CASE RaiseIrq \/ TakeIrq \/ UNCHANGED vars
    BY <1>3, IrqInvisible DEF RefInv
  <1> QED BY <1>1, <1>2, <1>3 DEF Next

\* The state task_init leaves is one in which nothing has been created.
LEMMA InitSimulation == Init => Abs!Init /\ LastInv
  <1> SUFFICES ASSUME Init PROVE Abs!Init /\ LastInv
    OBVIOUS
  <1>1. /\ state \in [Task -> TaskState] /\ current_task = Idle /\ cpu = Idle
        /\ run_queue = <<>> /\ pc[cpu] = "boot" /\ state[Idle] = "INITIAL"
        /\ \A t \in Client : state[t] = "none" /\ t # Idle
    BY DEF Init
  <1>2. \A t \in Client : AbsStatus(t) = "none"
    BY <1>1, StatusValues DEF AbsStatus
  <1>3. AbsQueue = <<>> /\ ~Requeued /\ ~Booted
    BY <1>1 DEF AbsQueue, Requeued, Booted
  <1> QED BY <1>1, <1>2, <1>3 DEF Abs!Init, LastInv

\* task.c, its critical sections and its context switch implement the tasking
\* of task.h: every step of the code is one operation of Tasking or none.
THEOREM TaskingImplemented == Spec => ImplementsTasking
  <1>1. Init => RefInv /\ Abs!Init
    BY InitInv, InitSimulation DEF RefInv
  <1>2. IInv /\ LastInv /\ [Next]_vars => LastInv' /\ [Abs!Next]_(Abs!vars)
    BY StepSimulation DEF RefInv
  <1> QED BY <1>1, <1>2, Invariance, PTL DEF RefInv, Spec, ImplementsTasking, Abs!Spec
=============================================================================
