----------------------------- MODULE TrapsProofs -----------------------------
(***************************************************************************)
(* Proofs about the ways into and out of the kernel, for any number of     *)
(* tasks.                                                                  *)
(***************************************************************************)
EXTENDS Traps, SequenceTheorems, TLAPS

\* Stacks of one and two frames.
LEMMA PushPop ==
    ASSUME NEW f, NEW g
    PROVE  /\ Append(<<>>, f) = <<f>>
           /\ Append(<<f>>, g) = <<f, g>>
           /\ Last(<<f>>) = f /\ Front(<<f>>) = <<>>
           /\ Last(<<f, g>>) = g /\ Front(<<f, g>>) = <<f>>
<1> DEFINE S == {f, g}
<1>1. <<f>> \in Seq(S) /\ <<f, g>> \in Seq(S) /\ <<>> \in Seq(S) /\ f \in S /\ g \in S
  OBVIOUS
<1>2. Append(<<>>, f) = <<f>>
  BY <1>1
<1>3. Append(<<f>>, g) = <<f, g>>
  <2> DEFINE both == Append(<<f>>, g)
  <2>1. both \in Seq(S) /\ Len(both) = 2 /\ both[1] = f /\ both[2] = g
    BY <1>1, AppendProperties
  <2>2. both = <<f, g>>
    <3> HIDE DEF both
    <3> QED
      BY <1>1, <2>1, SeqEqual
  <2> QED
    BY <2>2
<1>4. Last(<<f>>) = f /\ Last(<<f, g>>) = g
  BY DEF Last
<1>5. Front(<<f>>) = <<>>
  BY DEF Front
<1>6. Front(<<f, g>>) = <<f>>
  <2> DEFINE first == SubSeq(<<f, g>>, 1, 1)
  <2>1. Front(<<f, g>>) = first
    BY DEF Front
  <2>2. first \in Seq(S) /\ Len(first) = 1 /\ first[1] = f
    BY <1>1, SubSeqProperties
  <2> QED
    BY <1>1, <2>1, <2>2, SeqEqual
<1> QED
  BY <1>2, <1>3, <1>4, <1>5, <1>6

-----------------------------------------------------------------------------
(* Where the running task is says what the status registers hold; where    *)
(* any task is says what its kernel stack holds.                           *)

CallFrame(t) == {f \in Frame : /\ f.kind = "swi" /\ f.pc = "user"
                               /\ ~f.psr.irq_off
                               /\ t \notin Servers => f.psr = User}

TickFrame(t) == {f \in Frame : /\ f.kind = "irq" /\ f.pc \in {"user", "call", "exit", "leaving"}
                               /\ ~f.psr.irq_off}

Registers ==
    /\ At("user") => ~cpsr.irq_off /\ (running \notin Servers => cpsr = User)
    /\ At("call") => ~cpsr.irq_off
    /\ pc[running] \in {"critical", "tick", "stopped"} => cpsr.irq_off
    /\ ~At("user") => cpsr.mode = "svc"
    /\ At("exit") \/ At("leaving") => cpsr.irq_off \/ running \in Servers
    /\ At("leaving") => ~spsr.irq_off /\ (running \notin Servers => spsr = User)
    /\ pc[running] # "new"

Stack(t) ==
    \/ pc[t] \in {"new", "user"} /\ kstack[t] = <<>>
    \/ /\ pc[t] \in {"call", "critical", "exit", "leaving", "stopped"}
       /\ \E f \in CallFrame(t) : kstack[t] = <<f>>
    \/ /\ pc[t] = "tick"
       /\ \E g \in TickFrame(t) : /\ kstack[t] = <<g>>
                                  /\ g.pc = "user"
                                  /\ t \notin Servers => g.psr = User
    \/ /\ pc[t] = "tick"
       /\ \E f \in CallFrame(t), g \in TickFrame(t) :
             /\ kstack[t] = <<f, g>>
             /\ g.pc # "user" /\ g.psr.mode = "svc"
             /\ g.pc \in {"exit", "leaving"} => t \in Servers

TrapInv ==
    /\ TypeOK
    /\ Registers
    /\ \A t \in Tasks : Stack(t)
    /\ \A t \in Tasks : t # running => pc[t] \in {"new", "exit", "tick"}

-----------------------------------------------------------------------------
LEMMA TrapInit == Init => TrapInv
<1> SUFFICES ASSUME Init PROVE TrapInv
  OBVIOUS
<1>1. TypeOK
  BY DEF Init, TypeOK, User, Psr, Points
<1>2. Registers
  BY DEF Init, Registers, At, User
<1>3. \A t \in Tasks : Stack(t)
  BY DEF Init, Stack
<1>4. \A t \in Tasks : t # running => pc[t] \in {"new", "exit", "tick"}
  BY DEF Init
<1> QED
  BY <1>1, <1>2, <1>3, <1>4 DEF TrapInv

\* What is left to show of a step that stays with its task: the rest of the
\* invariant is about tasks that it does not touch.
LEMMA StaysWithTask ==
    ASSUME TrapInv, running' = running, TypeOK', Registers', Stack(running)',
           \A t \in Tasks \ {running} : pc'[t] = pc[t] /\ kstack'[t] = kstack[t]
    PROVE  TrapInv'
<1>1. \A t \in Tasks : Stack(t)'
  <2> TAKE t \in Tasks
  <2>1. CASE t = running
    BY <2>1
  <2>2. CASE t # running
    <3>1. Stack(t)
      BY DEF TrapInv
    <3> QED
      BY <2>2, <3>1 DEF Stack, CallFrame, TickFrame
  <2> QED
    BY <2>1, <2>2
<1>2. \A t \in Tasks : t # running' => pc'[t] \in {"new", "exit", "tick"}
  BY DEF TrapInv
<1> QED
  BY <1>1, <1>2 DEF TrapInv

\* A step that leaves the stacks alone and only moves on in a call.
LEMMA StepInCall ==
    ASSUME TrapInv, NEW p \in {"call", "critical", "exit", "leaving", "stopped"},
           pc[running] \in {"call", "critical", "exit", "leaving", "stopped"},
           GoTo(p), UNCHANGED <<running, kstack>>,
           cpsr' \in Psr, spsr' \in Psr, Registers'
    PROVE  TrapInv'
<1>1. running \in Tasks /\ pc \in [Tasks -> Points]
  BY DEF TrapInv, TypeOK
<1>2. pc' \in [Tasks -> Points] /\ pc'[running] = p
  BY <1>1 DEF GoTo, Points
<1>3. TypeOK'
  BY <1>1, <1>2 DEF TrapInv, TypeOK
<1>4. Stack(running)'
  <2>1. Stack(running)
    BY <1>1 DEF TrapInv
  <2>2. PICK f \in CallFrame(running) : kstack[running] = <<f>>
    BY <2>1 DEF Stack
  <2> QED
    BY <1>2, <2>2 DEF Stack, CallFrame
<1>5. \A t \in Tasks \ {running} : pc'[t] = pc[t] /\ kstack'[t] = kstack[t]
  BY <1>1 DEF GoTo
<1> QED
  BY <1>3, <1>4, <1>5, StaysWithTask

\* The frame that a call finds on top of the stack when it ends.
LEMMA CallEnds ==
    ASSUME TrapInv, pc[running] \in {"exit", "leaving"}
    PROVE  /\ TopFrame \in CallFrame(running)
           /\ Front(kstack[running]) = <<>>
<1>1. Stack(running)
  BY DEF TrapInv, TypeOK
<1>2. PICK f \in CallFrame(running) : kstack[running] = <<f>>
  BY <1>1 DEF Stack
<1> QED
  BY <1>2, PushPop DEF TopFrame

\* A switch of tasks, from a tick or from a call that has been left at "exit".
LEMMA SwitchTasks ==
    ASSUME TrapInv, NEW u \in Tasks, switch_to(u),
           NEW p \in {"tick", "exit"}, cpsr = [mode |-> "svc", irq_off |-> TRUE],
           Stack(running), p = "exit" => pc[running] = "critical", p = "tick" => At("tick"),
           pc' = launched(u, [pc EXCEPT ![running] = p])
    PROVE  TrapInv'
<1>1. running \in Tasks /\ u # running /\ running' = u /\ pc \in [Tasks -> Points]
  BY DEF TrapInv, TypeOK, switch_to
<1>2. pc[u] \in {"new", "exit", "tick"}
  BY <1>1 DEF TrapInv
<1>3. /\ pc' \in [Tasks -> Points]
      /\ pc'[running] = p
      /\ pc'[u] = IF pc[u] = "new" THEN "user" ELSE pc[u]
      /\ \A t \in Tasks \ {u, running} : pc'[t] = pc[t]
  BY <1>1 DEF launched, Points
<1>4. cpsr' = IF pc[u] = "new" THEN User ELSE cpsr
  BY DEF switch_to, launch_psr
<1>5. TypeOK'
  BY <1>1, <1>3, <1>4 DEF TrapInv, TypeOK, switch_to, User, Psr
<1>6. Registers'
  BY <1>1, <1>2, <1>3, <1>4 DEF Registers, At, User
<1>7. \A t \in Tasks : Stack(t)'
  <2> TAKE t \in Tasks
  <2>1. Stack(t) /\ kstack' = kstack
    BY DEF TrapInv, switch_to
  <2>2. CASE t = running
    BY <1>3, <2>1, <2>2 DEF Stack, CallFrame, TickFrame, At
  <2>3. CASE t = u
    BY <1>2, <1>3, <2>1, <2>3 DEF Stack, CallFrame, TickFrame
  <2>4. CASE t \notin {u, running}
    BY <1>3, <2>1, <2>4 DEF Stack, CallFrame, TickFrame
  <2> QED
    BY <2>2, <2>3, <2>4
<1>8. \A t \in Tasks : t # running' => pc'[t] \in {"new", "exit", "tick"}
  BY <1>1, <1>3 DEF TrapInv
<1> QED
  BY <1>5, <1>6, <1>7, <1>8 DEF TrapInv

\* A frame is pushed, on an empty stack or on that of a call.
LEMMA Pushes ==
    ASSUME TrapInv, NEW f \in Frame, Enter(f), running' = running,
           NEW p \in Points, GoTo(p), cpsr' \in Psr, spsr' \in Psr, Registers',
           \/ /\ At("user") /\ p = "call" /\ f \in CallFrame(running)
           \/ /\ At("user") /\ p = "tick" /\ f \in TickFrame(running) /\ f.pc = "user"
              /\ running \notin Servers => f.psr = User
           \/ /\ pc[running] \in {"call", "exit", "leaving"} /\ p = "tick"
              /\ f \in TickFrame(running) /\ f.pc = pc[running] /\ f.psr.mode = "svc"
              /\ f.pc \in {"exit", "leaving"} => running \in Servers
    PROVE  TrapInv'
<1>1. running \in Tasks /\ pc \in [Tasks -> Points] /\ kstack \in [Tasks -> Seq(Frame)]
  BY DEF TrapInv, TypeOK
<1>2. /\ pc' \in [Tasks -> Points] /\ pc'[running] = p
      /\ kstack'[running] = Append(kstack[running], f)
      /\ kstack' \in [Tasks -> Seq(Frame)]
      /\ \A t \in Tasks \ {running} : pc'[t] = pc[t] /\ kstack'[t] = kstack[t]
  <2>1. Append(kstack[running], f) \in Seq(Frame)
    BY <1>1
  <2> QED
    BY <1>1, <2>1 DEF GoTo, Enter
<1>3. TypeOK'
  BY <1>1, <1>2 DEF TypeOK
<1>4. Stack(running)
  BY <1>1 DEF TrapInv
<1>5. Stack(running)'
  <2>1. CASE At("user")
    <3>1. kstack[running] = <<>>
      BY <1>4, <2>1 DEF Stack, At
    <3>2. kstack'[running] = <<f>>
      BY <1>2, <3>1, PushPop
    <3> QED
      BY <1>2, <2>1, <3>2 DEF Stack, CallFrame, TickFrame, At
  <2>2. CASE pc[running] \in {"call", "exit", "leaving"}
    <3>1. PICK c \in CallFrame(running) : kstack[running] = <<c>>
      BY <1>4, <2>2 DEF Stack
    <3>2. kstack'[running] = <<c, f>>
      BY <1>2, <3>1, PushPop
    <3> QED
      BY <1>2, <2>2, <3>2 DEF Stack, CallFrame, TickFrame, At
  <2> QED
    BY <2>1, <2>2
<1> QED
  BY <1>2, <1>3, <1>5, StaysWithTask

\* The frame on top is popped, of a call or of a tick.
LEMMA Pops ==
    ASSUME TrapInv, PopFrame, running' = running, NEW p \in Points, GoTo(p),
           Front(kstack[running]) \in Seq(Frame), cpsr' \in Psr, spsr' \in Psr, Registers',
           \/ p = "user" /\ Front(kstack[running]) = <<>>
           \/ /\ p \in {"call", "exit", "leaving"}
              /\ \E f \in CallFrame(running) : Front(kstack[running]) = <<f>>
    PROVE  TrapInv'
<1>1. running \in Tasks /\ pc \in [Tasks -> Points] /\ kstack \in [Tasks -> Seq(Frame)]
  BY DEF TrapInv, TypeOK
<1>2. /\ pc' \in [Tasks -> Points] /\ pc'[running] = p
      /\ kstack'[running] = Front(kstack[running])
      /\ kstack' \in [Tasks -> Seq(Frame)]
      /\ \A t \in Tasks \ {running} : pc'[t] = pc[t] /\ kstack'[t] = kstack[t]
  BY <1>1 DEF GoTo, PopFrame
<1>3. TypeOK'
  BY <1>1, <1>2 DEF TypeOK
<1>4. Stack(running)'
  BY <1>2 DEF Stack, CallFrame
<1> QED
  BY <1>2, <1>3, <1>4, StaysWithTask

LEMMA TrapStep == TrapInv /\ [Next]_vars => TrapInv'
<1> SUFFICES ASSUME TrapInv, [Next]_vars PROVE TrapInv'
  OBVIOUS
<1>types. /\ running \in Tasks /\ pc \in [Tasks -> Points]
          /\ cpsr \in Psr /\ spsr \in Psr
          /\ Registers /\ Stack(running)
  BY DEF TrapInv, TypeOK
<1>1. CASE swi
  <2> DEFINE f == [kind |-> "swi", psr |-> cpsr, pc |-> "user"]
  <2>1. f \in CallFrame(running)
    BY <1>1, <1>types DEF swi, Registers, CallFrame, Frame, Points
  <2>2. Registers' /\ cpsr' \in Psr /\ spsr' \in Psr
    BY <1>1, <1>types DEF swi, Registers, At, GoTo, Psr
  <2>3. f \in Frame /\ "call" \in Points
    BY <2>1 DEF CallFrame, Points
  <2>4. Enter(f) /\ running' = running /\ GoTo("call") /\ At("user")
    BY <1>1 DEF swi
  <2> QED
    BY <2>1, <2>2, <2>3, <2>4, Pushes
<1>2. CASE open_call
  <2>1. Registers' /\ cpsr' \in Psr /\ spsr' \in Psr
    BY <1>2, <1>types DEF open_call, Registers, At, GoTo
  <2> QED
    BY <1>2, <2>1, StepInCall DEF open_call, At
<1>3. CASE critical_call
  <2>1. cpsr.mode = "svc"
    BY <1>3, <1>types DEF critical_call, Registers, At
  <2>2. cpsr' = [mode |-> "svc", irq_off |-> TRUE]
    BY <1>3, <1>types, <2>1 DEF critical_call, interrupts_disabled, Psr, User
  <2>3. Registers' /\ cpsr' \in Psr /\ spsr' \in Psr
    BY <1>3, <1>types, <2>1, <2>2 DEF critical_call, Registers, At, GoTo, Psr, User
  <2> QED
    BY <1>3, <2>3, StepInCall DEF critical_call, At
<1>4. CASE critical_call_returns
  <2>1. Registers' /\ cpsr' \in Psr /\ spsr' \in Psr
    BY <1>4, <1>types DEF critical_call_returns, Registers, At, GoTo
  <2> QED
    BY <1>4, <2>1, StepInCall DEF critical_call_returns, At
<1>5. CASE call_blocks
  <2>1. PICK u \in Tasks : switch_to(u) /\ pc' = launched(u, [pc EXCEPT ![running] = "exit"])
    BY <1>5 DEF call_blocks
  <2>2. cpsr = [mode |-> "svc", irq_off |-> TRUE] /\ pc[running] = "critical"
    BY <1>5, <1>types DEF call_blocks, Registers, At, Psr, User
  <2> QED
    BY <1>types, <2>1, <2>2, SwitchTasks
<1>6. CASE restore_spsr
  <2>1. TopFrame \in CallFrame(running)
    BY <1>6, CallEnds DEF restore_spsr, At
  <2>2. spsr' \in Psr /\ ~spsr'.irq_off /\ (running \notin Servers => spsr' = User)
    BY <1>6, <2>1 DEF restore_spsr, saved_spsr, CallFrame, Frame
  <2>3. Registers' /\ cpsr' \in Psr
    BY <1>6, <1>types, <2>2 DEF restore_spsr, Registers, At, GoTo
  <2> QED
    BY <1>6, <2>2, <2>3, StepInCall DEF restore_spsr, At
<1>7. CASE leave
  <2>1. Front(kstack[running]) = <<>>
    BY <1>7, CallEnds DEF leave, At
  <2>2. Registers' /\ cpsr' \in Psr /\ spsr' \in Psr
    BY <1>7, <1>types DEF leave, cpsr_from_spsr, Registers, At, GoTo
  <2>3. "user" \in Points /\ Front(kstack[running]) \in Seq(Frame)
    BY <2>1 DEF Points
  <2> QED
    BY <1>7, <2>1, <2>2, <2>3, Pops DEF leave
<1>8. CASE invalid_syscall
  <2>1. cpsr' \in Psr /\ cpsr'.irq_off
    BY <1>8, <1>types DEF invalid_syscall, Registers, At, Psr, User
  <2>2. Registers' /\ spsr' \in Psr
    BY <1>8, <1>types, <2>1 DEF invalid_syscall, Registers, At, GoTo
  <2> QED
    BY <1>8, <2>1, <2>2, StepInCall DEF invalid_syscall, At
<1>9. CASE stopped \/ UNCHANGED vars
  BY <1>9 DEF stopped, vars, TrapInv, TypeOK, Registers, Stack, At, CallFrame, TickFrame
<1>10. CASE irq_wrapper
  <2> DEFINE f == [kind |-> "irq", psr |-> cpsr, pc |-> pc[running]]
  <2>1. pc[running] \in {"user", "call", "exit", "leaving"}
    BY <1>10, <1>types DEF irq_wrapper, Registers, Points, At
  <2>2. f \in TickFrame(running) /\ f \in Frame /\ "tick" \in Points
    BY <1>10, <1>types, <2>1 DEF irq_wrapper, TickFrame, Frame, Points
  <2>3. Registers' /\ cpsr' \in Psr /\ spsr' \in Psr
    BY <1>10, <1>types DEF irq_wrapper, svc_disabled, Registers, At, GoTo, Psr
  <2>4. Enter(f) /\ running' = running /\ GoTo("tick") /\ ~cpsr.irq_off
    BY <1>10 DEF irq_wrapper
  <2>5. f.pc = pc[running] /\ f.psr = cpsr
    OBVIOUS
  <2>6. /\ ~At("user") => cpsr.mode = "svc"
        /\ At("user") /\ running \notin Servers => cpsr = User
        /\ At("exit") \/ At("leaving") => running \in Servers
    BY <1>types, <2>4 DEF Registers
  <2>7. \/ At("user") /\ f.pc = "user" /\ (running \notin Servers => f.psr = User)
        \/ /\ pc[running] \in {"call", "exit", "leaving"}
           /\ f.psr.mode = "svc"
           /\ f.pc \in {"exit", "leaving"} => running \in Servers
    BY <2>1, <2>5, <2>6 DEF At
  <2> HIDE DEF f
  <2> QED
    BY <2>2, <2>3, <2>4, <2>5, <2>7, Pushes
<1>11. CASE irq_returns
  <2>1. CASE \E g \in TickFrame(running) :
                /\ kstack[running] = <<g>>
                /\ g.pc = "user"
                /\ running \notin Servers => g.psr = User
    <3>1. PICK g \in TickFrame(running) :
                /\ kstack[running] = <<g>>
                /\ g.pc = "user"
                /\ running \notin Servers => g.psr = User
      BY <2>1
    <3>2. TopFrame = g /\ Front(kstack[running]) = <<>>
      BY <3>1, PushPop DEF TopFrame
    <3>3. spsr' = g.psr /\ cpsr' = g.psr /\ GoTo("user") /\ g.psr \in Psr /\ ~g.psr.irq_off
      BY <1>11, <3>1, <3>2 DEF irq_returns, saved_spsr, TickFrame, Frame
    <3>4. Registers' /\ running' = running /\ PopFrame
      BY <1>11, <1>types, <3>1, <3>3 DEF irq_returns, Registers, At, GoTo
    <3>5. "user" \in Points /\ Front(kstack[running]) \in Seq(Frame)
      BY <3>2 DEF Points
    <3> QED
      BY <3>2, <3>3, <3>4, <3>5, Pops
  <2>2. CASE \E f \in CallFrame(running), g \in TickFrame(running) :
                /\ kstack[running] = <<f, g>>
                /\ g.pc # "user" /\ g.psr.mode = "svc"
                /\ g.pc \in {"exit", "leaving"} => running \in Servers
    <3>1. PICK f \in CallFrame(running), g \in TickFrame(running) :
                /\ kstack[running] = <<f, g>>
                /\ g.pc # "user" /\ g.psr.mode = "svc"
                /\ g.pc \in {"exit", "leaving"} => running \in Servers
      BY <2>2
    <3>2. TopFrame = g /\ Front(kstack[running]) = <<f>>
      BY <3>1, PushPop DEF TopFrame
    <3>3. /\ spsr' = g.psr /\ cpsr' = g.psr /\ GoTo(g.pc) /\ g.psr \in Psr /\ ~g.psr.irq_off
          /\ g.pc \in {"call", "exit", "leaving"}
      BY <1>11, <3>1, <3>2 DEF irq_returns, saved_spsr, TickFrame, Frame
    <3>4. Registers' /\ running' = running /\ PopFrame
      BY <1>11, <1>types, <3>1, <3>3 DEF irq_returns, Registers, At, GoTo
    <3>5. g.pc \in Points /\ Front(kstack[running]) \in Seq(Frame)
      BY <3>2, <3>3 DEF Points, CallFrame
    <3> QED
      BY <3>2, <3>3, <3>4, <3>5, Pops
  <2>3. At("tick")
    BY <1>11 DEF irq_returns
  <2> QED
    BY <1>types, <2>1, <2>2, <2>3 DEF Stack, At
<1>12. CASE tick_switches
  <2>1. PICK u \in Tasks : switch_to(u) /\ pc' = launched(u, pc)
    BY <1>12 DEF tick_switches
  <2>2. cpsr = [mode |-> "svc", irq_off |-> TRUE] /\ At("tick")
    BY <1>12, <1>types DEF tick_switches, Registers, At, Psr, User
  <2>3. pc = [pc EXCEPT ![running] = "tick"]
    BY <1>types, <2>2 DEF At
  <2>4. pc' = launched(u, [pc EXCEPT ![running] = "tick"])
    BY <2>1, <2>3
  <2> QED
    BY <1>types, <2>1, <2>2, <2>4, SwitchTasks
<1> QED
  BY <1>1, <1>2, <1>3, <1>4, <1>5, <1>6, <1>7, <1>8, <1>9, <1>10, <1>11, <1>12 DEF Next

LEMMA TrapAlways == Spec => []TrapInv
BY TrapInit, TrapStep, PTL DEF Spec

-----------------------------------------------------------------------------
\* Type correctness of the traps, for any number of tasks.
THEOREM TypeCorrect == Spec => []TypeOK
BY TrapAlways, PTL DEF TrapInv

\* What C_SWI_Handler and C_IRQ_Handler do with interrupts disabled is never
\* interrupted, and no task is resumed half way through it with interrupts
\* enabled, for any number of tasks: the ground that module Kernel stands on.
THEOREM CallsAndTicksAreAtomic == Spec => []KernelAtomic
<1>1. TrapInv => KernelAtomic
  <2> SUFFICES ASSUME TrapInv PROVE KernelAtomic
    OBVIOUS
  <2>1. pc[running] \in {"critical", "tick", "stopped"} => cpsr.irq_off
    BY DEF TrapInv, Registers
  <2>2. ASSUME NEW t \in Tasks, NEW k \in DOMAIN kstack[t]
        PROVE  kstack[t][k].pc \notin {"critical", "tick", "stopped"}
    <3>1. Stack(t)
      BY DEF TrapInv
    <3>2. CASE kstack[t] = <<>>
      BY <2>2, <3>2
    <3>3. CASE \E f \in CallFrame(t) \cup TickFrame(t) : kstack[t] = <<f>>
      BY <2>2, <3>3 DEF CallFrame, TickFrame
    <3>4. CASE \E f \in CallFrame(t), g \in TickFrame(t) : kstack[t] = <<f, g>>
      BY <2>2, <3>4 DEF CallFrame, TickFrame
    <3> QED
      BY <3>1, <3>2, <3>3, <3>4 DEF Stack
  <2>3. \A t \in Tasks : t # running => pc[t] \in {"new", "exit", "tick"}
    BY DEF TrapInv
  <2> QED
    BY <2>1, <2>2, <2>3 DEF KernelAtomic
<1> QED
  BY <1>1, TrapAlways, PTL

\* A kernel stack never holds more than a call and a tick, for any number of
\* tasks.
THEOREM KernelStackIsEnough == Spec => []StackBounded
<1>1. TrapInv => StackBounded
  <2> SUFFICES ASSUME TrapInv, NEW t \in Tasks
               PROVE  /\ Len(kstack[t]) <= 2
                      /\ Len(kstack[t]) = 2 => /\ kstack[t][1].kind = "swi"
                                               /\ kstack[t][2].kind = "irq"
    BY DEF StackBounded
  <2>1. Stack(t)
    BY DEF TrapInv
  <2>2. CASE kstack[t] = <<>>
    BY <2>2
  <2>3. CASE \E f \in CallFrame(t) \cup TickFrame(t) : kstack[t] = <<f>>
    BY <2>3
  <2>4. CASE \E f \in CallFrame(t), g \in TickFrame(t) : kstack[t] = <<f, g>>
    BY <2>4 DEF CallFrame, TickFrame
  <2> QED
    BY <2>1, <2>2, <2>3, <2>4 DEF Stack
<1> QED
  BY <1>1, TrapAlways, PTL

\* The timer can always interrupt the code of a task, for any number of tasks.
THEOREM TasksAreInterruptible == Spec => []UserInterruptible
<1>1. TrapInv => UserInterruptible
  BY DEF TrapInv, Registers, UserInterruptible
<1> QED
  BY <1>1, TrapAlways, PTL

\* A task that makes none of the calls that leave interrupts enabled runs its
\* own code in user mode, whatever the others do.
THEOREM UserModeWithoutOpenCalls == Spec => []OthersStayInUserMode
<1>1. TrapInv => OthersStayInUserMode
  BY DEF TrapInv, Registers, OthersStayInUserMode
<1> QED
  BY <1>1, TrapAlways, PTL
=============================================================================
