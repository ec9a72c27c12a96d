------------------------------ MODULE Switcher ------------------------------
(***************************************************************************)
(* The switcher (sdk/core/switcher/entry.S): calls between compartments,   *)
(* returns, faults and their handlers, forced unwinding, and the switch    *)
(* from one thread to another.                                             *)
(*                                                                         *)
(* The switcher defers interrupts while it calls and while it handles a    *)
(* fault, so that each of these is one step.  A return and an error        *)
(* handler run with interrupts as the callee left them, or enabled: an     *)
(* interrupt may come in between and use the one spill frame of the        *)
(* thread.                                                                 *)
(*                                                                         *)
(* A thread's stack is a row of cells that grows downwards; what is saved  *)
(* in one go (the registers of a caller, those of a fault, the space kept  *)
(* for each activation) has one cell.  Register values are left out, but   *)
(* for the stack pointer, the place in the program and the interrupt       *)
(* posture that a return address carries.                                  *)
(***************************************************************************)
EXTENDS Integers, Sequences, SequencesExt

CONSTANTS
    Threads,
    Compartments,
    None,           \* no thread, no compartment
    Handlers,       \* the error handlers of each compartment: a subset of
                    \* {"stackful", "stackless"}
    IrqOff,         \* the compartments whose entry point defers interrupts
    MinimumStack,   \* the stack that the entry point of each asks for
    EntryPoint,     \* the compartment in which each thread starts
    MaxFrames,      \* frames of a trusted stack
    StackSize,      \* cells of the stack of each thread
    MaxFaults       \* MAX_FAULTS_PER_COMPARTMENT_CALL, an even number

VARIABLES
    cpu,            \* the registers; mtdc is None while the scheduler runs
    threads         \* per thread: the trusted stack and the stack

vars == <<cpu, threads>>

\* STACK_ENTRY_RESERVED_SPACE
Reserved == 1

Zero == [kind |-> "zero", at |-> "", sp |-> 0, mie |-> FALSE]
Data == [Zero EXCEPT !.kind = "data"]

NoReturn == [at |-> "", mie |-> FALSE]

\* Registers while the scheduler runs
InScheduler ==
    [mtdc |-> None, at |-> "scheduler", sp |-> 0, mie |-> FALSE, shwm |-> 0, ra |-> NoReturn]

Posture(c) == c \notin IrqOff

\* boot_threads_create
InitialThread(t) ==
    [frames |-> <<[csp |-> StackSize[t] - Reserved, callee |-> EntryPoint[t], count |-> 0]>>,
     spill |-> [InScheduler EXCEPT !.at = "body", !.sp = StackSize[t] - Reserved,
                                   !.mie = Posture(EntryPoint[t]), !.shwm = StackSize[t]],
     stack |-> [a \in 0 .. StackSize[t] - 1 |-> Zero],
     hazard |-> 0,          \* the depth of the activation that set the hazard slots
     exited |-> FALSE]

Init ==
    /\ cpu = InScheduler
    /\ threads = [t \in Threads |-> InitialThread(t)]

---------------------------------------------------------------------------
(* Steps of the switcher: m has the registers, as m.cpu, and the trusted   *)
(* and the untrusted stack of the thread that runs.                        *)

Machine(t) == [cpu |-> cpu, thread |-> threads[t]]

Frames(m) == m.thread.frames
TopFrame(m) == Last(m.thread.frames)

WithTop(m, frame) ==
    [m EXCEPT !.thread.frames = Append(Front(@), frame)]

Lower(a, b) == IF a < b THEN a ELSE b

\* A store to the stack; the high water mark follows it.
Put(m, address, cell) ==
    [m EXCEPT !.thread.stack[address] = cell, !.cpu.shwm = Lower(@, address)]

\* zero_stack
ZeroStack(m, base, top) ==
    [m EXCEPT !.thread.stack =
        [a \in DOMAIN @ |-> IF base <= a /\ a < top THEN Zero ELSE @[a]]]

\* clear_hazard_slots
ClearHazards(m) == [m EXCEPT !.thread.hazard = 0]

\* exception_entry_asm, up to the spilling of mcause
Spill(m) == [m EXCEPT !.thread.spill = m.cpu]

\* .Lcommon_thread_exit
ThreadExit(m) == [cpu |-> InScheduler, thread |-> [m.thread EXCEPT !.exited = TRUE]]

---------------------------------------------------------------------------
(* Seeded faults *)

\* The callee's stack goes up to where the caller's stack pointer was.
ChopHigh(csp) == csp + 1

\* The mark that the handler lowered is not written to the spill frame.
KeepMarkNot(m) == m

\* A fault that was handled is counted once.
HandledUncounted(m) == m

---------------------------------------------------------------------------

\* switcher_after_compartment_call, before its loop over the stack
ReturnHazards(m) == ClearHazards(m)

Pop(m) ==
    LET cleared == ReturnHazards(m)
        frame == TopFrame(m)
        saved == m.thread.stack[frame.csp]
    IN  IF Len(Frames(m)) = 1
        THEN ThreadExit(cleared)
        ELSE [cleared EXCEPT !.thread.frames = Front(@),
                             !.cpu.sp = frame.csp + 1,
                             !.cpu.at = "zero",
                             !.cpu.ra = [at |-> saved.at, mie |-> saved.mie]]

\* The rest of it: zero the stack, and return through the caller's sentry
Resume(m) ==
    LET clean == ZeroStack(m, m.cpu.shwm, m.cpu.sp)
    IN  [clean EXCEPT !.cpu.shwm = m.cpu.sp, !.cpu.at = m.cpu.ra.at, !.cpu.mie = m.cpu.ra.mie,
                      !.cpu.ra = NoReturn]

\* .Lcommon_force_unwind, reached with interrupts deferred
Unwind(m) == Pop([m EXCEPT !.cpu.mie = FALSE])

\* A trap inside the switcher: .Lhandle_error_in_switcher
TrapInside(m) == Spill([m EXCEPT !.cpu.mie = FALSE])

\* .Lswitch_stack_chop: the end of the callee's stack
Chop(csp) == csp

\* From .Lswitch_unseal_entry to the jump.  target is None when the
\* capability that the caller passed is not that of an export.
Enter(m, target) ==
    IF target = None
    THEN Unwind(TrapInside(m))
    ELSE LET top == Chop(TopFrame(m).csp)
             called == WithTop(m, [TopFrame(m) EXCEPT !.callee = target])
         IN  IF MinimumStack[target] + Reserved > top
             THEN Unwind(called)            \* .Lswitch_stack_too_small
             ELSE [called EXCEPT !.cpu.sp = top - Reserved, !.cpu.shwm = top - Reserved,
                                 !.cpu.at = "body", !.cpu.mie = Posture(target)]

\* compartment_switcher_entry
Switch(m, target) ==
    LET csp == m.cpu.sp - 1
        spilled == ClearHazards(Put(m, csp, [kind |-> "caller", at |-> m.cpu.at,
                                             sp |-> 0, mie |-> m.cpu.mie]))
        frame == [csp |-> csp, callee |-> None, count |-> 0]
        pushed == [spilled EXCEPT !.thread.frames = Append(@, frame)]
    IN  IF csp < 0
        THEN \* the first spill faults: back through .Lswitch_just_return
             [TrapInside(m) EXCEPT !.cpu = m.cpu]
        ELSE IF Len(Frames(m)) = MaxFrames
        THEN spilled                        \* .Lswitch_trusted_stack_exhausted
        ELSE Enter(ZeroStack(pushed, pushed.cpu.shwm, Chop(csp)), target)

\* The handler that .Lhandle_error finds
HandlerFor(m) ==
    LET kinds == Handlers[TopFrame(m).callee]
    IN  IF m.cpu.sp > 0 /\ "stackful" \in kinds THEN "stackful"
        ELSE IF "stackless" \in kinds THEN "stackless" ELSE "none"

\* The stack of a stackless handler: all that of the activation
RecoveredStack(m) == IF Len(Frames(m)) = 1 THEN TopFrame(m).csp ELSE 0

Counted(m) == WithTop(m, [TopFrame(m) EXCEPT !.count = @ + 1])

\* .Lhandle_error: a fault in a compartment
HandleError(m) ==
    LET trapped == Spill(m)
        counted == Counted(trapped)
        count == TopFrame(counted).count
        context == [kind |-> "context", at |-> m.cpu.at, sp |-> m.cpu.sp, mie |-> FALSE]
        stackful == Put(counted, m.cpu.sp - 1, context)
    IN  IF HandlerFor(m) = "none" THEN Unwind(trapped)
        ELSE IF count % 2 = 0 \/ count > MaxFaults THEN Unwind(counted)
        ELSE IF HandlerFor(m) = "stackful"
        THEN [stackful EXCEPT !.cpu.sp = m.cpu.sp - 1, !.cpu.at = "stackful", !.cpu.mie = TRUE]
        ELSE [counted EXCEPT !.cpu.sp = RecoveredStack(m), !.cpu.at = "stackless",
                             !.cpu.mie = TRUE]

\* The spilled mark becomes the one of the handler.
KeepMark(m) == [m EXCEPT !.thread.spill.shwm = m.cpu.shwm]

Handled(m) == Counted(m)

\* .Lhandle_error_install_context and .Lcommon_context_install: registers
\* from the handler's stack, the rest from the spill frame
InstallContext(m) ==
    LET context == m.thread.stack[m.cpu.sp]
        installed == Handled(KeepMark(m))
    IN  [installed EXCEPT !.cpu.sp = context.sp, !.cpu.at = context.at,
                          !.cpu.mie = installed.thread.spill.mie,
                          !.cpu.shwm = installed.thread.spill.shwm]

---------------------------------------------------------------------------
(* What the thread that runs can do *)

Inside == {"body", "stackful", "stackless"}

Runs(t, places) == cpu.mtdc = t /\ cpu.at \in places

Becomes(t, m) == cpu' = m.cpu /\ threads' = [threads EXCEPT ![t] = m.thread]

\* The activation's stack pointer when it was entered
EntryStack(m) == TopFrame(m).csp - (IF Len(Frames(m)) = 1 THEN 0 ELSE Reserved)

\* The compartment pushes something on its stack, or drops it.
Store(t) ==
    /\ Runs(t, {"body", "stackful"}) /\ cpu.sp > 0
    /\ Becomes(t, Put([Machine(t) EXCEPT !.cpu.sp = @ - 1], cpu.sp - 1, Data))

Drop(t) ==
    LET m == Machine(t)
    IN  /\ Runs(t, {"body", "stackful"}) /\ cpu.sp < EntryStack(m)
        /\ m.thread.stack[cpu.sp].kind # "context"
        /\ Becomes(t, [m EXCEPT !.cpu.sp = @ + 1])

\* switcher_thread_hazard_slots, and a store to them
SetHazard(t) ==
    LET m == Machine(t)
    IN  /\ Runs(t, Inside)
        /\ Becomes(t, [m EXCEPT !.thread.hazard = Len(Frames(m))])

\* A call, with a stack pointer that passes .Lswitch_csp_check or not
Call(t) ==
    /\ Runs(t, {"body", "stackful"})
    /\ \/ \E target \in Compartments \cup {None} : Becomes(t, Switch(Machine(t), target))
       \/ Becomes(t, Unwind(Machine(t)))

Return(t) == Runs(t, {"body"}) /\ Becomes(t, Pop(Machine(t)))

ReturnEnds(t) == Runs(t, {"zero"}) /\ Becomes(t, Resume(Machine(t)))

Fault(t) == Runs(t, Inside) /\ Becomes(t, HandleError(Machine(t)))

\* The handler returns InstallContext: a stackful one, with its stack pointer
\* where it was.
HandlerInstalls(t) ==
    LET m == Machine(t)
    IN  /\ Runs(t, {"stackful"}) /\ m.thread.stack[cpu.sp].kind = "context"
        /\ Becomes(t, InstallContext(m))

HandlerUnwinds(t) == Runs(t, {"stackful", "stackless"}) /\ Becomes(t, Unwind(Machine(t)))

\* cleanup_unwind and the stackless handler of unwind_error_handler: reset the
\* count and jump to the CHERIOT_HANDLER block of the function that was entered
HandlerJumps(t) ==
    LET m == Machine(t)
        reset == WithTop(m, [TopFrame(m) EXCEPT !.count = 0])
    IN  /\ Runs(t, {"stackful", "stackless"})
        /\ Becomes(t, [reset EXCEPT !.cpu.sp = EntryStack(m), !.cpu.at = "body",
                                    !.cpu.mie = Posture(TopFrame(m).callee)])

\* exception_entry_asm for an interrupt, or for the ecall of a thread that
\* yields; the scheduler returns the thread to run.
Leaves(t) ==
    Becomes(t, [cpu |-> InScheduler, thread |-> Spill(Machine(t)).thread])

Interrupt(t) == Runs(t, Inside \cup {"zero"}) /\ cpu.mie /\ Leaves(t)

Yield(t) == Runs(t, Inside) /\ Leaves(t)

Schedule(t) ==
    /\ cpu.mtdc = None /\ ~threads[t].exited
    /\ cpu' = [threads[t].spill EXCEPT !.mtdc = t]
    /\ UNCHANGED threads

Next ==
    \E t \in Threads :
        \/ Store(t) \/ Drop(t) \/ SetHazard(t)
        \/ Call(t) \/ Return(t) \/ ReturnEnds(t)
        \/ Fault(t) \/ HandlerInstalls(t) \/ HandlerUnwinds(t) \/ HandlerJumps(t)
        \/ Interrupt(t) \/ Yield(t) \/ Schedule(t)

Spec == Init /\ [][Next]_vars

---------------------------------------------------------------------------
(* Properties *)

\* The registers of thread t, on the processor or in its spill frame
Registers(t) == IF cpu.mtdc = t THEN cpu ELSE threads[t].spill

\* What the activation at depth i of thread t does: run its body or a
\* handler, now or where it made its call
Doing(t, i) ==
    LET frames == threads[t].frames
        registers == Registers(t)
    IN  IF i < Len(frames) THEN threads[t].stack[frames[i + 1].csp].at
        ELSE IF registers.at = "zero" THEN registers.ra.at ELSE registers.at

\* Where a compartment begins and where it goes on after a call, nothing is
\* on its stack that another compartment left: the cells below its stack
\* pointer are zero, whatever was called, interrupted or handled before.
ZeroedStep ==
    \A t \in Threads :
        LET depth == Len(threads[t].frames)
            enters == Len(threads'[t].frames) > depth
            returns == cpu.mtdc = t /\ cpu.at = "zero" /\ cpu'.mtdc = t
        IN  enters \/ returns =>
                \A a \in 0 .. cpu'.sp - 1 : threads'[t].stack[a] = Zero

StackZeroed == [][ZeroedStep]_vars

\* The registers that a caller left on its stack stay there until the call
\* ends, as deep as calls, handlers and unwinding go.
CallersAreSaved ==
    \A t \in Threads : \A i \in 2 .. Len(threads[t].frames) :
        LET frames == threads[t].frames
        IN  /\ frames[i].csp < frames[i - 1].csp
            /\ threads[t].stack[frames[i].csp].kind = "caller"

\* The low bit of errorHandlerCount tells whether a handler of the activation
\* is running: a fault in it unwinds, a fault in the body is handled, and no
\* handler runs beyond the limit.
LowBitTellsHandling ==
    \A t \in Threads : ~threads[t].exited =>
        \A i \in 1 .. Len(threads[t].frames) :
            LET count == threads[t].frames[i].count
            IN  /\ (count % 2 = 1) <=> (Doing(t, i) # "body")
                /\ count <= MaxFaults

\* Hazard slots hold what the running activation put there: a call, a return
\* and an unwinding clear them.
HazardsAreOwn ==
    \A t \in Threads : threads[t].hazard \in {0, Len(threads[t].frames)}

\* The body of an activation runs with the interrupt posture of its entry
\* point, after its handler installed a context too.
PostureKept ==
    cpu.at = "body" => cpu.mie = Posture(Last(threads[cpu.mtdc].frames).callee)
=============================================================================
