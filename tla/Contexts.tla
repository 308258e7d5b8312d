------------------------------- MODULE Contexts -------------------------------
(***************************************************************************)
(* What PALcode promises a kernel about its processes (the interface of    *)
(* src/osf.h): a trap sets the interrupted context aside, whole, and       *)
(* starts the kernel at the entry registered for the cause; a return       *)
(* resumes the context set aside last; and a process's contexts are        *)
(* untouched by anything another process does.  There is no stack memory,  *)
(* no frame and no PCB here.  PalCode implements this specification.       *)
(***************************************************************************)
EXTENDS Integers, Sequences

CONSTANTS Procs,    \* processes
          Handler   \* Handler[s]: the kernel's entry point for selector s

VARIABLES mode,     \* "off" until a kernel has set itself up, "on" or "stopped"
          cur,      \* the running process
          run,      \* the running context: ps, pc, gp, args and sp
          stack,    \* stack[p]: the contexts of p set aside, last one first
          parked    \* parked[p]: where p's kernel stack was when p was left

vars == <<mode, cur, run, stack, parked>>

InUser == run.ps.cm = 1
Kernel(ipl) == [cm |-> 0, ipl |-> ipl]

\* The entry for selector s: what the kernel is told, at which level it runs,
\* and how many instructions after the interrupted one the context resumes.
Entered(s, skip) ==
    \/ /\ s = 0                                 \* entInt
       /\ \/ run'.args[1] = 0 /\ run'.ps = Kernel(6) /\ skip = 0
          \/ run'.args[1] = 1 /\ run'.ps = Kernel(5) /\ skip = 0
          \/ run'.args[1] = 2 /\ run'.ps = Kernel(7) /\ skip = 1
          \/ run'.args[1] = 3 /\ run'.ps = Kernel(4) /\ skip = 0
       /\ run'.ps.ipl # 7 => run'.ps.ipl > run.ps.ipl
    \/ /\ s \in 1..5
       /\ run'.ps = IF InUser THEN Kernel(0) ELSE run.ps
       /\ \/ s \in {1, 2} /\ skip = 0           \* entArith, entMM
          \/ s = 4 /\ skip = 1                  \* entUna
          \/ /\ s = 3                           \* entIF
             /\ \E code \in 0..4 : run'.args = [run.args EXCEPT ![1] = code]
             /\ run'.args[1] = 3 => skip = 0
          \/ s = 5 /\ skip = 1 /\ InUser /\ run'.args = run.args    \* entSys

Init ==
    /\ mode = "off"
    /\ stack = [p \in Procs |-> <<>>]

\* The console starts a kernel, and the kernel may start over in another
\* process, until it has set itself up.
Start ==
    /\ mode = "off" /\ mode' \in {"off", "on"}
    /\ cur' \in Procs
    /\ ~InUser /\ run'.ps = run.ps
    /\ stack' = stack

Trap ==
    /\ mode = "on"
    /\ \E s \in 0..5, skip \in 0..1 :
         /\ run'.pc = Handler[s]
         /\ Entered(s, skip)
         /\ stack' = [stack EXCEPT ![cur] = <<[run EXCEPT !.pc = @ + skip]>> \o @]
    /\ UNCHANGED <<mode, cur, parked>>

\* A user context resumes at IPL 0.
Resumed(c) == [c EXCEPT !.ps.ipl = IF c.ps.cm = 1 THEN 0 ELSE @]

Return ==
    /\ mode = "on" /\ ~InUser /\ stack[cur] # <<>>
    /\ \/ run' = Resumed(Head(stack[cur]))
       \/ /\ Head(stack[cur]).ps.cm = 1     \* from a system call
          /\ run' = [Resumed(Head(stack[cur])) EXCEPT !.args = run.args]
    /\ stack' = [stack EXCEPT ![cur] = Tail(@)]
    /\ UNCHANGED <<mode, cur, parked>>

\* The running program's own instructions; the kernel may also set its IPL.
Work ==
    /\ mode = "on"
    /\ run'.ps.cm = run.ps.cm /\ (InUser => run'.ps = run.ps)
    /\ UNCHANGED <<mode, cur, stack, parked>>

\* The kernel gives a process its first user context.
NewContext ==
    /\ mode = "on" /\ ~InUser /\ stack[cur] = <<>>
    /\ UNCHANGED <<mode, cur, parked>>
    /\ Len(stack'[cur]) = 1 /\ stack'[cur][1].ps.cm = 1
    /\ \A p \in Procs \ {cur} : stack'[p] = stack[p]

\* The kernel sets the stack pointer of the process's user context.
SetUserSp ==
    /\ mode = "on" /\ ~InUser /\ stack[cur] # <<>>
    /\ UNCHANGED <<mode, cur, parked>>
    /\ Len(stack'[cur]) = Len(stack[cur])
    /\ LET n == Len(stack[cur]) IN
         /\ stack[cur][n].ps.cm = 1
         /\ stack' = [stack EXCEPT ![cur][n].sp = stack'[cur][n].sp]
    /\ run' = [run EXCEPT !.pc = @ + 1]

Switch(p) ==
    /\ mode = "on" /\ ~InUser
    /\ cur' = p
    /\ LET left == [parked EXCEPT ![cur] = run.sp] IN
         /\ run' = [run EXCEPT !.pc = @ + 1, !.sp = left[p]]
         /\ \A q \in Procs \ {p} : parked'[q] = left[q]
    /\ UNCHANGED <<mode, stack>>

Stop == mode = "on" /\ ~InUser /\ mode' = "stopped"

Next == Start \/ Trap \/ Return \/ Work \/ NewContext \/ SetUserSp
        \/ (\E p \in Procs : Switch(p)) \/ Stop

Spec == Init /\ [][Next]_vars
=============================================================================
