------------------------------ MODULE Processes ------------------------------
(***************************************************************************)
(* The functions that fork: ForkExecWait and DoubleForkExec                 *)
(* (linux/utils/Execute.cpp) and Daemonize (linux/utils/Daemonize.cpp).     *)
(* Process 1 is the caller, process 2 its child, process 3 the child's      *)
(* child.  A child of the first two functions ends by becoming the program  *)
(* or by an exception, ChildExit, that unwinds the caller's frames: the     *)
(* copies of the caller's objects in the child are destroyed, and one that  *)
(* removes a file (PidFile, UnixSocketHolder, FileTransaction) removes the  *)
(* caller's.                                                                *)
(***************************************************************************)
EXTENDS Integers

CONSTANTS
    MaxInterrupts,  \* bound: signals that interrupt waitpid
    MaxForkFaults   \* bound: forks, execs and other calls that fail

ASSUME ProcessesAssumption == MaxInterrupts \in Nat /\ MaxForkFaults \in Nat

Caller == 1
Child == 2
Grandchild == 3
Pids == {Caller, Child, Grandchild}
ExecFunctions == {"ForkExecWait", "DoubleForkExec"}

VARIABLES
    called,     \* the function the caller is in, or "none"
    proc,       \* what each process is doing
    orphan,     \* is the caller's parent process 1?
    callerFile, \* does the file exist that an object of the caller removes?
    reported,   \* processes in which the error listener was called
    detached,   \* processes with a session of their own and the directory "/"
    interrupts, forkFaults

procVars == <<called, proc, orphan, callerFile, reported, detached, interrupts, forkFaults>>

ProcessesInit ==
    /\ called = "none"
    /\ proc = [p \in Pids |-> IF p = Caller THEN "ready" ELSE "none"]
    /\ orphan \in BOOLEAN
    /\ callerFile = TRUE
    /\ reported = {}
    /\ detached = [session |-> {}, root |-> {}]
    /\ interrupts = 0
    /\ forkFaults = 0

Goes(p, state) == proc' = [proc EXCEPT ![p] = state]
ForkFault == forkFaults < MaxForkFaults /\ forkFaults' = forkFaults + 1

-----------------------------------------------------------------------------
(* ForkExecWait and DoubleForkExec.                                         *)

CallExecFunction(f) ==
    /\ proc[Caller] = "ready"
    /\ called' = f
    /\ Goes(Caller, "fork")
    /\ UNCHANGED <<orphan, callerFile, reported, detached, interrupts, forkFaults>>

ForkForExec ==
    /\ called \in ExecFunctions /\ proc[Caller] = "fork"
    /\ proc' = [proc EXCEPT ![Caller] = "wait",
                            ![Child] = IF called = "ForkExecWait" THEN "exec" ELSE "fork"]
    /\ UNCHANGED <<called, orphan, callerFile, reported, detached, interrupts, forkFaults>>

ForkForExecFails ==
    /\ called \in ExecFunctions /\ proc[Caller] = "fork"
    /\ ForkFault
    /\ Goes(Caller, "threw")
    /\ UNCHANGED <<called, orphan, callerFile, reported, detached, interrupts>>

\* Mutant: the child runs the program and its child leaves.
AfterSecondForkSwapped == [proc EXCEPT ![Child] = "exec", ![Grandchild] = "unwind"]

\* Between the forks the child throws ChildExit; the child's child goes on.
AfterSecondFork == [proc EXCEPT ![Child] = "unwind", ![Grandchild] = "exec"]

SecondFork ==
    /\ called = "DoubleForkExec" /\ proc[Child] = "fork"
    /\ proc' = AfterSecondFork
    /\ UNCHANGED <<called, orphan, callerFile, reported, detached, interrupts, forkFaults>>

SecondForkFails ==
    /\ called = "DoubleForkExec" /\ proc[Child] = "fork"
    /\ ForkFault
    /\ reported' = reported \cup {Child}
    /\ Goes(Child, "unwind")
    /\ UNCHANGED <<called, orphan, callerFile, detached, interrupts>>

\* Exec.
ExecProgram(p) ==
    /\ proc[p] = "exec"
    /\ Goes(p, "program")
    /\ UNCHANGED <<called, orphan, callerFile, reported, detached, interrupts, forkFaults>>

\* The error listener is called in the child.
ReportedBy(p) == reported \cup {p}

ExecFails(p) ==
    /\ proc[p] = "exec"
    /\ ForkFault
    /\ reported' = ReportedBy(p)
    /\ Goes(p, "unwind")
    /\ UNCHANGED <<called, orphan, callerFile, detached, interrupts>>

\* ChildExit passes through the caller's frames and ends the process.
Unwind(p) ==
    /\ proc[p] = "unwind"
    /\ callerFile' = FALSE
    /\ Goes(p, "zombie")
    /\ UNCHANGED <<called, orphan, reported, detached, interrupts, forkFaults>>

ProgramEnds(p) ==
    /\ proc[p] = "program"
    /\ Goes(p, "zombie")
    /\ UNCHANGED <<called, orphan, callerFile, reported, detached, interrupts, forkFaults>>

\* WaitPid: the child has ended.
WaitPid ==
    /\ proc[Caller] = "wait" /\ proc[Child] = "zombie"
    /\ proc' = [proc EXCEPT ![Caller] = "returned", ![Child] = "reaped"]
    /\ UNCHANGED <<called, orphan, callerFile, reported, detached, interrupts, forkFaults>>

\* EINTR: the loop calls waitpid again.
AfterInterrupt == "wait"

WaitPidInterrupted ==
    /\ proc[Caller] = "wait"
    /\ interrupts < MaxInterrupts
    /\ interrupts' = interrupts + 1
    /\ Goes(Caller, AfterInterrupt)
    /\ UNCHANGED <<called, orphan, callerFile, reported, detached, forkFaults>>

\* Another error of waitpid: the system reaped the child itself (SIGCHLD is
\* ignored), which waitpid tells once the child has ended.
WaitPidFails ==
    /\ proc[Caller] = "wait" /\ proc[Child] = "zombie"
    /\ ForkFault
    /\ proc' = [proc EXCEPT ![Caller] = "threw", ![Child] = "reaped"]
    /\ UNCHANGED <<called, orphan, callerFile, reported, detached, interrupts>>

-----------------------------------------------------------------------------
(* Daemonize.                                                               *)

CallDaemonize ==
    /\ proc[Caller] = "ready"
    /\ called' = "Daemonize"
    /\ Goes(Caller, IF orphan THEN "returned" ELSE "fork")
    /\ UNCHANGED <<orphan, callerFile, reported, detached, interrupts, forkFaults>>

ForkDaemon ==
    /\ called = "Daemonize" /\ proc[Caller] = "fork"
    /\ proc' = [proc EXCEPT ![Caller] = "exit", ![Child] = "setsid"]
    /\ UNCHANGED <<called, orphan, callerFile, reported, detached, interrupts, forkFaults>>

\* ::exit, which runs no destructor of the caller's frames.
Exit(p) ==
    /\ proc[p] = "exit"
    /\ Goes(p, "exited")
    /\ UNCHANGED <<called, orphan, callerFile, reported, detached, interrupts, forkFaults>>

AfterDaemonError == "exit"

\* fork, setsid or chdir fails.
DaemonCallFails(p) ==
    /\ called = "Daemonize" /\ proc[p] \in {"fork", "setsid", "chdir"}
    /\ ForkFault
    /\ Goes(p, AfterDaemonError)
    /\ UNCHANGED <<called, orphan, callerFile, reported, detached, interrupts>>

SetSid ==
    /\ proc[Child] = "setsid"
    /\ detached' = [detached EXCEPT !.session = @ \cup {Child}]
    /\ Goes(Child, "chdir")
    /\ UNCHANGED <<called, orphan, callerFile, reported, interrupts, forkFaults>>

ChDir ==
    /\ proc[Child] = "chdir"
    /\ detached' = [detached EXCEPT !.root = @ \cup {Child}]
    /\ Goes(Child, "returned")
    /\ UNCHANGED <<called, orphan, callerFile, reported, interrupts, forkFaults>>

-----------------------------------------------------------------------------

\* What a process does by itself; a program may run for ever.
ProcessStep ==
    \/ ForkForExec \/ SecondFork \/ WaitPid \/ ForkDaemon \/ SetSid \/ ChDir
    \/ \E p \in Pids : ExecProgram(p) \/ Unwind(p) \/ Exit(p)

ProcessesNext ==
    \/ \E f \in ExecFunctions : CallExecFunction(f)
    \/ CallDaemonize
    \/ ProcessStep
    \/ ForkForExecFails \/ SecondForkFails \/ WaitPidInterrupted \/ WaitPidFails
    \/ \E p \in Pids : ExecFails(p) \/ ProgramEnds(p) \/ DaemonCallFails(p)

ProcessesSpec == ProcessesInit /\ [][ProcessesNext]_procVars

-----------------------------------------------------------------------------
(* Properties.                                                              *)

\* One process goes on with the caller's code: the caller itself after
\* ForkExecWait and DoubleForkExec, and after Daemonize the caller if it was a
\* daemon, else the child once it has its own session and directory.
OneProcessGoesOn ==
    \A p \in Pids : proc[p] = "returned" =>
        \/ p = Caller /\ (called \in ExecFunctions \/ orphan)
        \/ /\ p = Child /\ called = "Daemonize"
           /\ Child \in detached.session \cap detached.root
           /\ proc[Caller] \in {"exit", "exited"}

\* When ForkExecWait or DoubleForkExec returns or throws, the child it forked
\* has ended and is no zombie, however often a signal interrupts waitpid.
NoZombieStays ==
    (called \in ExecFunctions /\ proc[Caller] \in {"returned", "threw"})
        => proc[Child] \in {"none", "reaped"}

\* The objects of the caller lose their file only if a child unwound: after
\* ForkExecWait that is a child in which the error listener reported an error,
\* and Daemonize never does it.
FileLostOnlyByReportedError ==
    ~callerFile => called = "DoubleForkExec" \/ (called = "ForkExecWait" /\ Child \in reported)

\* DoubleForkExec comes back though the program may run for ever: the caller
\* waits for the first child only.
DoubleForkComesBack ==
    called = "DoubleForkExec" ~> proc[Caller] \in {"returned", "threw"}

\* Starting a process or a daemon, with failing calls and signals: one process goes
\* on, none stays a zombie, the caller's files are safe unless an error was
\* reported, and DoubleForkExec comes back.
ProcessesAreOrderly ==
    /\ [](OneProcessGoesOn /\ NoZombieStays /\ FileLostOnlyByReportedError)
    /\ DoubleForkComesBack
=============================================================================
