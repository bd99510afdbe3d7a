------------------------------- MODULE Kernel -------------------------------
(***************************************************************************)
(* The core of the HuseynOS kernel: the process table, the round-robin     *)
(* scheduler, the per-pid IPC queues and the system calls and interrupts   *)
(* that move processes between Ready, Running, Blocked, Dead and Empty     *)
(* (kernel/src/process.rs, scheduler.rs, ipc.rs, syscall.rs, idt.rs).      *)
(*                                                                         *)
(* The kernel runs on one core and every handler is entered through an     *)
(* interrupt gate, with interrupts off until iretq, so one handler is one  *)
(* step; what interleaves is the order of the handlers.  User code is any  *)
(* sequence of system calls.  A blocking call that cannot finish backs rip *)
(* up over the two bytes of `int 0x80`, so the process issues the same     *)
(* call again when it next runs: field `retry` of a process.               *)
(*                                                                         *)
(* Memory, files and shared memory are the subject of other modules; here  *)
(* load_elf's success is a nondeterministic choice.                        *)
(***************************************************************************)
EXTENDS IpcMessage, Integers

CONSTANTS
    MAX_PROCESSES,           \* slots of PROCESS_TABLE (64)
    NUM_QUEUES,              \* length of IPC_QUEUES (64)
    KEYBOARD_PID, MOUSE_PID, \* the pids the interrupt handlers send to (3, 4)
    MSG_HARDWARE_INTERRUPT,  \* type of a keyboard byte (0x30)
    MSG_MOUSE_PACKET,        \* type of a mouse byte (0x40)
    ExitCodes,               \* arguments user code passes to SYS_EXIT
    MAX,                     \* u64::MAX, the code of a killed process
    NoCode,                  \* exit_code: None
    MaxPid,                  \* bound: NEXT_PID stops here
    SendTargets,             \* bound: the pids user code sends to
    WaitTargets              \* bound: the pids user code waits for

Slots == 0 .. MAX_PROCESSES - 1
Pids == 1 .. MaxPid
QueuePids == 1 .. NUM_QUEUES - 1
Codes == ExitCodes \cup {MAX}

ASSUME KernelAssumption ==
    /\ MAX_PROCESSES \in Nat \ {0}
    /\ NUM_QUEUES \in Nat \ {0}
    /\ MaxPid \in Nat \ {0}
    /\ 0 .. MaxPid \subseteq Senders
    /\ KEYBOARD_PID \in Nat /\ MOUSE_PID \in Nat
    /\ SendTargets \subseteq Nat /\ WaitTargets \subseteq Nat
    /\ {MSG_HARDWARE_INTERRUPT, MSG_MOUSE_PACKET} \subseteq MsgTypes
    /\ NoCode \notin Codes

VARIABLES
    table,      \* PROCESS_TABLE
    next_pid,   \* NEXT_PID
    cur,        \* CURRENT_PID, 0 for the idle loop
    queues,     \* IPC_QUEUES; index 0 is never used
    machine,    \* "up", "off" after a shutdown, "hung" in an exception handler
    died,       \* history: the code each pid exited with
    delivered   \* history: the code waitpid returned for each pid

vars == << table, next_pid, cur, queues, machine, died, delivered >>

-----------------------------------------------------------------------------
(* Processes and the table. *)

(* A Process; a slot that holds None is a process in state "None". *)
NoRetry == [op |-> "none", arg |-> 0]

Retries == {NoRetry, [op |-> "recv", arg |-> 0]}
             \cup [op : {"waitpid"}, arg : WaitTargets]

States == {"None", "Empty", "Ready", "Running", "Blocked", "Dead"}

Process == [ pid : 0 .. MaxPid,
             state : States,
             waiting_for_pid : WaitTargets \cup {0},   \* 0 for None
             exit_code : Codes \cup {NoCode},
             retry : Retries ]

NewProcess(p, st) ==
    [ pid |-> p, state |-> st, waiting_for_pid |-> 0,
      exit_code |-> NoCode, retry |-> NoRetry ]

(* get_process_mut: the first slot that holds pid, whatever its state. *)
Holds(t, s, p) == t[s].state # "None" /\ t[s].pid = p

IsSlotOf(t, s, p) ==
    Holds(t, s, p) /\ \A u \in Slots : Holds(t, u, p) => s <= u

Known(t, p) == \E s \in Slots : Holds(t, s, p)

Live(t, p) ==
    \E s \in Slots : t[s].pid = p /\ t[s].state \in {"Ready", "Running", "Blocked"}

(* Mutated form of Free: load_elf takes a zombie's slot as well. *)
FreeOrDead(t, s) == t[s].state \in {"None", "Empty", "Dead"}

(* The slot load_elf overwrites: the first that is None or Empty. *)
Free(t, s) == t[s].state \in {"None", "Empty"}

IsFreeSlot(t, s) == Free(t, s) /\ \A u \in Slots : Free(t, u) => s <= u

-----------------------------------------------------------------------------
(* Mutated forms, each a slip this code could plausibly contain. *)

TurnFromZero(t, p, s) == s

UnblockedNever(t, p) == t

PreemptedNever(t, p) == t

ExitedAlwaysDead(t, p, code) ==
    [s \in Slots |->
        IF IsSlotOf(t, s, p)
          THEN [t[s] EXCEPT !.state = "Dead", !.exit_code = code]
          ELSE t[s]]

ExitedWithoutCode(t, p, code) ==
    [s \in Slots |->
        IF IsSlotOf(t, s, p)
          THEN [t[s] EXCEPT !.state =
                   IF \E u \in Slots : /\ t[u].state = "Blocked"
                                       /\ t[u].waiting_for_pid = p
                     THEN "Dead" ELSE "Empty"]
        ELSE IF t[s].state = "Blocked" /\ t[s].waiting_for_pid = p
          THEN [t[s] EXCEPT !.state = "Ready", !.waiting_for_pid = 0]
        ELSE t[s]]

ReapedStaysDead(t, c) == t

WaitingWithoutRetry(t, s, c) ==
    [t EXCEPT ![s].state = "Blocked", ![s].waiting_for_pid = c]

LoadedSkipsPid(s) ==
    /\ IsFreeSlot(table, s)
    /\ table' = [table EXCEPT ![s] = NewProcess(next_pid, "Ready")]
    /\ next_pid' = next_pid + 2

LoadedWithPidKept(s) ==
    /\ IsFreeSlot(table, s)
    /\ table' = [table EXCEPT ![s] = NewProcess(next_pid, "Ready")]
    /\ UNCHANGED next_pid

-----------------------------------------------------------------------------
(* scheduler.rs and process.rs: the pieces the handlers are made of.       *)

(* next_ready: the offset at which the search that starts behind the slot  *)
(* of pid p (at slot 0 when p has none) comes to slot s.                   *)
Start(t, p) ==
    IF Known(t, p) THEN (CHOOSE u \in Slots : IsSlotOf(t, u, p)) + 1 ELSE 0

Turn(t, p, s) == (s + MAX_PROCESSES - Start(t, p)) % MAX_PROCESSES

IsNextReady(t, p, s) ==
    /\ t[s].state = "Ready"
    /\ \A u \in Slots : t[u].state = "Ready" => Turn(t, p, s) <= Turn(t, p, u)

(* schedule, first half: a process that is still Running becomes Ready. *)
Preempted(t, p) ==
    [s \in Slots |->
        IF IsSlotOf(t, s, p) /\ t[s].state = "Running"
          THEN [t[s] EXCEPT !.state = "Ready"] ELSE t[s]]

(* schedule, run at the end of a handler that leaves the table as t. *)
Schedule(t) ==
    LET r == Preempted(t, cur) IN
    \/ /\ \A s \in Slots : r[s].state # "Ready"
       /\ table' = r
       /\ cur' = 0
    \/ \E s \in Slots :
         /\ IsNextReady(r, cur, s)
         /\ table' = [r EXCEPT ![s].state = "Running"]
         /\ cur' = r[s].pid

(* scheduler::unblock *)
Unblocked(t, p) ==
    [s \in Slots |->
        IF IsSlotOf(t, s, p) /\ t[s].state = "Blocked"
          THEN [t[s] EXCEPT !.state = "Ready"] ELSE t[s]]

(* exit_process: wake the Blocked processes waiting for p, then make p     *)
(* Dead if there was one, Empty (its slot free for reuse) if not.          *)
WaitsFor(t, s, p) == t[s].state = "Blocked" /\ t[s].waiting_for_pid = p

Exited(t, p, code) ==
    LET parent_waiting == \E s \in Slots : WaitsFor(t, s, p) IN
    [s \in Slots |->
        IF IsSlotOf(t, s, p)
          THEN [t[s] EXCEPT !.state = IF parent_waiting THEN "Dead" ELSE "Empty",
                            !.exit_code = code]
        ELSE IF WaitsFor(t, s, p)
          THEN [t[s] EXCEPT !.state = "Ready", !.waiting_for_pid = 0]
        ELSE t[s]]

(* ipc::send: queue the message and wake the receiver, or refuse it. *)
Deliver(to, m) ==
    \/ /\ to \in QueuePids
       /\ Accepts(queues[to], m)
       /\ queues' = [queues EXCEPT ![to] = Pushed(queues[to], m)]
       /\ table' = Unblocked(table, to)
    \/ /\ ~ (to \in QueuePids /\ Accepts(queues[to], m))
       /\ UNCHANGED << queues, table >>

(* ipc::try_receive finds a message for pid p. *)
HasMessage(p) == p \in QueuePids /\ queues[p] # << >>

-----------------------------------------------------------------------------
(* The handlers. *)

(* main.rs: the boot code loads init.elf as pid 1 and goes idle. *)
Init ==
    /\ table = [s \in Slots |-> IF s = 0 THEN NewProcess(1, "Ready")
                                         ELSE NewProcess(0, "None")]
    /\ next_pid = 2
    /\ cur = 0
    /\ queues = [p \in QueuePids |-> << >>]
    /\ machine = "up"
    /\ died = [p \in Pids |-> NoCode]
    /\ delivered = [p \in Pids |-> NoCode]

(* The running process, in slot s, is about to execute system call `op`:   *)
(* any call, unless it must repeat one.                                    *)
Issues(s, op, arg) ==
    /\ machine = "up"
    /\ cur # 0
    /\ IsSlotOf(table, s, cur)
    /\ table[s].retry \in {NoRetry, [op |-> op, arg |-> arg]}

(* The call returns to the caller: rip stays behind `int 0x80`. *)
Returned(t, s) == [t EXCEPT ![s].retry = NoRetry]

(* SYS_SEND; the message carries the caller's pid. *)
SysSend(s, to, m) ==
    /\ Issues(s, "send", to)
    /\ m.sender = cur
    /\ Deliver(to, m)
    /\ UNCHANGED << next_pid, cur, machine, died, delivered >>

(* SYS_RECV with a message waiting, in its blocking and its other form. *)
SysRecvTakes(s) ==
    /\ Issues(s, "recv", 0)
    /\ HasMessage(cur)
    /\ queues' = [queues EXCEPT ![cur] = Tail(@)]
    /\ table' = Returned(table, s)
    /\ UNCHANGED << next_pid, cur, machine, died, delivered >>

(* block_current and rip -= 2, in SYS_RECV. *)
Receiving(t, s) ==
    [t EXCEPT ![s].state = "Blocked", ![s].retry = [op |-> "recv", arg |-> 0]]

SysRecvBlocks(s) ==
    /\ Issues(s, "recv", 0)
    /\ ~ HasMessage(cur)
    /\ Schedule(Receiving(table, s))
    /\ UNCHANGED << next_pid, queues, machine, died, delivered >>

(* SYS_YIELD *)
SysYield(s) ==
    /\ Issues(s, "yield", 0)
    /\ Schedule(table)
    /\ UNCHANGED << next_pid, queues, machine, died, delivered >>

(* exit_process and schedule, for the running process. *)
Terminate(code) ==
    /\ Schedule(Exited(table, cur, code))
    /\ died' = [died EXCEPT ![cur] = code]
    /\ UNCHANGED << next_pid, queues, machine, delivered >>

SysExit(s, code) == Issues(s, "exit", 0) /\ Terminate(code)

(* load_elf puts the new process into free slot s. *)
Loaded(s) ==
    /\ IsFreeSlot(table, s)
    /\ table' = [table EXCEPT ![s] = NewProcess(next_pid, "Ready")]
    /\ next_pid' = next_pid + 1

(* SYS_SPAWN.  The pid is taken before the frames are, and before the      *)
(* table is searched: a failure there costs a pid.  A failure earlier (no  *)
(* such file, not an ELF file) changes nothing.                            *)
SysSpawn(s) ==
    /\ Issues(s, "spawn", 0)
    /\ next_pid <= MaxPid
    /\ \/ \E f \in Slots : Loaded(f)
       \/ next_pid' = next_pid + 1 /\ UNCHANGED table
       \/ UNCHANGED << next_pid, table >>
    /\ UNCHANGED << cur, queues, machine, died, delivered >>

(* SYS_WAITPID, child Dead: the slot becomes Empty. *)
Reaped(t, c) ==
    [s \in Slots |->
        IF IsSlotOf(t, s, c) THEN [t[s] EXCEPT !.state = "Empty"] ELSE t[s]]

SysWaitpidReaps(s, c) ==
    /\ Issues(s, "waitpid", c)
    /\ \E u \in Slots :
         /\ IsSlotOf(table, u, c)
         /\ table[u].state = "Dead"
         /\ delivered' = [delivered EXCEPT ![c] =
                IF table[u].exit_code = NoCode THEN 0 ELSE table[u].exit_code]
    /\ table' = Returned(Reaped(table, c), s)
    /\ UNCHANGED << next_pid, cur, queues, machine, died >>

(* SYS_WAITPID, child in any other state: wait, rip -= 2. *)
Waiting(t, s, c) ==
    [t EXCEPT ![s].state = "Blocked", ![s].waiting_for_pid = c,
              ![s].retry = [op |-> "waitpid", arg |-> c]]

SysWaitpidBlocks(s, c) ==
    /\ Issues(s, "waitpid", c)
    /\ \E u \in Slots : IsSlotOf(table, u, c) /\ table[u].state # "Dead"
    /\ Schedule(Waiting(table, s, c))
    /\ UNCHANGED << next_pid, queues, machine, died, delivered >>

(* SYS_WAITPID, no such pid in the table: the call fails. *)
SysWaitpidFails(s, c) ==
    /\ Issues(s, "waitpid", c)
    /\ ~ Known(table, c)
    /\ table' = Returned(table, s)
    /\ UNCHANGED << next_pid, cur, queues, machine, died, delivered >>

(* Vector 32. *)
TimerIrq ==
    /\ machine = "up"
    /\ Schedule(table)
    /\ UNCHANGED << next_pid, queues, machine, died, delivered >>

(* Vectors 33 and 44: the sender recorded is the interrupted process. *)
KeyboardIrq(args) ==
    /\ machine = "up"
    /\ Deliver(KEYBOARD_PID, [sender |-> cur, args |-> args,
                              msg_type |-> MSG_HARDWARE_INTERRUPT])
    /\ UNCHANGED << next_pid, cur, machine, died, delivered >>

MouseIrq(args) ==
    /\ machine = "up"
    /\ Deliver(MOUSE_PID, [sender |-> cur, args |-> args,
                           msg_type |-> MSG_MOUSE_PACKET])
    /\ UNCHANGED << next_pid, cur, machine, died, delivered >>

(* Vector 14 from user code, no VMA or no frame left: the process is       *)
(* killed.  (A fault that demand paging serves changes nothing here.)      *)
PageFaultKills(s) == Issues(s, "fault", 0) /\ Terminate(MAX)

(* Vectors 0, 6, 8 and 13: the handler never returns, interrupts stay off. *)
HaltingException(s) ==
    /\ Issues(s, "fault", 0)
    /\ machine' = "hung"
    /\ UNCHANGED << table, next_pid, cur, queues, died, delivered >>

(* SYS_SHUTDOWN: power off, or spin for ever where the port does nothing. *)
SysShutdown(s) ==
    /\ Issues(s, "shutdown", 0)
    /\ machine' = "off"
    /\ UNCHANGED << table, next_pid, cur, queues, died, delivered >>

HaltLoop == machine # "up" /\ UNCHANGED vars

Next ==
    \/ \E s \in Slots :
         \/ \E to \in SendTargets, m \in Message : SysSend(s, to, m)
         \/ SysRecvTakes(s)
         \/ SysRecvBlocks(s)
         \/ SysYield(s)
         \/ \E code \in ExitCodes : SysExit(s, code)
         \/ SysSpawn(s)
         \/ \E c \in WaitTargets :
               \/ SysWaitpidReaps(s, c)
               \/ SysWaitpidBlocks(s, c)
               \/ SysWaitpidFails(s, c)
         \/ PageFaultKills(s)
         \/ HaltingException(s)
         \/ SysShutdown(s)
    \/ TimerIrq
    \/ \E args \in Payloads : KeyboardIrq(args) \/ MouseIrq(args)
    \/ HaltLoop

Spec == Init /\ [][Next]_vars

-----------------------------------------------------------------------------
(* Safety. *)

(* Type correctness; the pid counter and every pid stay in range. *)
TypeOK ==
    /\ table \in [Slots -> Process]
    /\ next_pid \in 1 .. MaxPid + 1
    /\ cur \in 0 .. MaxPid
    /\ queues \in [QueuePids -> Seq(Message)]
    /\ machine \in {"up", "off", "hung"}
    /\ died \in [Pids -> Codes \cup {NoCode}]
    /\ delivered \in [Pids -> Codes \cup {NoCode}]

(* Between two handlers CURRENT_PID names the one process marked Running;  *)
(* in the idle loop there is none.  Every handler finds "its" process by   *)
(* looking CURRENT_PID up, so a disagreement would charge a system call to *)
(* the wrong process.                                                      *)
OneRunning ==
    \A s \in Slots : table[s].state = "Running" <=> (cur # 0 /\ Holds(table, s, cur))

(* No two slots hold the same pid, exited processes included: the lookup   *)
(* by pid that send, unblock, waitpid and schedule rest on finds the       *)
(* process that was meant, however often slots are reused.                 *)
PidsUnique ==
    \A s, u \in Slots :
        /\ table[s].state # "None" => table[s].pid \in 1 .. next_pid - 1
        /\ Holds(table, u, table[s].pid) /\ table[s].state # "None" => s = u

(* A process is never asleep in recv with a message waiting: no order of   *)
(* send, interrupt and block loses the wake-up.                            *)
NoLostWakeup ==
    \A s \in Slots :
        table[s].state = "Blocked" /\ table[s].retry.op = "recv"
            => ~ HasMessage(table[s].pid)

(* A Dead slot is always going to be reaped: some process that is not      *)
(* asleep is about to repeat waitpid for exactly that pid.  Otherwise the  *)
(* slot would be lost to load_elf for good.                                *)
ZombieHasReaper ==
    \A s \in Slots : table[s].state = "Dead" =>
        \E u \in Slots :
            /\ table[u].state \in {"Ready", "Running"}
            /\ table[u].retry = [op |-> "waitpid", arg |-> table[s].pid]

(* unblock leaves waiting_for_pid set, so a process can sleep in recv with *)
(* a stale waiting_for_pid.  It never names a live process: exit_process   *)
(* cannot mistake a receiver for a waiting parent.                         *)
StaleWaitHarmless ==
    \A s \in Slots :
        table[s].state = "Blocked" /\ table[s].retry.op = "recv"
            => ~ Live(table, table[s].waiting_for_pid)

(* An exited process stays exited: messages and interrupts that arrive for *)
(* its pid later, or a second waiter, never put it back in the run queue.  *)
DeadStaysDead ==
    \A p \in Pids : died[p] # NoCode => ~ Live(table, p)

(* The code waitpid returns for a child is the code that child exited      *)
(* with, although the slot is found by pid long after the exit.            *)
ExitCodeIntact ==
    \A p \in Pids : delivered[p] # NoCode => delivered[p] = died[p]

(* exit_process "wake[s] waiting parents": whoever sleeps in waitpid waits *)
(* for a process that can still exit.                                      *)
NoStrandedWaiter ==
    \A s \in Slots :
        table[s].state = "Blocked" /\ table[s].retry.op = "waitpid"
            => Live(table, table[s].retry.arg)

-----------------------------------------------------------------------------
(* Liveness. *)

(* The process in slot s repeats the call it was blocked in. *)
Repeat(s) ==
    /\ table[s].retry # NoRetry
    /\ \/ SysRecvTakes(s) \/ SysRecvBlocks(s)
       \/ \E c \in WaitTargets :
             SysWaitpidReaps(s, c) \/ SysWaitpidBlocks(s, c) \/ SysWaitpidFails(s, c)

(* The timer fires for ever, 1000 times a second, and a process that is    *)
(* dispatched again and again sooner or later executes its next            *)
(* instruction, `int 0x80`, before the next tick.                          *)
Fairness ==
    /\ WF_vars(TimerIrq)
    /\ \A s \in Slots : SF_vars(Repeat(s))

FairSpec == Spec /\ Fairness

Ready(p) == \E s \in Slots : table[s].pid = p /\ table[s].state = "Ready"

(* Round robin starves nobody: a Ready process is dispatched, whatever the *)
(* others do (spawn into lower slots, exit, block, yield), unless the      *)
(* machine halts.                                                          *)
ReadyRuns == \A p \in Pids : Ready(p) ~> (cur = p \/ machine # "up")

(* A Dead process does not keep its slot: its parent collects the code.    *)
ZombieReaped ==
    \A s \in Slots : table[s].state = "Dead" ~> (table[s].state # "Dead" \/ machine # "up")

(* The code a process leaves behind as a zombie reaches a waiting process: *)
(* the slot is not given to another one before, whoever spawns, exits or   *)
(* receives between the exit and the repeated waitpid.  (Only a process    *)
(* that is waited for becomes a zombie: ZombieHasReaper.)                  *)
CodeDelivered ==
    \A p \in WaitTargets :
        (\E s \in Slots : table[s].pid = p /\ table[s].state = "Dead")
            ~> (delivered[p] # NoCode \/ machine # "up")
=============================================================================
