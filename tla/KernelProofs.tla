---------------------------- MODULE KernelProofs ----------------------------
(***************************************************************************)
(* The safety invariants of module Kernel hold for every number of slots,  *)
(* queues, pids and messages.                                              *)
(*                                                                         *)
(* Every handler that switches processes ends in Schedule(t), t being the  *)
(* table the handler leaves behind.  The invariant is therefore stated on  *)
(* tables: TableInv(t, n, ...) of the table before the step gives TableInv *)
(* of t, and a schedule only turns Ready into Running and back, which no   *)
(* part of TableInv can tell apart.                                        *)
(***************************************************************************)
EXTENDS Kernel, TLAPS

Alive == {"Ready", "Running", "Blocked"}

(* Every pid is in one slot at most, and was handed out by NEXT_PID. *)
Unique(t, n) ==
    /\ \A s \in Slots : t[s].state # "None" => t[s].pid \in 1 .. n - 1
    /\ \A s, u \in Slots :
          t[s].state # "None" /\ t[u].state # "None" /\ t[s].pid = t[u].pid
              => s = u

(* waiting_for_pid and the call to be repeated: who sleeps repeats a call; *)
(* who repeats waitpid waits for that child or was woken by its exit; and  *)
(* what is left in waiting_for_pid afterwards names nobody alive.          *)
WaitOK(t, n) ==
    \A s \in Slots : t[s].state \in Alive =>
        /\ t[s].waiting_for_pid < n
        /\ t[s].state = "Blocked" => t[s].retry.op # "none"
        /\ t[s].retry.op = "waitpid" => t[s].waiting_for_pid \in {0, t[s].retry.arg}
        /\ t[s].retry.op = "waitpid" /\ t[s].state = "Blocked"
              => t[s].waiting_for_pid = t[s].retry.arg
        /\ t[s].retry.op # "waitpid" => ~ Live(t, t[s].waiting_for_pid)

(* A Dead process has a reaper that is not asleep. *)
ReaperOK(t) ==
    \A s \in Slots : t[s].state = "Dead" =>
        \E u \in Slots : /\ t[u].state \in {"Ready", "Running"}
                         /\ t[u].retry = [op |-> "waitpid", arg |-> t[s].pid]

(* Nobody sleeps in recv over a message of q. *)
AwakeOK(t, q) ==
    \A s \in Slots : t[s].state = "Blocked" /\ t[s].retry.op = "recv"
        => ~ (t[s].pid \in QueuePids /\ q[t[s].pid] # << >>)

(* Exit codes: d is what each pid exited with. *)
ExitOK(t, n, d) ==
    /\ \A p \in Pids : d[p] # NoCode => p < n /\ ~ Live(t, p)
    /\ \A s \in Slots : t[s].state = "Dead"
          => t[s].exit_code # NoCode /\ t[s].exit_code = d[t[s].pid]

TableInv(t, n, q, d) ==
    /\ t \in [Slots -> Process]
    /\ Unique(t, n)
    /\ WaitOK(t, n)
    /\ ReaperOK(t)
    /\ AwakeOK(t, q)
    /\ ExitOK(t, n, d)

IInv ==
    /\ TypeOK
    /\ TableInv(table, next_pid, queues, died)
    /\ OneRunning
    /\ ExitCodeIntact

-----------------------------------------------------------------------------

(* With unique pids the first slot that holds p is the slot that does. *)
LEMMA SlotUnique ==
    ASSUME NEW t, NEW n, Unique(t, n), NEW s \in Slots, NEW p
    PROVE  IsSlotOf(t, s, p) <=> Holds(t, s, p)
  <1>1. ASSUME Holds(t, s, p), NEW u \in Slots, Holds(t, u, p) PROVE s <= u
    <2>1. s = u
      BY <1>1 DEF Unique, Holds
    <2> QED BY <2>1 DEF Slots
  <1> QED BY <1>1 DEF IsSlotOf

(* r is t after some Ready processes became Running or the reverse. *)
Similar(t, r) ==
    \A s \in Slots :
        /\ r[s].pid = t[s].pid
        /\ r[s].waiting_for_pid = t[s].waiting_for_pid
        /\ r[s].exit_code = t[s].exit_code
        /\ r[s].retry = t[s].retry
        /\ \/ r[s].state = t[s].state
           \/ r[s].state \in {"Ready", "Running"} /\ t[s].state \in {"Ready", "Running"}

(* Similar tables agree on which pids are alive. *)
LEMMA SimilarLive ==
    ASSUME NEW t, NEW r, Similar(t, r), NEW p
    PROVE  Live(r, p) <=> Live(t, p)
  BY DEF Similar, Live

(* What the scheduler changes, no part of TableInv but the types can tell. *)
LEMMA SimilarKeeps ==
    ASSUME NEW t, NEW r \in [Slots -> Process], NEW n, NEW q, NEW d,
           TableInv(t, n, q, d), Similar(t, r)
    PROVE  TableInv(r, n, q, d)
  <1>1. Unique(r, n)
    BY DEF TableInv, Unique, Similar
  <1>2. WaitOK(r, n)
    <2> SUFFICES ASSUME NEW s \in Slots, r[s].state \in Alive
                 PROVE /\ r[s].waiting_for_pid < n
                       /\ r[s].state = "Blocked" => r[s].retry.op # "none"
                       /\ r[s].retry.op = "waitpid"
                            => r[s].waiting_for_pid \in {0, r[s].retry.arg}
                       /\ r[s].retry.op = "waitpid" /\ r[s].state = "Blocked"
                            => r[s].waiting_for_pid = r[s].retry.arg
                       /\ r[s].retry.op # "waitpid" => ~ Live(r, r[s].waiting_for_pid)
      BY DEF WaitOK
    <2>1. t[s].state \in Alive /\ (r[s].state = "Blocked" => t[s].state = "Blocked")
      BY DEF Similar, Alive
    <2>2. Live(r, r[s].waiting_for_pid) <=> Live(t, t[s].waiting_for_pid)
      BY SimilarLive DEF Similar
    <2> QED BY <2>1, <2>2 DEF TableInv, WaitOK, Similar
  <1>3. ReaperOK(r)
    <2> SUFFICES ASSUME NEW s \in Slots, r[s].state = "Dead"
                 PROVE  \E u \in Slots :
                           /\ r[u].state \in {"Ready", "Running"}
                           /\ r[u].retry = [op |-> "waitpid", arg |-> r[s].pid]
      BY DEF ReaperOK
    <2>1. t[s].state = "Dead" /\ r[s].pid = t[s].pid
      BY DEF Similar
    <2>2. PICK u \in Slots : /\ t[u].state \in {"Ready", "Running"}
                             /\ t[u].retry = [op |-> "waitpid", arg |-> t[s].pid]
      BY <2>1 DEF TableInv, ReaperOK
    <2>3. r[u].state \in {"Ready", "Running"} /\ r[u].retry = t[u].retry
      BY <2>2 DEF Similar
    <2> QED BY <2>1, <2>2, <2>3
  <1>4. AwakeOK(r, q)
    BY DEF TableInv, AwakeOK, Similar
  <1>5. ExitOK(r, n, d)
    <2>1. \A p \in Pids : d[p] # NoCode => p < n /\ ~ Live(r, p)
      BY SimilarLive DEF TableInv, ExitOK
    <2> QED BY <2>1 DEF TableInv, ExitOK, Similar
  <1> QED BY <1>1, <1>2, <1>3, <1>4, <1>5 DEF TableInv

(* At most the process named by CURRENT_PID is Running in t. *)
OnlyCur(t) == \A s \in Slots : t[s].state = "Running" => cur # 0 /\ Holds(t, s, cur)

(* schedule() keeps the table's invariant and leaves exactly the process   *)
(* it returns to marked Running.                                           *)
LEMMA ScheduleStep ==
    ASSUME NEW t, NEW n, NEW q, NEW d, TableInv(t, n, q, d), OnlyCur(t),
           n \in 1 .. MaxPid + 1, Schedule(t)
    PROVE  /\ TableInv(table', n, q, d)
           /\ OneRunning'
           /\ cur' \in 0 .. MaxPid
  <1> DEFINE r == Preempted(t, cur)
  <1>1. /\ r \in [Slots -> Process]
        /\ Similar(t, r)
        /\ \A s \in Slots : r[s].state # "Running"
    <2>1. \A s \in Slots : t[s].state = "Running" => IsSlotOf(t, s, cur)
      BY SlotUnique DEF OnlyCur, TableInv
    <2>2. ASSUME NEW s \in Slots
          PROVE  /\ r[s] \in Process
                 /\ r[s].state # "Running"
                 /\ r[s] = t[s] \/ /\ t[s].state = "Running"
                                   /\ r[s] = [t[s] EXCEPT !.state = "Ready"]
      BY <2>1 DEF Preempted, TableInv, Process, States
    <2>3. r = [s \in Slots |-> r[s]]
      BY DEF Preempted
    <2>4. Similar(t, r)
      BY <2>2 DEF Similar, TableInv, Process
    <2> QED BY <2>2, <2>3, <2>4
  <1>2. TableInv(r, n, q, d)
    BY <1>1, SimilarKeeps
  <1> HIDE DEF r
  <1>3. CASE /\ \A s \in Slots : r[s].state # "Ready"
             /\ table' = r
             /\ cur' = 0
    BY <1>1, <1>2, <1>3, KernelAssumption DEF OneRunning
  <1>4. ASSUME NEW s \in Slots,
               IsNextReady(r, cur, s),
               table' = [r EXCEPT ![s].state = "Running"],
               cur' = r[s].pid
        PROVE  /\ TableInv(table', n, q, d)
               /\ OneRunning'
               /\ cur' \in 0 .. MaxPid
    <2>1. r[s].state = "Ready"
      BY <1>4 DEF IsNextReady
    <2>2. table' \in [Slots -> Process] /\ Similar(r, table')
      BY <1>1, <1>4, <2>1 DEF Similar, Process, States
    <2>3. TableInv(table', n, q, d)
      BY <1>2, <2>2, SimilarKeeps
    <2>4. r[s].pid \in 1 .. n - 1
      BY <1>2, <2>1 DEF TableInv, Unique
    <2>5. OneRunning'
      <3> SUFFICES ASSUME NEW u \in Slots
                   PROVE  table'[u].state = "Running"
                            <=> (cur' # 0 /\ Holds(table', u, cur'))
        BY DEF OneRunning
      <3>1. table'[u].state = "Running" <=> u = s
        BY <1>1, <1>4
      <3>2. table'[u].pid = r[u].pid /\ (u # s => table'[u].state = r[u].state)
        BY <1>1, <1>4
      <3>3. Holds(table', u, cur') <=> u = s
        BY <1>2, <1>4, <2>1, <3>1, <3>2 DEF TableInv, Unique, Holds
      <3> QED BY <1>4, <2>4, <3>1, <3>3
    <2>6. cur' \in 0 .. MaxPid
      BY <1>4, <2>4, KernelAssumption
    <2> QED BY <2>3, <2>5, <2>6
  <1> QED BY <1>3, <1>4 DEF Schedule, r

-----------------------------------------------------------------------------
(* The tables the handlers leave behind. *)

(* A system call is made by the one process marked Running. *)
LEMMA IssuesFacts ==
    ASSUME IInv, NEW s \in Slots, NEW op, NEW arg, Issues(s, op, arg)
    PROVE  /\ table[s].pid = cur
           /\ table[s].state = "Running"
           /\ cur \in Pids /\ cur < next_pid
           /\ table[s].retry = NoRetry \/ table[s].retry = [op |-> op, arg |-> arg]
           /\ died[cur] = NoCode
           /\ OnlyCur(table)
           /\ \A u \in Slots : Holds(table, u, cur) => u = s
  <1>1. table[s].pid = cur /\ table[s].state = "Running" /\ cur # 0
    BY DEF Issues, IsSlotOf, Holds, IInv, OneRunning
  <1>2. cur \in 1 .. next_pid - 1
    BY <1>1 DEF IInv, TableInv, Unique
  <1>3. cur \in Pids /\ cur < next_pid
    BY <1>2, KernelAssumption DEF IInv, TypeOK, Pids
  <1>4. died[cur] = NoCode
    <2>1. Live(table, cur)
      BY <1>1 DEF Live
    <2> QED BY <1>3, <2>1 DEF IInv, TableInv, ExitOK
  <1>5. OnlyCur(table)
    BY DEF IInv, OneRunning, OnlyCur
  <1>6. \A u \in Slots : Holds(table, u, cur) => u = s
    BY <1>1 DEF IInv, TableInv, Unique, Holds
  <1> QED BY <1>1, <1>3, <1>4, <1>5, <1>6 DEF Issues

(* r keeps every pid of t where it is, and who is alive. *)
LEMMA SameLive ==
    ASSUME NEW t, NEW r, NEW p,
           \A s \in Slots : r[s].pid = t[s].pid
                            /\ (r[s].state \in Alive <=> t[s].state \in Alive)
    PROVE  Live(r, p) <=> Live(t, p)
  BY DEF Live, Alive

(* The call returns: nothing is left of a waitpid whose child is gone. *)
LEMMA ReturnedStep ==
    ASSUME NEW t, NEW n, NEW q, NEW d, TableInv(t, n, q, d), NEW s \in Slots,
           t[s].state = "Running",
           t[s].retry.op = "waitpid" =>
              \A u \in Slots : t[u].pid = t[s].retry.arg
                                 => t[u].state \notin Alive \cup {"Dead"}
    PROVE  /\ TableInv(Returned(t, s), n, q, d)
           /\ \A u \in Slots : /\ Returned(t, s)[u].pid = t[u].pid
                               /\ Returned(t, s)[u].state = t[u].state
  <1> DEFINE r == Returned(t, s)
  <1>1. /\ r \in [Slots -> Process]
        /\ \A u \in Slots : /\ r[u].pid = t[u].pid
                            /\ r[u].state = t[u].state
                            /\ r[u].waiting_for_pid = t[u].waiting_for_pid
                            /\ r[u].exit_code = t[u].exit_code
                            /\ r[u].retry = IF u = s THEN NoRetry ELSE t[u].retry
    BY DEF TableInv, Returned, Process, Retries
  <1> HIDE DEF r
  <1>2. \A p : Live(r, p) <=> Live(t, p)
    BY <1>1, SameLive
  <1>3. Unique(r, n)
    BY <1>1 DEF TableInv, Unique
  <1>4. WaitOK(r, n)
    <2> SUFFICES ASSUME NEW u \in Slots, r[u].state \in Alive
                 PROVE /\ r[u].waiting_for_pid < n
                       /\ r[u].state = "Blocked" => r[u].retry.op # "none"
                       /\ r[u].retry.op = "waitpid"
                            => r[u].waiting_for_pid \in {0, r[u].retry.arg}
                       /\ r[u].retry.op = "waitpid" /\ r[u].state = "Blocked"
                            => r[u].waiting_for_pid = r[u].retry.arg
                       /\ r[u].retry.op # "waitpid" => ~ Live(r, r[u].waiting_for_pid)
      BY DEF WaitOK
    <2>1. CASE u # s
      BY <1>1, <1>2, <2>1 DEF TableInv, WaitOK
    <2>2. CASE u = s
      <3>1. r[s].retry.op = "none" /\ t[s].waiting_for_pid < n /\ r[s].state # "Blocked"
        BY <1>1, <2>2 DEF NoRetry, TableInv, WaitOK
      <3>2. ~ Live(t, t[s].waiting_for_pid)
        <4>1. CASE t[s].retry.op = "waitpid"
          <5>1. t[s].waiting_for_pid \in {0, t[s].retry.arg}
            BY <1>1, <2>2, <4>1 DEF TableInv, WaitOK
          <5>2. ~ Live(t, t[s].retry.arg)
            BY <4>1 DEF Live, Alive
          <5>3. ~ Live(t, 0)
            BY DEF Live, TableInv, Unique
          <5> QED BY <5>1, <5>2, <5>3
        <4>2. CASE t[s].retry.op # "waitpid"
          BY <1>1, <2>2, <4>2 DEF TableInv, WaitOK
        <4> QED BY <4>1, <4>2
      <3> QED BY <1>1, <1>2, <2>2, <3>1, <3>2
    <2> QED BY <2>1, <2>2
  <1>5. ReaperOK(r)
    <2> SUFFICES ASSUME NEW x \in Slots, r[x].state = "Dead"
                 PROVE  \E u \in Slots :
                           /\ r[u].state \in {"Ready", "Running"}
                           /\ r[u].retry = [op |-> "waitpid", arg |-> r[x].pid]
      BY DEF ReaperOK
    <2>1. t[x].state = "Dead" /\ r[x].pid = t[x].pid
      BY <1>1
    <2>2. PICK u \in Slots : /\ t[u].state \in {"Ready", "Running"}
                             /\ t[u].retry = [op |-> "waitpid", arg |-> t[x].pid]
      BY <2>1 DEF TableInv, ReaperOK
    <2>3. u # s
      BY <2>1, <2>2
    <2> QED BY <1>1, <2>1, <2>2, <2>3
  <1>6. AwakeOK(r, q)
    BY <1>1 DEF TableInv, AwakeOK, NoRetry
  <1>7. ExitOK(r, n, d)
    BY <1>1, <1>2 DEF TableInv, ExitOK
  <1>8. TableInv(r, n, q, d)
    BY <1>1, <1>3, <1>4, <1>5, <1>6, <1>7 DEF TableInv
  <1> QED BY <1>1, <1>8 DEF r

(* The running process goes to sleep, with a call to repeat. *)
Sleeps(t, s, w, rt) ==
    [t EXCEPT ![s].state = "Blocked", ![s].waiting_for_pid = w, ![s].retry = rt]

(* What SYS_RECV and SYS_WAITPID check before they put the caller to sleep.*)
MaySleep(t, s, w, rt, q) ==
    /\ \/ /\ rt = [op |-> "recv", arg |-> 0]
          /\ w = t[s].waiting_for_pid
          /\ t[s].retry.op # "waitpid"
          /\ ~ (t[s].pid \in QueuePids /\ q[t[s].pid] # << >>)
       \/ rt = [op |-> "waitpid", arg |-> w]
    /\ \A u \in Slots : t[u].state = "Dead"
          => t[s].retry # [op |-> "waitpid", arg |-> t[u].pid]

Asleep(t, r, s) ==
    \A u \in Slots : /\ r[u].pid = t[u].pid
                     /\ r[u].state = IF u = s THEN "Blocked" ELSE t[u].state

(* block_current: the caller sleeps in recv or waitpid and will repeat it. *)
LEMMA SleepStep ==
    ASSUME NEW t, NEW n, NEW q, NEW d, TableInv(t, n, q, d), NEW s \in Slots,
           t[s].state = "Running",
           NEW w \in WaitTargets \cup {0}, w < n,
           NEW rt \in Retries,
           MaySleep(t, s, w, rt, q)
    PROVE  /\ TableInv(Sleeps(t, s, w, rt), n, q, d)
           /\ Asleep(t, Sleeps(t, s, w, rt), s)
  <1> DEFINE r == Sleeps(t, s, w, rt)
  <1>1. /\ r \in [Slots -> Process]
        /\ \A u \in Slots :
              /\ r[u].pid = t[u].pid
              /\ r[u].exit_code = t[u].exit_code
              /\ u # s => r[u] = t[u]
              /\ u = s => /\ r[u].state = "Blocked"
                          /\ r[u].waiting_for_pid = w
                          /\ r[u].retry = rt
    BY DEF TableInv, Sleeps, Process, States
  <1> HIDE DEF r
  <1>2. \A p : Live(r, p) <=> Live(t, p)
    <2>1. \A u \in Slots : r[u].pid = t[u].pid
                           /\ (r[u].state \in Alive <=> t[u].state \in Alive)
      BY <1>1 DEF Alive
    <2> QED BY <2>1, SameLive
  <1>3. Unique(r, n)
    <2>1. \A u \in Slots : r[u].state # "None" <=> t[u].state # "None"
      BY <1>1
    <2> QED BY <1>1, <2>1 DEF TableInv, Unique
  <1>4. WaitOK(r, n)
    <2> SUFFICES ASSUME NEW u \in Slots, r[u].state \in Alive
                 PROVE /\ r[u].waiting_for_pid < n
                       /\ r[u].state = "Blocked" => r[u].retry.op # "none"
                       /\ r[u].retry.op = "waitpid"
                            => r[u].waiting_for_pid \in {0, r[u].retry.arg}
                       /\ r[u].retry.op = "waitpid" /\ r[u].state = "Blocked"
                            => r[u].waiting_for_pid = r[u].retry.arg
                       /\ r[u].retry.op # "waitpid" => ~ Live(r, r[u].waiting_for_pid)
      BY DEF WaitOK
    <2>1. CASE u # s
      BY <1>1, <1>2, <2>1 DEF TableInv, WaitOK
    <2>2. CASE u = s
      <3>1. t[s].retry.op # "waitpid" => ~ Live(t, t[s].waiting_for_pid)
        BY DEF TableInv, WaitOK, Alive
      <3> QED BY <1>1, <1>2, <2>2, <3>1 DEF MaySleep
    <2> QED BY <2>1, <2>2
  <1>5. ReaperOK(r)
    <2> SUFFICES ASSUME NEW x \in Slots, r[x].state = "Dead"
                 PROVE  \E u \in Slots :
                           /\ r[u].state \in {"Ready", "Running"}
                           /\ r[u].retry = [op |-> "waitpid", arg |-> r[x].pid]
      BY DEF ReaperOK
    <2>1. t[x].state = "Dead" /\ r[x].pid = t[x].pid
      BY <1>1
    <2>2. PICK u \in Slots : /\ t[u].state \in {"Ready", "Running"}
                             /\ t[u].retry = [op |-> "waitpid", arg |-> t[x].pid]
      BY <2>1 DEF TableInv, ReaperOK
    <2>3. u # s
      BY <2>1, <2>2 DEF MaySleep
    <2> QED BY <1>1, <2>1, <2>2, <2>3
  <1>6. AwakeOK(r, q)
    BY <1>1 DEF TableInv, AwakeOK, MaySleep
  <1>7. ExitOK(r, n, d)
    BY <1>1, <1>2 DEF TableInv, ExitOK
  <1>8. TableInv(r, n, q, d)
    BY <1>1, <1>3, <1>4, <1>5, <1>6, <1>7 DEF TableInv
  <1>9. Asleep(t, r, s)
    BY <1>1 DEF Asleep
  <1> QED BY <1>8, <1>9 DEF r

(* exit_process: whoever waits for the running process wakes up and will   *)
(* repeat waitpid for it.                                                  *)
LEMMA ExitStep ==
    ASSUME IInv, NEW s \in Slots, NEW op, NEW arg, Issues(s, op, arg),
           table[s].retry = NoRetry, NEW code \in Codes
    PROVE  /\ TableInv(Exited(table, cur, code), next_pid, queues,
                       [died EXCEPT ![cur] = code])
           /\ OnlyCur(Exited(table, cur, code))
  <1> DEFINE r == Exited(table, cur, code)
             d == [died EXCEPT ![cur] = code]
             waited == \E u \in Slots : WaitsFor(table, u, cur)
  <1>0. /\ table \in [Slots -> Process]
        /\ TableInv(table, next_pid, queues, died)
        /\ died \in [Pids -> Codes \cup {NoCode}]
        /\ code # NoCode
    BY KernelAssumption DEF IInv, TableInv, TypeOK
  <1>f. /\ table[s].pid = cur /\ table[s].state = "Running"
        /\ cur \in Pids /\ cur < next_pid
        /\ OnlyCur(table)
        /\ \A u \in Slots : Holds(table, u, cur) => u = s
    BY IssuesFacts
  <1>i. \A u \in Slots : IsSlotOf(table, u, cur) <=> u = s
    <2>1. Holds(table, s, cur)
      BY <1>f DEF Holds
    <2>2. \A u \in Slots : IsSlotOf(table, u, cur) <=> Holds(table, u, cur)
      BY <1>0, SlotUnique DEF TableInv
    <2> QED BY <1>f, <2>1, <2>2
  <1>1. /\ r \in [Slots -> Process]
        /\ \A u \in Slots :
              /\ r[u].pid = table[u].pid
              /\ r[u].retry = table[u].retry
              /\ u = s => /\ r[u].state = IF waited THEN "Dead" ELSE "Empty"
                          /\ r[u].exit_code = code
              /\ u # s /\ WaitsFor(table, u, cur)
                    => /\ r[u].state = "Ready" /\ r[u].waiting_for_pid = 0
                       /\ r[u].exit_code = table[u].exit_code
              /\ u # s /\ ~ WaitsFor(table, u, cur) => r[u] = table[u]
    <2>1. r = [u \in Slots |->
                 IF u = s
                   THEN [table[u] EXCEPT !.state = IF waited THEN "Dead" ELSE "Empty",
                                         !.exit_code = code]
                 ELSE IF WaitsFor(table, u, cur)
                   THEN [table[u] EXCEPT !.state = "Ready", !.waiting_for_pid = 0]
                 ELSE table[u]]
      BY <1>i DEF Exited
    <2> HIDE DEF r, waited
    <2> QED BY <1>0, <2>1 DEF Process, States
  <1> HIDE DEF r, d
  <1>2. \A p : Live(r, p) <=> Live(table, p) /\ p # cur
    <2>1. \A u \in Slots : r[u].state \in Alive <=> table[u].state \in Alive /\ u # s
      BY <1>1 DEF Alive, WaitsFor
    <2>2. \A u \in Slots : table[u].state \in Alive /\ table[u].pid = cur => u = s
      BY <1>f DEF Alive, Holds
    <2> QED BY <1>1, <1>f, <2>1, <2>2 DEF Live, Alive
  <1>3. Unique(r, next_pid)
    <2>1. \A u \in Slots : r[u].state # "None" <=> table[u].state # "None"
      BY <1>1, <1>f DEF WaitsFor
    <2> QED BY <1>0, <1>1, <2>1 DEF TableInv, Unique
  <1>4. WaitOK(r, next_pid)
    <2> SUFFICES ASSUME NEW u \in Slots, r[u].state \in Alive
                 PROVE /\ r[u].waiting_for_pid < next_pid
                       /\ r[u].state = "Blocked" => r[u].retry.op # "none"
                       /\ r[u].retry.op = "waitpid"
                            => r[u].waiting_for_pid \in {0, r[u].retry.arg}
                       /\ r[u].retry.op = "waitpid" /\ r[u].state = "Blocked"
                            => r[u].waiting_for_pid = r[u].retry.arg
                       /\ r[u].retry.op # "waitpid" => ~ Live(r, r[u].waiting_for_pid)
      BY DEF WaitOK
    <2>1. u # s /\ table[u].state \in Alive
      BY <1>1 DEF Alive, WaitsFor
    <2>2. CASE WaitsFor(table, u, cur)
      <3>1. ~ Live(r, 0)
        BY <1>3 DEF Live, Unique
      <3>2. 0 < next_pid
        BY KernelAssumption DEF IInv, TypeOK
      <3> QED BY <1>1, <2>1, <2>2, <3>1, <3>2
    <2>3. CASE ~ WaitsFor(table, u, cur)
      BY <1>0, <1>1, <1>2, <2>1, <2>3 DEF TableInv, WaitOK
    <2> QED BY <2>2, <2>3
  <1>5. ReaperOK(r)
    <2> SUFFICES ASSUME NEW x \in Slots, r[x].state = "Dead"
                 PROVE  \E u \in Slots :
                           /\ r[u].state \in {"Ready", "Running"}
                           /\ r[u].retry = [op |-> "waitpid", arg |-> r[x].pid]
      BY DEF ReaperOK
    <2>1. CASE x = s
      <3>1. PICK u \in Slots : WaitsFor(table, u, cur)
        BY <1>1, <2>1
      <3>2. u # s
        BY <1>f, <3>1 DEF WaitsFor
      <3>3. r[u].state = "Ready" /\ r[u].retry = table[u].retry
        BY <1>1, <3>1, <3>2
      <3>4. Live(table, table[u].waiting_for_pid)
        BY <1>f, <3>1 DEF WaitsFor, Live
      <3>5. table[u].retry.op = "waitpid" /\ table[u].retry.arg = cur
        BY <1>0, <3>1, <3>4 DEF TableInv, WaitOK, WaitsFor, Alive
      <3>6. table[u].retry = [op |-> "waitpid", arg |-> cur]
        BY <1>0, <3>5 DEF Process, Retries, NoRetry
      <3> QED BY <1>1, <1>f, <2>1, <3>3, <3>6
    <2>2. CASE x # s
      <3>1. table[x].state = "Dead" /\ r[x].pid = table[x].pid
        BY <1>1, <2>2 DEF WaitsFor
      <3>2. PICK u \in Slots :
               /\ table[u].state \in {"Ready", "Running"}
               /\ table[u].retry = [op |-> "waitpid", arg |-> table[x].pid]
        BY <1>0, <3>1 DEF TableInv, ReaperOK
      <3>3. u # s
        BY <3>2 DEF NoRetry
      <3> QED BY <1>1, <3>1, <3>2, <3>3 DEF WaitsFor
    <2> QED BY <2>1, <2>2
  <1>6. AwakeOK(r, queues)
    <2>1. \A u \in Slots : r[u].state = "Blocked" => table[u].state = "Blocked"
      BY <1>1
    <2> QED BY <1>0, <1>1, <2>1 DEF TableInv, AwakeOK
  <1>7. ExitOK(r, next_pid, d)
    <2>1. \A p \in Pids : d[p] = IF p = cur THEN code ELSE died[p]
      BY <1>0, <1>f DEF d
    <2>2. \A p \in Pids : d[p] # NoCode => p < next_pid /\ ~ Live(r, p)
      BY <1>0, <1>2, <1>f, <2>1 DEF TableInv, ExitOK
    <2>3. ASSUME NEW x \in Slots, r[x].state = "Dead"
          PROVE  r[x].exit_code # NoCode /\ r[x].exit_code = d[r[x].pid]
      <3>1. CASE x = s
        BY <1>0, <1>1, <1>f, <2>1, <3>1
      <3>2. CASE x # s
        <4>1. table[x].state = "Dead" /\ r[x].pid = table[x].pid
              /\ r[x].exit_code = table[x].exit_code
          BY <1>1, <2>3, <3>2 DEF WaitsFor
        <4>2. table[x].pid # cur
          BY <1>f, <3>2, <4>1 DEF Holds
        <4>3. table[x].pid \in 1 .. next_pid - 1
          BY <1>0, <4>1 DEF TableInv, Unique
        <4>4. table[x].pid \in Pids
          BY <4>3, KernelAssumption DEF IInv, TypeOK, Pids
        <4> QED BY <1>0, <2>1, <4>1, <4>2, <4>4 DEF TableInv, ExitOK
      <3> QED BY <3>1, <3>2
    <2> QED BY <2>2, <2>3 DEF ExitOK
  <1>8. OnlyCur(r)
    BY <1>1, <1>f DEF OnlyCur, Holds
  <1> QED BY <1>1, <1>3, <1>4, <1>5, <1>6, <1>7, <1>8 DEF TableInv, r, d

(* load_elf fills a free slot under a pid nobody has, waits for or died as.*)
LEMMA LoadStep ==
    ASSUME IInv, NEW f \in Slots, Loaded(f), next_pid <= MaxPid,
           cur \in Nat, cur < next_pid, cur' = cur
    PROVE  TableInv(table', next_pid', queues, died) /\ OneRunning'
  <1> DEFINE r == table'
  <1>0. /\ table \in [Slots -> Process]
        /\ TableInv(table, next_pid, queues, died)
        /\ next_pid \in 1 .. MaxPid /\ next_pid' = next_pid + 1
        /\ table[f].state \in {"None", "Empty"}
    BY KernelAssumption DEF IInv, TableInv, TypeOK, Loaded, IsFreeSlot, Free
  <1>1. /\ r \in [Slots -> Process]
        /\ \A u \in Slots :
              /\ u # f => r[u] = table[u]
              /\ u = f => /\ r[u].pid = next_pid /\ r[u].state = "Ready"
                          /\ r[u].waiting_for_pid = 0 /\ r[u].retry = NoRetry
    <2>1. NewProcess(next_pid, "Ready") \in Process
      BY <1>0, KernelAssumption DEF NewProcess, Process, States, Retries
    <2> QED BY <1>0, <2>1 DEF Loaded, NewProcess
  <1>n. \A u \in Slots : table[u].state # "None" => table[u].pid # next_pid
    BY <1>0 DEF TableInv, Unique
  <1> HIDE DEF r
  <1>2. \A p : Live(r, p) <=> Live(table, p) \/ p = next_pid
    BY <1>0, <1>1 DEF Live
  <1>3. Unique(r, next_pid')
    BY <1>0, <1>1, <1>n DEF TableInv, Unique
  <1>4. WaitOK(r, next_pid')
    <2> SUFFICES ASSUME NEW u \in Slots, r[u].state \in Alive
                 PROVE /\ r[u].waiting_for_pid < next_pid'
                       /\ r[u].state = "Blocked" => r[u].retry.op # "none"
                       /\ r[u].retry.op = "waitpid"
                            => r[u].waiting_for_pid \in {0, r[u].retry.arg}
                       /\ r[u].retry.op = "waitpid" /\ r[u].state = "Blocked"
                            => r[u].waiting_for_pid = r[u].retry.arg
                       /\ r[u].retry.op # "waitpid" => ~ Live(r, r[u].waiting_for_pid)
      BY DEF WaitOK
    <2>1. CASE u = f
      <3>1. ~ Live(r, 0)
        BY <1>3 DEF Live, Unique
      <3> QED BY <1>0, <1>1, <2>1, <3>1 DEF NoRetry
    <2>2. CASE u # f
      <3>1. r[u] = table[u] /\ table[u].waiting_for_pid < next_pid
        BY <1>0, <1>1, <2>2 DEF TableInv, WaitOK
      <3>2. table[u].waiting_for_pid \in Nat
        <4>1. table[u].waiting_for_pid \in WaitTargets \cup {0}
          BY <1>0 DEF Process
        <4>2. WaitTargets \subseteq Nat
          BY KernelAssumption
        <4>3. 0 \in Nat
          OBVIOUS
        <4> QED BY <4>1, <4>2, <4>3, Zenon
      <3>3. table[u].waiting_for_pid # next_pid /\ table[u].waiting_for_pid < next_pid'
        BY <1>0, <3>1, <3>2
      <3>4. Live(r, r[u].waiting_for_pid) <=> Live(table, table[u].waiting_for_pid)
        BY <1>2, <3>1, <3>3
      <3> QED BY <1>0, <3>1, <3>3, <3>4 DEF TableInv, WaitOK
    <2> QED BY <2>1, <2>2
  <1>5. ReaperOK(r)
    BY <1>0, <1>1 DEF TableInv, ReaperOK
  <1>6. AwakeOK(r, queues)
    BY <1>0, <1>1 DEF TableInv, AwakeOK
  <1>7. ExitOK(r, next_pid', died)
    <2>1. \A p \in Pids : died[p] # NoCode => p < next_pid' /\ ~ Live(r, p)
      BY <1>0, <1>2 DEF TableInv, ExitOK, Pids
    <2> QED BY <1>0, <1>1, <2>1 DEF TableInv, ExitOK
  <1>8. OneRunning'
    <2> SUFFICES ASSUME NEW u \in Slots
                 PROVE  r[u].state = "Running" <=> (cur # 0 /\ Holds(r, u, cur))
      BY DEF OneRunning, r
    <2>1. table[u].state = "Running" <=> (cur # 0 /\ Holds(table, u, cur))
      BY DEF IInv, OneRunning
    <2>2. CASE u # f
      BY <1>1, <2>1, <2>2 DEF Holds
    <2>3. CASE u = f
      <3>1. cur # next_pid
        BY <1>0
      <3> QED BY <1>1, <2>3, <3>1 DEF Holds
    <2> QED BY <2>2, <2>3
  <1> QED BY <1>1, <1>3, <1>4, <1>5, <1>6, <1>7, <1>8 DEF TableInv, r

(* waitpid frees the slot of a Dead child: only its caller, who repeated   *)
(* the call, loses a reason to repeat it.                                  *)
LEMMA ReapStep ==
    ASSUME IInv, NEW s \in Slots, NEW c \in WaitTargets, Issues(s, "waitpid", c),
           NEW x \in Slots, IsSlotOf(table, x, c), table[x].state = "Dead"
    PROVE  /\ TableInv(Returned(Reaped(table, c), s), next_pid, queues, died)
           /\ \A u \in Slots :
                 /\ Returned(Reaped(table, c), s)[u].pid = table[u].pid
                 /\ Returned(Reaped(table, c), s)[u].state =
                       IF u = x THEN "Empty" ELSE table[u].state
  <1> DEFINE r == Returned(Reaped(table, c), s)
  <1>0. /\ table \in [Slots -> Process]
        /\ TableInv(table, next_pid, queues, died)
    BY DEF IInv, TableInv
  <1>f. /\ table[s].state = "Running"
        /\ table[s].retry = NoRetry \/ table[s].retry = [op |-> "waitpid", arg |-> c]
    BY IssuesFacts
  <1>x. /\ table[x].pid = c /\ x # s
        /\ \A u \in Slots : IsSlotOf(table, u, c) <=> u = x
        /\ \A u \in Slots : table[u].state # "None" /\ table[u].pid = c => u = x
    <2>1. Holds(table, x, c)
      BY DEF IsSlotOf
    <2>2. \A u \in Slots : IsSlotOf(table, u, c) <=> Holds(table, u, c)
      BY <1>0, SlotUnique DEF TableInv
    <2> QED BY <1>0, <1>f, <2>1, <2>2 DEF Holds, TableInv, Unique
  <1>1. /\ r \in [Slots -> Process]
        /\ \A u \in Slots :
              /\ r[u].pid = table[u].pid
              /\ r[u].state = IF u = x THEN "Empty" ELSE table[u].state
              /\ r[u].waiting_for_pid = table[u].waiting_for_pid
              /\ r[u].exit_code = table[u].exit_code
              /\ r[u].retry = IF u = s THEN NoRetry ELSE table[u].retry
    <2> DEFINE t == Reaped(table, c)
    <2>1. /\ t \in [Slots -> Process]
          /\ \A u \in Slots :
                t[u] = IF u = x THEN [table[u] EXCEPT !.state = "Empty"] ELSE table[u]
      BY <1>0, <1>x DEF Reaped, Process, States
    <2> HIDE DEF t
    <2>2. r = [t EXCEPT ![s].retry = NoRetry]
      BY DEF Returned, t
    <2>3. NoRetry \in Retries
      BY DEF Retries
    <2> HIDE DEF r
    <2>4. r \in [Slots -> Process]
      BY <2>1, <2>2, <2>3 DEF Process
    <2>5. \A u \in Slots : r[u] = IF u = s THEN [t[u] EXCEPT !.retry = NoRetry] ELSE t[u]
      BY <2>1, <2>2
    <2> QED BY <1>0, <1>x, <2>1, <2>4, <2>5 DEF Process
  <1> HIDE DEF r
  <1>2. \A p : Live(r, p) <=> Live(table, p)
    <2>1. \A u \in Slots : r[u].pid = table[u].pid
                           /\ (r[u].state \in Alive <=> table[u].state \in Alive)
      BY <1>1 DEF Alive
    <2> QED BY <2>1, SameLive
  <1>3. Unique(r, next_pid)
    <2>1. \A u \in Slots : r[u].state # "None" <=> table[u].state # "None"
      BY <1>1
    <2> QED BY <1>0, <1>1, <2>1 DEF TableInv, Unique
  <1>4. WaitOK(r, next_pid)
    <2> SUFFICES ASSUME NEW u \in Slots, r[u].state \in Alive
                 PROVE /\ r[u].waiting_for_pid < next_pid
                       /\ r[u].state = "Blocked" => r[u].retry.op # "none"
                       /\ r[u].retry.op = "waitpid"
                            => r[u].waiting_for_pid \in {0, r[u].retry.arg}
                       /\ r[u].retry.op = "waitpid" /\ r[u].state = "Blocked"
                            => r[u].waiting_for_pid = r[u].retry.arg
                       /\ r[u].retry.op # "waitpid" => ~ Live(r, r[u].waiting_for_pid)
      BY DEF WaitOK
    <2>0. u # x /\ table[u].state = r[u].state
      BY <1>1 DEF Alive
    <2>1. CASE u # s
      BY <1>0, <1>1, <1>2, <2>0, <2>1 DEF TableInv, WaitOK
    <2>2. CASE u = s
      <3>1. r[s].retry.op = "none" /\ r[s].state # "Blocked"
            /\ table[s].waiting_for_pid < next_pid
        BY <1>0, <1>1, <1>f, <2>0, <2>2 DEF NoRetry, TableInv, WaitOK
      <3>2. ~ Live(table, 0) /\ ~ Live(table, c)
        BY <1>0, <1>x DEF Live, TableInv, Unique
      <3>3. CASE table[s].retry = NoRetry
        BY <1>0, <1>1, <1>2, <2>0, <2>2, <3>1, <3>3 DEF TableInv, WaitOK, NoRetry
      <3>4. CASE table[s].retry = [op |-> "waitpid", arg |-> c]
        <4>1. table[s].waiting_for_pid \in {0, c}
          BY <1>0, <2>0, <2>2, <3>4 DEF TableInv, WaitOK
        <4> QED BY <1>1, <1>2, <2>2, <3>1, <3>2, <4>1
      <3> QED BY <1>f, <3>3, <3>4
    <2> QED BY <2>1, <2>2
  <1>5. ReaperOK(r)
    <2> SUFFICES ASSUME NEW y \in Slots, r[y].state = "Dead"
                 PROVE  \E u \in Slots :
                           /\ r[u].state \in {"Ready", "Running"}
                           /\ r[u].retry = [op |-> "waitpid", arg |-> r[y].pid]
      BY DEF ReaperOK
    <2>1. y # x /\ table[y].state = "Dead" /\ r[y].pid = table[y].pid
      BY <1>1
    <2>2. PICK u \in Slots :
             /\ table[u].state \in {"Ready", "Running"}
             /\ table[u].retry = [op |-> "waitpid", arg |-> table[y].pid]
      BY <1>0, <2>1 DEF TableInv, ReaperOK
    <2>3. table[y].pid # c
      BY <1>x, <2>1
    <2>4. u # s
      <3>1. table[u].retry.op = "waitpid" /\ table[u].retry.arg = table[y].pid
        BY <2>2
      <3> QED BY <1>f, <2>3, <3>1 DEF NoRetry
    <2>5. u # x
      BY <2>2
    <2> QED BY <1>1, <2>1, <2>2, <2>4, <2>5
  <1>6. AwakeOK(r, queues)
    <2>1. \A u \in Slots : r[u].state = "Blocked" =>
             u # s /\ table[u].state = "Blocked"
      BY <1>1, <1>f
    <2> QED BY <1>0, <1>1, <2>1 DEF TableInv, AwakeOK
  <1>7. ExitOK(r, next_pid, died)
    <2>1. \A u \in Slots : r[u].state = "Dead" => table[u].state = "Dead"
      BY <1>1
    <2> QED BY <1>0, <1>1, <1>2, <2>1 DEF TableInv, ExitOK
  <1> QED BY <1>1, <1>3, <1>4, <1>5, <1>6, <1>7 DEF TableInv, r

(* A push that the queue accepts keeps it a sequence of messages. *)
LEMMA PushedType ==
    ASSUME NEW q \in Seq(Message), NEW m \in Message
    PROVE  Pushed(q, m) \in Seq(Message)
  <1>1. CASE Coalesces(q, m)
    <2>1. Len(q) \in 1 .. Len(q) /\ q # << >>
      BY <1>1 DEF Coalesces
    <2> QED BY <1>1, <2>1 DEF Pushed
  <1>2. CASE ~ Coalesces(q, m)
    BY <1>2 DEF Pushed
  <1> QED BY <1>1, <1>2

(* ipc::send: a receiver that sleeps is woken in the step that gives it a  *)
(* message.                                                                *)
LEMMA DeliverStep ==
    ASSUME IInv, NEW to, NEW m \in Message, Deliver(to, m), cur' = cur
    PROVE  /\ TableInv(table', next_pid, queues', died)
           /\ OneRunning'
           /\ queues' \in [QueuePids -> Seq(Message)]
  <1>0. /\ table \in [Slots -> Process]
        /\ queues \in [QueuePids -> Seq(Message)]
        /\ TableInv(table, next_pid, queues, died)
    BY DEF IInv, TableInv, TypeOK
  <1>1. CASE UNCHANGED << queues, table >>
    BY <1>0, <1>1 DEF IInv, OneRunning
  <1>2. CASE /\ to \in QueuePids
             /\ queues' = [queues EXCEPT ![to] = Pushed(queues[to], m)]
             /\ table' = Unblocked(table, to)
    <2> DEFINE r == table'
    <2>1. /\ queues' \in [QueuePids -> Seq(Message)]
          /\ \A p \in QueuePids : p # to => queues'[p] = queues[p]
      BY <1>0, <1>2, PushedType
    <2>2. /\ r \in [Slots -> Process]
          /\ \A u \in Slots :
                r[u] = IF Holds(table, u, to) /\ table[u].state = "Blocked"
                         THEN [table[u] EXCEPT !.state = "Ready"] ELSE table[u]
      <3>1. \A u \in Slots : IsSlotOf(table, u, to) <=> Holds(table, u, to)
        BY <1>0, SlotUnique DEF TableInv
      <3> QED BY <1>0, <1>2, <3>1 DEF Unblocked, Process, States
    <2> HIDE DEF r
    <2>3. \A u \in Slots :
             /\ r[u].pid = table[u].pid
             /\ r[u].waiting_for_pid = table[u].waiting_for_pid
             /\ r[u].exit_code = table[u].exit_code
             /\ r[u].retry = table[u].retry
             /\ \/ r[u].state = table[u].state /\ ~ (r[u].state = "Blocked" /\ r[u].pid = to)
                \/ r[u].state = "Ready" /\ table[u].state = "Blocked"
      BY <1>0, <2>2 DEF Holds, Process
    <2>4. \A p : Live(r, p) <=> Live(table, p)
      <3>1. \A u \in Slots : r[u].pid = table[u].pid
                             /\ (r[u].state \in Alive <=> table[u].state \in Alive)
        BY <2>3 DEF Alive
      <3> QED BY <3>1, SameLive
    <2>5. Unique(r, next_pid)
      BY <1>0, <2>3 DEF TableInv, Unique
    <2>6. WaitOK(r, next_pid)
      <3> SUFFICES ASSUME NEW u \in Slots, r[u].state \in Alive
                 PROVE /\ r[u].waiting_for_pid < next_pid
                       /\ r[u].state = "Blocked" => r[u].retry.op # "none"
                       /\ r[u].retry.op = "waitpid"
                            => r[u].waiting_for_pid \in {0, r[u].retry.arg}
                       /\ r[u].retry.op = "waitpid" /\ r[u].state = "Blocked"
                            => r[u].waiting_for_pid = r[u].retry.arg
                       /\ r[u].retry.op # "waitpid" => ~ Live(r, r[u].waiting_for_pid)
        BY DEF WaitOK
      <3>1. table[u].state \in Alive /\ (r[u].state = "Blocked" => table[u].state = "Blocked")
        BY <2>3 DEF Alive
      <3> QED BY <1>0, <2>3, <2>4, <3>1 DEF TableInv, WaitOK
    <2>7. ReaperOK(r)
      <3> SUFFICES ASSUME NEW x \in Slots, r[x].state = "Dead"
                   PROVE  \E u \in Slots :
                             /\ r[u].state \in {"Ready", "Running"}
                             /\ r[u].retry = [op |-> "waitpid", arg |-> r[x].pid]
        BY DEF ReaperOK
      <3>1. table[x].state = "Dead" /\ r[x].pid = table[x].pid
        BY <2>3
      <3>2. PICK u \in Slots :
               /\ table[u].state \in {"Ready", "Running"}
               /\ table[u].retry = [op |-> "waitpid", arg |-> table[x].pid]
        BY <1>0, <3>1 DEF TableInv, ReaperOK
      <3> QED BY <2>3, <3>1, <3>2
    <2>8. AwakeOK(r, queues')
      <3> SUFFICES ASSUME NEW u \in Slots, r[u].state = "Blocked", r[u].retry.op = "recv"
                   PROVE  ~ (r[u].pid \in QueuePids /\ queues'[r[u].pid] # << >>)
        BY DEF AwakeOK
      <3>1. /\ r[u].pid # to /\ table[u].state = "Blocked"
            /\ table[u].retry.op = "recv" /\ r[u].pid = table[u].pid
        BY <2>3
      <3> QED BY <1>0, <2>1, <3>1 DEF TableInv, AwakeOK
    <2>9. ExitOK(r, next_pid, died)
      <3>1. \A u \in Slots : r[u].state = "Dead" => table[u].state = "Dead"
        BY <2>3
      <3> QED BY <1>0, <2>3, <2>4, <3>1 DEF TableInv, ExitOK
    <2>10. OneRunning'
      BY <2>3 DEF IInv, OneRunning, Holds, r
    <2> QED BY <2>1, <2>2, <2>5, <2>6, <2>7, <2>8, <2>9, <2>10 DEF TableInv, r
  <1> QED BY <1>1, <1>2 DEF Deliver

-----------------------------------------------------------------------------
(* The inductive invariant. *)

(* The state the boot code leaves satisfies the inductive invariant. *)
LEMMA InitIInv == Init => IInv
  <1> SUFFICES ASSUME Init PROVE IInv
    OBVIOUS
  <1>1. /\ NewProcess(1, "Ready") \in Process /\ NewProcess(0, "None") \in Process
        /\ 0 \in Slots /\ 1 \in Pids
    BY KernelAssumption DEF NewProcess, Process, States, Retries, Slots, Pids
  <1>2. /\ table \in [Slots -> Process]
        /\ \A s \in Slots : /\ table[s].waiting_for_pid = 0
                            /\ table[s].retry = NoRetry
                            /\ s = 0 => table[s].state = "Ready" /\ table[s].pid = 1
                            /\ s # 0 => table[s].state = "None" /\ table[s].pid = 0
    BY <1>1 DEF Init, NewProcess
  <1>3. \A s \in Slots : table[s].state \in {"Ready", "None"}
    BY <1>2
  <1>4. TypeOK
    <2>1. << >> \in Seq(Message)
      OBVIOUS
    <2>2. queues \in [QueuePids -> Seq(Message)]
      BY <2>1 DEF Init
    <2>3. next_pid \in 1 .. MaxPid + 1 /\ cur \in 0 .. MaxPid
      BY KernelAssumption DEF Init
    <2> QED BY <1>2, <2>2, <2>3 DEF Init, TypeOK
  <1>5. Unique(table, next_pid)
    BY <1>2 DEF Unique, Init
  <1>6. ~ Live(table, 0)
    BY <1>2 DEF Live
  <1>7. WaitOK(table, next_pid)
    BY <1>2, <1>3, <1>6 DEF WaitOK, Init, NoRetry
  <1>8. ReaperOK(table) /\ AwakeOK(table, queues) /\ ExitOK(table, next_pid, died)
    BY <1>3 DEF ReaperOK, AwakeOK, ExitOK, Init
  <1>9. OneRunning
    BY <1>3 DEF OneRunning, Init
  <1>10. ExitCodeIntact
    BY DEF ExitCodeIntact, Init
  <1> QED BY <1>2, <1>4, <1>5, <1>7, <1>8, <1>9, <1>10 DEF IInv, TableInv

(* Most handlers change neither NEXT_PID nor the exit codes. *)
LEMMA Combine ==
    ASSUME IInv,
           TableInv(table', next_pid', queues', died'), OneRunning',
           next_pid' \in 1 .. MaxPid + 1, cur' \in 0 .. MaxPid,
           queues' \in [QueuePids -> Seq(Message)],
           machine' \in {"up", "off", "hung"},
           died' = died, delivered' = delivered
    PROVE  IInv'
  <1>1. TypeOK'
    BY DEF IInv, TypeOK, TableInv
  <1>2. ExitCodeIntact'
    BY DEF IInv, ExitCodeIntact
  <1>3. TableInv(table, next_pid, queues, died)'
    BY DEF TableInv, Unique, WaitOK, ReaperOK, AwakeOK, ExitOK, Live
  <1> QED BY <1>1, <1>2, <1>3 DEF IInv

(* Every handler preserves the inductive invariant. *)
LEMMA StepIInv == IInv /\ [Next]_vars => IInv'
  <1> SUFFICES ASSUME IInv, [Next]_vars PROVE IInv'
    OBVIOUS
  <1>t. /\ TableInv(table, next_pid, queues, died)
        /\ table \in [Slots -> Process]
        /\ next_pid \in 1 .. MaxPid + 1 /\ cur \in 0 .. MaxPid
        /\ queues \in [QueuePids -> Seq(Message)] /\ machine \in {"up", "off", "hung"}
        /\ died \in [Pids -> Codes \cup {NoCode}]
        /\ delivered \in [Pids -> Codes \cup {NoCode}]
        /\ OneRunning /\ OnlyCur(table)
    BY DEF IInv, TypeOK, OneRunning, OnlyCur
  <1>0. ASSUME NEW t, TableInv(t, next_pid, queues, died), OnlyCur(t), Schedule(t),
               UNCHANGED << next_pid, queues, machine, died, delivered >>
        PROVE  IInv'
    <2>1. TableInv(table', next_pid, queues, died) /\ OneRunning' /\ cur' \in 0 .. MaxPid
      BY <1>0, <1>t, ScheduleStep
    <2> QED BY <1>0, <1>t, <2>1, Combine
  <1>1. ASSUME NEW s \in Slots, NEW to \in SendTargets, NEW m \in Message,
               SysSend(s, to, m)
        PROVE  IInv'
    <2>1. Deliver(to, m) /\ cur' = cur
      BY <1>1 DEF SysSend
    <2>2. /\ TableInv(table', next_pid, queues', died) /\ OneRunning'
          /\ queues' \in [QueuePids -> Seq(Message)]
      BY <2>1, DeliverStep
    <2> QED BY <1>1, <1>t, <2>2, Combine DEF SysSend
  <1>2. ASSUME NEW s \in Slots, SysRecvTakes(s) PROVE IInv'
    <2>1. /\ table[s].state = "Running" /\ table[s].retry.op # "waitpid"
      <3>1. Issues(s, "recv", 0)
        BY <1>2 DEF SysRecvTakes
      <3>2. /\ table[s].state = "Running" /\ table[s].pid = cur
            /\ table[s].retry = NoRetry \/ table[s].retry = [op |-> "recv", arg |-> 0]
        BY <3>1, IssuesFacts
      <3> QED BY <3>2 DEF NoRetry
    <2>2. /\ TableInv(table', next_pid, queues, died)
          /\ \A u \in Slots : /\ table'[u].pid = table[u].pid
                              /\ table'[u].state = table[u].state
      BY <1>2, <1>t, <2>1, ReturnedStep DEF SysRecvTakes
    <2>3. /\ queues' \in [QueuePids -> Seq(Message)]
          /\ \A p \in QueuePids : queues'[p] # << >> => queues[p] # << >>
      <3>1. cur \in QueuePids /\ queues[cur] \in Seq(Message) /\ queues[cur] # << >>
        BY <1>2, <1>t DEF SysRecvTakes, HasMessage
      <3>2. Tail(queues[cur]) \in Seq(Message)
        BY <3>1
      <3>3. queues' = [queues EXCEPT ![cur] = Tail(queues[cur])]
        BY <1>2 DEF SysRecvTakes
      <3> QED BY <1>t, <3>1, <3>2, <3>3
    <2>4. AwakeOK(table', queues')
      BY <2>2, <2>3 DEF TableInv, AwakeOK
    <2>5. TableInv(table', next_pid, queues', died)
      BY <2>2, <2>4 DEF TableInv
    <2>6. OneRunning'
      BY <1>2, <1>t, <2>2 DEF SysRecvTakes, OneRunning, Holds
    <2> QED BY <1>2, <1>t, <2>3, <2>5, <2>6, Combine DEF SysRecvTakes
  <1>3. ASSUME NEW s \in Slots, SysRecvBlocks(s) PROVE IInv'
    <2> DEFINE w == table[s].waiting_for_pid
               rt == [op |-> "recv", arg |-> 0]
    <2>1. /\ table[s].state = "Running" /\ table[s].retry.op # "waitpid"
          /\ table[s].pid = cur
      <3>1. Issues(s, "recv", 0)
        BY <1>3 DEF SysRecvBlocks
      <3>2. /\ table[s].state = "Running" /\ table[s].pid = cur
            /\ table[s].retry = NoRetry \/ table[s].retry = [op |-> "recv", arg |-> 0]
        BY <3>1, IssuesFacts
      <3> QED BY <3>2 DEF NoRetry
    <2>2. w \in WaitTargets \cup {0} /\ w < next_pid /\ rt \in Retries
      BY <1>t, <2>1 DEF Process, TableInv, WaitOK, Alive, Retries
    <2>3. ~ (table[s].pid \in QueuePids /\ queues[table[s].pid] # << >>)
      BY <1>3, <2>1 DEF SysRecvBlocks, HasMessage
    <2>4. \A u \in Slots : table[u].state = "Dead"
             => table[s].retry # [op |-> "waitpid", arg |-> table[u].pid]
      BY <2>1
    <2>5. Receiving(table, s) = Sleeps(table, s, w, rt)
      BY <1>t DEF Receiving, Sleeps, Process
    <2> HIDE DEF w, rt
    <2>s. MaySleep(table, s, w, rt, queues)
      BY <2>1, <2>3, <2>4 DEF MaySleep, w, rt
    <2>6. /\ TableInv(Receiving(table, s), next_pid, queues, died)
          /\ Asleep(table, Receiving(table, s), s)
      BY <1>t, <2>1, <2>2, <2>5, <2>s, SleepStep
    <2>7. OnlyCur(Receiving(table, s))
      BY <1>t, <2>6 DEF OnlyCur, Holds, Asleep
    <2> QED BY <1>0, <1>3, <2>6, <2>7 DEF SysRecvBlocks
  <1>4. ASSUME NEW s \in Slots, SysYield(s) PROVE IInv'
    BY <1>0, <1>4, <1>t DEF SysYield
  <1>5. ASSUME NEW s \in Slots, NEW op, Issues(s, op, 0), table[s].retry = NoRetry,
               NEW code \in Codes, Terminate(code)
        PROVE  IInv'
    <2>1. /\ TableInv(Exited(table, cur, code), next_pid, queues, died')
          /\ OnlyCur(Exited(table, cur, code))
      BY <1>5, ExitStep DEF Terminate
    <2>2. TableInv(table', next_pid, queues, died') /\ OneRunning' /\ cur' \in 0 .. MaxPid
      BY <1>5, <1>t, <2>1, ScheduleStep DEF Terminate
    <2>3. cur \in Pids /\ died[cur] = NoCode
      BY <1>5, IssuesFacts
    <2>4. TypeOK'
      BY <1>5, <1>t, <2>2, <2>3 DEF Terminate, TypeOK, TableInv
    <2>5. ExitCodeIntact'
      BY <1>5, <1>t, <2>3 DEF Terminate, IInv, ExitCodeIntact
    <2>6. TableInv(table, next_pid, queues, died)'
      BY <1>5, <2>2 DEF Terminate, TableInv, Unique, WaitOK, ReaperOK, AwakeOK, ExitOK, Live
    <2> QED BY <2>2, <2>4, <2>5, <2>6 DEF IInv
  <1>6. ASSUME NEW s \in Slots, NEW code \in ExitCodes, SysExit(s, code) PROVE IInv'
    <2>1. table[s].retry = NoRetry /\ Issues(s, "exit", 0)
      <3>1. Issues(s, "exit", 0)
        BY <1>6 DEF SysExit
      <3>2. table[s].retry # [op |-> "exit", arg |-> 0]
        BY <1>t DEF Process, Retries, NoRetry
      <3> QED BY <3>1, <3>2 DEF Issues
    <2> QED BY <1>5, <1>6, <2>1 DEF SysExit, Codes
  <1>7. ASSUME NEW s \in Slots, SysSpawn(s) PROVE IInv'
    <2>1. cur \in Pids /\ cur < next_pid
      BY <1>7, IssuesFacts DEF SysSpawn
    <2>2. ASSUME NEW f \in Slots, Loaded(f) PROVE IInv'
      <3>1. TableInv(table', next_pid', queues, died) /\ OneRunning'
        BY <1>7, <2>1, <2>2, LoadStep DEF SysSpawn, Pids
      <3>2. next_pid' \in 1 .. MaxPid + 1
        BY <1>7, <1>t, <2>2, KernelAssumption DEF SysSpawn, Loaded
      <3> QED BY <1>7, <1>t, <3>1, <3>2, Combine DEF SysSpawn
    <2>3. CASE next_pid' = next_pid + 1 /\ UNCHANGED table
      <3>1. next_pid' \in 1 .. MaxPid + 1
        BY <1>7, <1>t, <2>3, KernelAssumption DEF SysSpawn
      <3>2. Unique(table, next_pid')
        BY <1>t, <2>3 DEF TableInv, Unique
      <3>3. WaitOK(table, next_pid')
        <4>1. \A u \in Slots : table[u].waiting_for_pid < next_pid
                                 => table[u].waiting_for_pid < next_pid'
          <5>1. WaitTargets \subseteq Nat /\ 0 \in Nat
            BY KernelAssumption
          <5>2. \A u \in Slots : table[u].waiting_for_pid \in WaitTargets \cup {0}
            BY <1>t DEF Process
          <5>3. \A u \in Slots : table[u].waiting_for_pid \in Nat
            BY <5>1, <5>2, Zenon
          <5> QED BY <1>t, <2>3, <5>3
        <4> QED BY <1>t, <4>1 DEF TableInv, WaitOK
      <3>4. ExitOK(table, next_pid', died)
        BY <1>t, <2>3 DEF TableInv, ExitOK, Pids
      <3>5. TableInv(table', next_pid', queues', died')
        BY <1>7, <1>t, <2>3, <3>2, <3>3, <3>4 DEF SysSpawn, TableInv
      <3>6. OneRunning'
        BY <1>7, <1>t, <2>3 DEF SysSpawn, OneRunning
      <3> QED BY <1>7, <1>t, <3>1, <3>5, <3>6, Combine DEF SysSpawn
    <2>4. CASE UNCHANGED << next_pid, table >>
      <3>1. TableInv(table', next_pid', queues', died') /\ OneRunning'
        BY <1>7, <1>t, <2>4 DEF SysSpawn, OneRunning
      <3> QED BY <1>7, <1>t, <2>4, <3>1, Combine DEF SysSpawn
    <2> QED BY <1>7, <2>2, <2>3, <2>4 DEF SysSpawn
  <1>8. ASSUME NEW s \in Slots, NEW c \in WaitTargets, SysWaitpidReaps(s, c) PROVE IInv'
    <2>1. PICK x \in Slots :
             /\ IsSlotOf(table, x, c)
             /\ table[x].state = "Dead"
             /\ delivered' = [delivered EXCEPT ![c] =
                   IF table[x].exit_code = NoCode THEN 0 ELSE table[x].exit_code]
      BY <1>8 DEF SysWaitpidReaps
    <2>2. /\ TableInv(table', next_pid, queues, died)
          /\ \A u \in Slots : /\ table'[u].pid = table[u].pid
                              /\ table'[u].state = IF u = x THEN "Empty" ELSE table[u].state
      BY <1>8, <2>1, ReapStep DEF SysWaitpidReaps
    <2>3. table[x].pid = c
      BY <2>1 DEF IsSlotOf, Holds
    <2>4. c \in Pids /\ table[x].exit_code = died[c] /\ died[c] # NoCode
      <3>1. c \in 1 .. next_pid - 1
        BY <1>t, <2>1, <2>3 DEF TableInv, Unique
      <3>2. c \in Pids
        BY <1>t, <3>1, KernelAssumption DEF Pids
      <3> QED BY <1>t, <2>1, <2>3, <3>2 DEF TableInv, ExitOK
    <2>5. delivered' = [delivered EXCEPT ![c] = died[c]]
      BY <2>1, <2>4
    <2>6. ExitCodeIntact'
      BY <1>8, <1>t, <2>4, <2>5 DEF SysWaitpidReaps, IInv, ExitCodeIntact
    <2>7. TypeOK'
      BY <1>8, <1>t, <2>2, <2>4, <2>5 DEF SysWaitpidReaps, TypeOK, TableInv
    <2>8. OneRunning'
      <3>1. \A u \in Slots : /\ table'[u].state = "Running" <=> table[u].state = "Running"
                             /\ table'[u].state # "None" <=> table[u].state # "None"
        BY <2>1, <2>2
      <3> QED BY <1>8, <1>t, <2>2, <3>1 DEF SysWaitpidReaps, OneRunning, Holds
    <2>9. TableInv(table, next_pid, queues, died)'
      BY <1>8, <2>2 DEF SysWaitpidReaps, TableInv, Unique, WaitOK, ReaperOK,
                        AwakeOK, ExitOK, Live
    <2> QED BY <2>6, <2>7, <2>8, <2>9 DEF IInv
  <1>9. ASSUME NEW s \in Slots, NEW c \in WaitTargets, SysWaitpidBlocks(s, c) PROVE IInv'
    <2> DEFINE rt == [op |-> "waitpid", arg |-> c]
    <2>1. /\ table[s].state = "Running" /\ table[s].pid = cur
          /\ table[s].retry = NoRetry \/ table[s].retry = rt
      BY <1>9, IssuesFacts DEF SysWaitpidBlocks
    <2>2. PICK x \in Slots : IsSlotOf(table, x, c) /\ table[x].state # "Dead"
      BY <1>9 DEF SysWaitpidBlocks
    <2>3. table[x].pid = c /\ table[x].state # "None"
      BY <2>2 DEF IsSlotOf, Holds
    <2>4. c \in 1 .. next_pid - 1
      BY <1>t, <2>3 DEF TableInv, Unique
    <2>5. c \in WaitTargets \cup {0} /\ c < next_pid /\ rt \in Retries
      BY <1>t, <2>4 DEF Retries
    <2>6. \A u \in Slots : table[u].state = "Dead"
             => table[s].retry # [op |-> "waitpid", arg |-> table[u].pid]
      <3> SUFFICES ASSUME NEW u \in Slots, table[u].state = "Dead",
                          table[s].retry = [op |-> "waitpid", arg |-> table[u].pid]
                   PROVE  FALSE
        OBVIOUS
      <3>1. table[s].retry.op = "waitpid" /\ table[s].retry.arg = table[u].pid
        OBVIOUS
      <3>2. table[u].pid = c
        BY <2>1, <3>1 DEF NoRetry
      <3>3. u = x
        BY <1>t, <2>3, <3>2 DEF TableInv, Unique
      <3> QED BY <2>2, <3>3
    <2>7. Waiting(table, s, c) = Sleeps(table, s, c, rt)
      BY DEF Waiting, Sleeps
    <2> HIDE DEF rt
    <2>s. MaySleep(table, s, c, rt, queues)
      BY <2>6 DEF MaySleep, rt
    <2>8. /\ TableInv(Waiting(table, s, c), next_pid, queues, died)
          /\ Asleep(table, Waiting(table, s, c), s)
      BY <1>t, <2>1, <2>5, <2>7, <2>s, SleepStep
    <2>9. OnlyCur(Waiting(table, s, c))
      BY <1>t, <2>8 DEF OnlyCur, Holds, Asleep
    <2> QED BY <1>0, <1>9, <2>8, <2>9 DEF SysWaitpidBlocks
  <1>10. ASSUME NEW s \in Slots, NEW c \in WaitTargets, SysWaitpidFails(s, c) PROVE IInv'
    <2>1. /\ table[s].state = "Running"
          /\ table[s].retry = NoRetry \/ table[s].retry = [op |-> "waitpid", arg |-> c]
      BY <1>10, IssuesFacts DEF SysWaitpidFails
    <2>2. \A u \in Slots : table[u].pid = c => table[u].state = "None"
      BY <1>10 DEF SysWaitpidFails, Known, Holds
    <2>3. table[s].retry.op = "waitpid" =>
             \A u \in Slots : table[u].pid = table[s].retry.arg
                                => table[u].state \notin Alive \cup {"Dead"}
      BY <2>1, <2>2 DEF NoRetry, Alive
    <2>4. /\ TableInv(table', next_pid, queues, died)
          /\ \A u \in Slots : /\ table'[u].pid = table[u].pid
                              /\ table'[u].state = table[u].state
      BY <1>10, <1>t, <2>1, <2>3, ReturnedStep DEF SysWaitpidFails
    <2>5. OneRunning'
      BY <1>10, <1>t, <2>4 DEF SysWaitpidFails, OneRunning, Holds
    <2> QED BY <1>10, <1>t, <2>4, <2>5, Combine DEF SysWaitpidFails
  <1>11. ASSUME NEW s \in Slots, PageFaultKills(s) PROVE IInv'
    <2>1. table[s].retry = NoRetry /\ Issues(s, "fault", 0)
      <3>1. Issues(s, "fault", 0)
        BY <1>11 DEF PageFaultKills
      <3>2. table[s].retry # [op |-> "fault", arg |-> 0]
        BY <1>t DEF Process, Retries, NoRetry
      <3> QED BY <3>1, <3>2 DEF Issues
    <2> QED BY <1>5, <1>11, <2>1 DEF PageFaultKills, Codes
  <1>12. ASSUME NEW s \in Slots, HaltingException(s) \/ SysShutdown(s) PROVE IInv'
    <2>1. TableInv(table', next_pid', queues', died') /\ OneRunning'
      BY <1>12, <1>t DEF HaltingException, SysShutdown, OneRunning
    <2> QED BY <1>12, <1>t, <2>1, Combine DEF HaltingException, SysShutdown
  <1>13. CASE TimerIrq
    BY <1>0, <1>13, <1>t DEF TimerIrq
  <1>14. ASSUME NEW to, NEW m \in Message, Deliver(to, m),
                UNCHANGED << next_pid, cur, machine, died, delivered >>
         PROVE  IInv'
    <2>1. /\ TableInv(table', next_pid, queues', died) /\ OneRunning'
          /\ queues' \in [QueuePids -> Seq(Message)]
      BY <1>14, DeliverStep
    <2> QED BY <1>14, <1>t, <2>1, Combine
  <1>15. ASSUME NEW args \in Payloads, KeyboardIrq(args) \/ MouseIrq(args) PROVE IInv'
    <2>1. cur \in Senders
      BY <1>t, KernelAssumption
    <2>2. MSG_HARDWARE_INTERRUPT \in MsgTypes /\ MSG_MOUSE_PACKET \in MsgTypes
      BY KernelAssumption
    <2> QED BY <1>14, <1>15, <2>1, <2>2 DEF KeyboardIrq, MouseIrq, Message
  <1>16. CASE UNCHANGED vars
    <2>1. TableInv(table', next_pid', queues', died') /\ OneRunning'
      BY <1>16, <1>t DEF vars, OneRunning
    <2> QED BY <1>16, <1>t, <2>1, Combine DEF vars
  <1> QED BY <1>1, <1>2, <1>3, <1>4, <1>6, <1>7, <1>8, <1>9, <1>10, <1>11, <1>12,
             <1>13, <1>15, <1>16 DEF Next, HaltLoop

(* The inductive invariant holds in every reachable state. *)
LEMMA Invariance == Spec => []IInv
  BY InitIInv, StepIInv, PTL DEF Spec

-----------------------------------------------------------------------------

(* Every reachable state of the process table, the queues and the          *)
(* bookkeeping has its type, for every number of slots, queues and pids.   *)
THEOREM KernelTypeOK == Spec => []TypeOK
  <1>1. IInv => TypeOK
    BY DEF IInv
  <1> QED BY <1>1, Invariance, PTL

(* CURRENT_PID names exactly the Running process after every handler: the  *)
(* lookup schedule(), exit_process() and the system calls start from is    *)
(* never stale.                                                            *)
THEOREM KernelOneRunning == Spec => []OneRunning
  <1>1. IInv => OneRunning
    BY DEF IInv
  <1> QED BY <1>1, Invariance, PTL

(* A pid names one slot for ever, however slots are reused by load_elf.    *)
THEOREM KernelPidsUnique == Spec => []PidsUnique
  <1>1. IInv => PidsUnique
    BY DEF IInv, TableInv, Unique, PidsUnique, Holds
  <1> QED BY <1>1, Invariance, PTL

(* No interleaving of send, interrupts, recv and the scheduler leaves a    *)
(* process asleep in recv with a message in its queue.                     *)
THEOREM KernelNoLostWakeup == Spec => []NoLostWakeup
  <1>1. IInv => NoLostWakeup
    BY DEF IInv, TableInv, AwakeOK, NoLostWakeup, HasMessage
  <1> QED BY <1>1, Invariance, PTL

(* A slot that exit_process left Dead always has a process about to reap   *)
(* it with waitpid.                                                        *)
THEOREM KernelZombieHasReaper == Spec => []ZombieHasReaper
  <1>1. IInv => ZombieHasReaper
    BY DEF IInv, TableInv, ReaperOK, ZombieHasReaper
  <1> QED BY <1>1, Invariance, PTL

(* The waiting_for_pid that unblock leaves behind never makes exit_process *)
(* take a receiver for a waiting parent.                                   *)
THEOREM KernelStaleWaitHarmless == Spec => []StaleWaitHarmless
  <1>1. IInv => StaleWaitHarmless
    BY DEF IInv, TableInv, WaitOK, StaleWaitHarmless, Alive
  <1> QED BY <1>1, Invariance, PTL

(* Exited processes never run again, and waitpid returns the code the      *)
(* child exited with.                                                      *)
THEOREM KernelExitCodes == Spec => [](DeadStaysDead /\ ExitCodeIntact)
  <1>1. IInv => DeadStaysDead /\ ExitCodeIntact
    BY DEF IInv, TableInv, ExitOK, DeadStaysDead
  <1> QED BY <1>1, Invariance, PTL
=============================================================================
