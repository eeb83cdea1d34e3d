----------------------------- MODULE SchedProof -----------------------------
(***************************************************************************)
(* Theorems about module Sched, for every number of tasks, every set of     *)
(* system calls and every point at which interrupts may arrive.            *)
(***************************************************************************)
EXTENDS Sched, NumberLemmas, FiniteSetTheorems, TLAPS

(***************************************************************************)
(* Type correctness.                                                       *)
(***************************************************************************)
Spot == [at : LoopPoints, nxt : Ptr, ok : BOOLEAN]

Cpu == [at : Points, on : Ptr, nxt : Ptr]

Ret == [call : Syscalls \cup {"none"}, val : Int]

(* The program points built by At and Loop have their type.                  *)
LEMMA CpuType ==
  /\ \A a \in Points : At(a) \in Cpu
  /\ \A a \in LoopPoints, x \in Ptr, n \in Ptr : Loop(a, x, n) \in Cpu
  /\ NoSpot \in Spot
  /\ NoRet \in Ret
  /\ \A c \in Syscalls, v \in Int : Returned(c, v) \in Ret
BY DEF Cpu, Spot, Ret, At, Loop, NoSpot, NoRet, Returned, Points, LoopPoints, Ptr,
       Null, Syscalls

(* What a tick saves, and what is left of the frames on a stack that is      *)
(* written on, has its type.                                               *)
LEMMA SpotType ==
  /\ TypeOK => \A st : SaveSpot(st) \in [Task -> Spot]
  /\ \A s \in [Task -> Spot] : \A x, f : Spoiled(x, f, s) \in [Task -> Spot]
<1>1. ASSUME TypeOK, NEW st PROVE SaveSpot(st) \in [Task -> Spot]
  <2>1. spot \in [Task -> Spot] /\ cpu.nxt \in Ptr
    BY <1>1 DEF TypeOK, Spot
  <2>2. InLoop => Interrupted \in Spot
    BY <2>1 DEF Interrupted, InLoop, LoopPoints, Spot
  <2>3. (IF InLoop THEN Interrupted ELSE NoSpot) \in Spot
    BY <2>2, CpuType
  <2>. DEFINE v == IF InLoop THEN Interrupted ELSE NoSpot
  <2>. HIDE DEF v
  <2>4. [spot EXCEPT ![current_task] = v] \in [Task -> Spot]
    BY <2>1, <2>3 DEF v
  <2> QED BY <2>1, <2>4 DEF SaveSpot, v
<1>2. ASSUME NEW s \in [Task -> Spot], NEW x, NEW f
      PROVE  Spoiled(x, f, s) \in [Task -> Spot]
  <2>1. ASSUME NEW t \in Task PROVE [s[t] EXCEPT !.ok = FALSE] \in Spot
    BY <2>1 DEF Spot
  <2> QED BY <2>1 DEF Spoiled
<1> QED BY <1>1, <1>2

(* Writing on a stack does not change where the frames on it resume.         *)
LEMMA SpoiledAt ==
  ASSUME NEW s \in [Task -> Spot], NEW x, NEW f, NEW t \in Task
  PROVE  Spoiled(x, f, s)[t].at = s[t].at
<1>1. s[t] \in Spot
  OBVIOUS
<1>2. [s[t] EXCEPT !.ok = FALSE].at = s[t].at
  BY <1>1 DEF Spot
<1> QED BY <1>2 DEF Spoiled

(* restore_context leads to a program point.                                *)
LEMMA RestoreType ==
  ASSUME NEW n \in Task, NEW f \in [Task -> Ptr], NEW s \in [Task -> Spot],
         restore_context(n, f, s)
  PROVE  /\ cpu' \in Cpu
         /\ spot' \in [Task -> Spot]
         /\ \A t \in Task : spot'[t].at = s[t].at
<1>1. spot' \in [Task -> Spot]
  BY SpotType DEF restore_context
<1>2. \A t \in Task : spot'[t].at = s[t].at
  BY SpoiledAt DEF restore_context
<1>3. cpu' \in Cpu
  <2>1. CASE cpu' = At("user") \/ cpu' = At("lost")
    BY <2>1, CpuType DEF Points
  <2>2. CASE cpu' = Loop(s[n].at, f[n], s[n].nxt)
    <3>1. s[n] \in Spot /\ f[n] \in Ptr
      OBVIOUS
    <3>2. s[n].at \in LoopPoints /\ s[n].nxt \in Ptr
      BY <3>1 DEF Spot
    <3> QED BY <2>2, <3>1, <3>2, CpuType
  <2> QED BY <2>1, <2>2 DEF restore_context
<1> QED BY <1>1, <1>2, <1>3

(* A new task leaves the task fields typed.                                  *)
LEMMA AddTaskType ==
  ASSUME TypeOK, NEW t \in Task, NEW p \in Ptr, AddTask(t, p)
  PROVE  /\ task_list' \in Ptr
         /\ next_pid' \in Nat
         /\ next' \in [Task -> Ptr]
         /\ parent' \in [Task -> Ptr]
         /\ pid' \in [Task -> Nat]
         /\ exit_code' \in [Task -> Int]
         /\ state' \in [Task -> States]
         /\ wakeup_tick' \in [Task -> 0..(TickMod - 1)]
         /\ frame' \in [Task -> Ptr]
<1>1. next[task_list] \in Ptr \/ task_list = Null
  BY DEF TypeOK, Ptr
<1>2. 0 \in 0..(TickMod - 1) /\ Null \in Ptr /\ t \in Ptr
  BY SchedAssumption DEF Ptr, Null
<1>3. task_list' \in Ptr /\ next' \in [Task -> Ptr]
  <2>1. CASE task_list = Null
    <3>1. task_list' = t /\ next' = [next EXCEPT ![t] = t]
      BY <2>1 DEF AddTask
    <3> QED BY <1>2, <3>1 DEF TypeOK
  <2>2. CASE task_list # Null
    <3>1. /\ task_list' = task_list
          /\ next' = [next EXCEPT ![t] = next[task_list], ![task_list] = t]
      BY <2>2 DEF AddTask
    <3>2. task_list \in Ptr /\ next \in [Task -> Ptr]
      BY DEF TypeOK
    <3>3. next[task_list] \in Ptr
      BY <1>1, <2>2
    <3> QED BY <1>2, <3>1, <3>2, <3>3
  <2> QED BY <2>1, <2>2
<1>4. /\ next_pid' \in Nat
      /\ parent' \in [Task -> Ptr]
      /\ pid' \in [Task -> Nat]
      /\ exit_code' \in [Task -> Int]
  BY DEF AddTask, TypeOK
<1>5. /\ state' \in [Task -> States]
      /\ wakeup_tick' \in [Task -> 0..(TickMod - 1)]
      /\ frame' \in [Task -> Ptr]
  BY <1>2 DEF AddTask, TypeOK, States
<1> QED BY <1>3, <1>4, <1>5

(* The fields that sched_wait changes stay typed.                            *)
LEMMA ReapType ==
  ASSUME TypeOK, NEW t \in Task, Reap(t)
  PROVE  /\ task_list' \in Ptr
         /\ next' \in [Task -> Ptr]
         /\ parent' \in [Task -> Ptr]
         /\ pid' \in [Task -> Nat]
         /\ exit_code' \in [Task -> Int]
         /\ state' \in [Task -> States]
         /\ wakeup_tick' \in [Task -> 0..(TickMod - 1)]
         /\ frame' \in [Task -> Ptr]
         /\ spot' \in [Task -> Spot]
<1>1. 0 \in 0..(TickMod - 1) /\ Null \in Ptr /\ next[t] \in Ptr
  BY SchedAssumption DEF Ptr, Null, TypeOK
<1>2. spot \in [Task -> Spot]
  BY DEF TypeOK, Spot
<1>3. spot' \in [Task -> Spot]
  <2>1. Spoiled(t, frame, spot) \in [Task -> Spot]
    BY <1>2, SpotType
  <2>. DEFINE S == Spoiled(t, frame, spot)
  <2>. HIDE DEF S
  <2>2. [S EXCEPT ![t] = NoSpot] \in [Task -> Spot]
    BY <2>1, CpuType DEF S
  <2> QED BY <2>2 DEF Reap, S
<1>4. task_list' \in Ptr /\ next' \in [Task -> Ptr]
  BY <1>1 DEF Reap, Unlink, TypeOK
<1>5. parent' \in [Task -> Ptr] /\ pid' \in [Task -> Nat] /\ exit_code' \in [Task -> Int]
  BY <1>1 DEF Reap, TypeOK
<1>6. /\ state' \in [Task -> States]
      /\ wakeup_tick' \in [Task -> 0..(TickMod - 1)]
      /\ frame' \in [Task -> Ptr]
  BY <1>1 DEF Reap, TypeOK, States
<1> QED BY <1>3, <1>4, <1>5, <1>6

(* Back in user code, after system call c with result v.                     *)
LEMMA ReturnType ==
  ASSUME NEW c \in Syscalls, NEW v \in Int, ReturnToUser(c, v)
  PROVE  cpu' \in Cpu /\ ret' \in Ret
BY CpuType DEF ReturnToUser, Points

(* The part of yield() that a blocking call executes.                        *)
LEMMA EnterYieldType ==
  ASSUME TypeOK, current_task \in Task, NEW s \in States, EnterYield(s)
  PROVE  /\ state' \in [Task -> States]
         /\ frame' \in [Task -> Ptr]
         /\ spot' \in [Task -> Spot]
         /\ cpu' \in Cpu
         /\ ret' \in Ret
<1>1. Null \in Ptr /\ current_task \in Ptr /\ "pick" \in LoopPoints
  BY DEF Ptr, LoopPoints
<1>2. spot' \in [Task -> Spot]
  BY CpuType DEF EnterYield, TypeOK, Spot
<1> QED BY <1>1, <1>2, CpuType DEF EnterYield, TypeOK

(* The wake-up scan and the saving of the interrupted context.               *)
LEMMA TickType ==
  ASSUME TypeOK, NEW now
  PROVE  /\ Woken(now) \in [Task -> States]
         /\ \A st : SaveFrame(st) \in [Task -> Ptr]
<1>1. Woken(now) \in [Task -> States]
  BY DEF Woken, TypeOK, States
<1>2. cpu.on \in Ptr
  BY DEF TypeOK
<1> QED BY <1>1, <1>2 DEF SaveFrame, TypeOK

(* The state in which sched_init leaves the kernel is typed.                *)
LEMMA TypeInit == Init => TypeOK
<1>. SUFFICES ASSUME Init PROVE TypeOK
  OBVIOUS
<1>1. 0 \in 0..(TickMod - 1) /\ Null \in Ptr
  BY SchedAssumption DEF Ptr, Null
<1>2. "init" \in Points /\ "free" \in States
  BY DEF Points, States
<1>3. spot \in [Task -> Spot] /\ cpu \in Cpu /\ ret \in Ret
  BY <1>2, CpuType DEF Init
<1>4. keys \in Seq(Keys)
  BY DEF Init
<1> QED BY <1>1, <1>2, <1>3, <1>4 DEF Init, TypeOK, Spot, Cpu, Ret

(* Every handler, system call and step of yield() keeps the types.          *)
LEMMA TypeStep == TypeOK /\ Active /\ [Next]_vars => TypeOK'
<1>. SUFFICES ASSUME TypeOK, Active, [Next]_vars PROVE TypeOK'
  OBVIOUS
<1>0. CASE UNCHANGED vars
  BY <1>0 DEF vars, taskVars, TypeOK
<1>a. Null \in Ptr /\ current_task \in Ptr /\ cpu.on \in Ptr /\ cpu.nxt \in Ptr
  BY DEF TypeOK, Ptr
<1>b. spot \in [Task -> Spot] /\ cpu \in Cpu /\ ret \in Ret
  BY DEF TypeOK, Spot, Cpu, Ret
<1>d. \A st : SaveSpot(st) \in [Task -> Spot]
  BY SpotType
<1>1. CASE task_create_elf
  <2>1. cpu' \in Cpu
    BY <1>1, CpuType DEF task_create_elf, Points
  <2>2. PICK t \in Task : AddTask(t, Null)
    BY <1>1 DEF task_create_elf
  <2> QED BY <1>1, <1>a, <2>1, <2>2, AddTaskType DEF task_create_elf, TypeOK, Cpu
<1>2. CASE BootWithoutTask
  <2>1. cpu' \in Cpu
    BY <1>2, CpuType DEF BootWithoutTask, Points
  <2> QED BY <1>2, <2>1 DEF BootWithoutTask, TypeOK, Cpu, taskVars
<1>3. CASE sched_tick
  <2>1. tick' \in 0..(TickMod - 1)
    BY <1>3, SchedAssumption DEF sched_tick, TypeOK
  <2>2. state' \in [Task -> States] /\ frame' \in [Task -> Ptr]
    BY <1>3, TickType DEF sched_tick
  <2>4. ret' \in Ret
    BY <1>3, CpuType DEF sched_tick
  <2>5. cpu' \in Cpu /\ current_task' \in Ptr /\ cr3' \in Ptr /\ spot' \in [Task -> Spot]
    <3>1. CASE /\ cpu' = Resumed /\ UNCHANGED <<current_task, cr3>>
               /\ spot' = SaveSpot(state')
      <4>1. Resumed \in Cpu
        BY <1>b DEF Resumed, Cpu, Points, LoopPoints
      <4> QED BY <3>1, <1>d, <4>1 DEF TypeOK
    <3>2. ASSUME NEW n \in Task, current_task' = n, cr3' = n,
                 restore_context(n, frame', SaveSpot(state'))
          PROVE  /\ cpu' \in Cpu /\ current_task' \in Ptr /\ cr3' \in Ptr
                 /\ spot' \in [Task -> Spot]
      BY <3>2, <2>2, <1>d, RestoreType DEF Ptr
    <3> QED BY <1>3, <3>1, <3>2 DEF sched_tick
  <2> QED BY <1>3, <2>1, <2>2, <2>4, <2>5
          DEF sched_tick, TypeOK, taskVars, Spot, Cpu, Ret
<1>4. CASE keyboard_handler
  <2>1. keys' \in Seq(Keys)
    BY <1>4 DEF keyboard_handler, TypeOK
  <2>2. cpu' \in Cpu /\ ret' \in Ret
    BY <1>4, <1>b, CpuType DEF keyboard_handler, Resumed, Cpu, Points, LoopPoints
  <2> QED BY <1>4, <2>1, <2>2 DEF keyboard_handler, TypeOK, taskVars, Spot, Cpu, Ret
<1>5. CASE YieldPick
  <2>1. cpu' \in Cpu
    <3>1. "set" \in LoopPoints /\ "poll" \in LoopPoints /\ \A n \in Task : n \in Ptr
      BY DEF LoopPoints, Ptr
    <3> QED BY <1>5, <1>a, <3>1, CpuType DEF YieldPick
  <2> QED BY <1>5, <2>1 DEF YieldPick, loopFrame, TypeOK, taskVars, Cpu
<1>6. CASE YieldSet
  <2>1. "go" \in LoopPoints /\ "wild" \in Points
    BY DEF LoopPoints, Points
  <2>2. cpu' \in Cpu
    BY <1>6, <1>a, <2>1, CpuType DEF YieldSet
  <2> QED BY <1>6, <1>a, <2>2 DEF YieldSet, loopFrame, TypeOK, taskVars, Cpu
<1>7. CASE YieldGo
  <2>1. current_task \in Task
    BY <1>7 DEF YieldGo, Active, LoopPoints, TypeOK, Ptr
  <2>2. cpu' \in Cpu /\ spot' \in [Task -> Spot]
    BY <1>7, <1>b, <2>1, RestoreType DEF YieldGo, TypeOK
  <2> QED BY <1>7, <1>a, <2>2 DEF YieldGo, loopFrame, TypeOK, taskVars, Cpu, Spot
<1>8. CASE YieldPoll
  <2>1. keys' \in Seq(Keys)
    BY <1>8 DEF YieldPoll, TypeOK
  <2>2. cpu' \in Cpu
    <3>1. "panic" \in Points /\ "hlt" \in LoopPoints
      BY DEF Points, LoopPoints
    <3> QED BY <1>8, <1>a, <3>1, CpuType DEF YieldPoll
  <2> QED BY <1>8, <2>1, <2>2 DEF YieldPoll, loopFrame, TypeOK, taskVars, Cpu
<1>9. CASE MainPoll
  <2>1. keys' \in Seq(Keys)
    BY <1>9 DEF MainPoll, TypeOK
  <2>2. cpu' \in Cpu
    BY <1>9, <1>b, CpuType DEF MainPoll, Points
  <2> QED BY <1>9, <2>1, <2>2 DEF MainPoll, loopFrame, TypeOK, taskVars, Cpu
<1>10. CASE PanicHalt
  BY <1>10 DEF PanicHalt, vars, taskVars, TypeOK
<1>t. ASSUME cpu.at = "user" PROVE current_task \in Task
  BY <1>t DEF Active, TypeOK, Ptr
<1>11. CASE sched_exit_with
  <2>1. current_task \in Task /\ "zombie" \in States
    BY <1>11, <1>t DEF sched_exit_with, Call, States
  <2>2. exit_code' \in [Task -> Int]
    BY <1>11, SchedAssumption DEF sched_exit_with, TypeOK
  <2> QED BY <1>11, <2>1, <2>2, EnterYieldType
          DEF sched_exit_with, TypeOK, Spot, Cpu, Ret
<1>12. CASE sched_sleep
  <2>1. current_task \in Task /\ "sleeping" \in States
    BY <1>12, <1>t DEF sched_sleep, Call, States
  <2>2. wakeup_tick' \in [Task -> 0..(TickMod - 1)]
    <3>1. PICK ticks \in SleepTicks :
            wakeup_tick' = [wakeup_tick EXCEPT ![current_task] = Deadline(ticks)]
      BY <1>12 DEF sched_sleep
    <3>2. Deadline(ticks) \in 0..(TickMod - 1)
      BY SchedAssumption DEF Deadline, TypeOK
    <3> QED BY <3>1, <3>2 DEF TypeOK
  <2> QED BY <1>12, <2>1, <2>2, EnterYieldType
          DEF sched_sleep, TypeOK, Spot, Cpu, Ret, taskVars
<1>13. CASE task_create_fork
  <2>1. PICK t \in Task : AddTask(t, current_task)
    BY <1>13 DEF task_create_fork
  <2>2. cpu' \in Cpu /\ ret' \in Ret
    BY <1>13, ReturnType DEF task_create_fork, Syscalls
  <2> QED BY <1>13, <1>a, <2>1, <2>2, AddTaskType
          DEF task_create_fork, TypeOK, Spot, Cpu, Ret
<1>14. CASE ForkFails
  <2>1. cpu' \in Cpu /\ ret' \in Ret
    BY <1>14, ReturnType DEF ForkFails, Syscalls
  <2> QED BY <1>14, <2>1 DEF ForkFails, TypeOK, Spot, Cpu, Ret, taskVars
<1>15. CASE sched_wait
  <2>1. PICK t \in Live : Reap(t) /\ ReturnToUser("wait", exit_code[t])
    BY <1>15 DEF sched_wait
  <2>2. t \in Task /\ exit_code[t] \in Int
    BY <2>1 DEF Live, TypeOK
  <2>3. cpu' \in Cpu /\ ret' \in Ret
    BY <2>1, <2>2, ReturnType DEF Syscalls
  <2> QED BY <1>15, <2>1, <2>2, <2>3, ReapType DEF sched_wait, TypeOK, Spot, Cpu, Ret
<1>16. CASE WaitFindsNone
  <2>1. cpu' \in Cpu /\ ret' \in Ret
    BY <1>16, ReturnType DEF WaitFindsNone, Syscalls
  <2> QED BY <1>16, <2>1 DEF WaitFindsNone, TypeOK, Spot, Cpu, Ret, taskVars
<1>17. CASE sched_exec
  <2>1. cr3' \in Ptr
    BY <1>17, <1>a DEF sched_exec, TypeOK
  <2>2. CASE cpu' = At("panic") /\ ret' = NoRet
    BY <1>17, <2>1, <2>2, CpuType DEF sched_exec, TypeOK, Cpu, Ret, taskVars, Points
  <2>3. CASE \E v \in {0, -1} : ReturnToUser("exec", v)
    <3>1. cpu' \in Cpu /\ ret' \in Ret
      BY <2>3, ReturnType DEF Syscalls
    <3> QED BY <1>17, <2>1, <3>1 DEF sched_exec, TypeOK, Cpu, Ret, taskVars
  <2> QED BY <1>17, <2>2, <2>3 DEF sched_exec
<1>18. CASE handle_read
  <2>2. CASE keys # <<>>
    <3>1. keys' \in Seq(Keys)
      <4>1. keys' = Tail(keys)
        BY <1>18, <2>2 DEF handle_read
      <4> QED BY <2>2, <4>1 DEF TypeOK
    <3>2. cpu' \in Cpu /\ ret' \in Ret
      BY <1>18, <2>2, ReturnType DEF handle_read, Syscalls
    <3> QED BY <1>18, <3>1, <3>2 DEF handle_read, TypeOK, Spot, Cpu, Ret, taskVars
  <2>3. CASE keys = <<>>
    <3>1. cpu' \in Cpu /\ ret' \in Ret
      BY <1>18, <2>3, CpuType DEF handle_read, Points
    <3> QED BY <1>18, <2>3, <3>1 DEF handle_read, TypeOK, Spot, Cpu, Ret, taskVars
  <2> QED BY <2>2, <2>3
<1>19. CASE page_fault_handler
  <2>1. cpu' \in Cpu /\ ret' \in Ret
    BY <1>19, CpuType DEF page_fault_handler, Points
  <2> QED BY <1>19, <2>1 DEF page_fault_handler, TypeOK, Spot, Cpu, Ret, taskVars
<1> QED
  BY <1>0, <1>1, <1>2, <1>3, <1>4, <1>5, <1>6, <1>7, <1>8, <1>9, <1>10, <1>11, <1>12,
     <1>13, <1>14, <1>15, <1>16, <1>17, <1>18, <1>19 DEF Next

-----------------------------------------------------------------------------
(***************************************************************************)
(* The circular list.                                                      *)
(***************************************************************************)

(* A task linked in behind the head extends the ring.                        *)
LEMMA RingInsert ==
  ASSUME NEW S, NEW n \in Nat, n > 0, NEW f \in [1..n -> Task], NEW head,
         NEW nx \in [Task -> Ptr], IsRing(f, n, S, head, nx),
         NEW t \in Task, t \notin S, S \subseteq Task
  PROVE  \E g \in [1..(n + 1) -> Task] :
           IsRing(g, n + 1, S \cup {t}, head,
                  [nx EXCEPT ![t] = nx[head], ![head] = t])
<1>. DEFINE g == [i \in 1..(n + 1) |-> IF i = 1 THEN f[1] ELSE IF i = 2 THEN t ELSE f[i - 1]]
            ny == [nx EXCEPT ![t] = nx[head], ![head] = t]
<1>1. g \in [1..(n + 1) -> Task]
  OBVIOUS
<1>2. head = f[1] /\ head \in S /\ head \in Task /\ head # t
  BY DEF IsRing
<1>3. \A i, j \in 1..(n + 1) : g[i] = g[j] => i = j
  <2>. SUFFICES ASSUME NEW i \in 1..(n + 1), NEW j \in 1..(n + 1), g[i] = g[j]
                PROVE  i = j
    OBVIOUS
  <2>1. \A k \in 1..n : f[k] # t
    BY DEF IsRing
  <2>2. \A k, l \in 1..n : f[k] = f[l] => k = l
    BY DEF IsRing
  <2>3. CASE i = 2 \/ j = 2
    BY <2>1, <2>3
  <2>4. CASE i # 2 /\ j # 2
    <3>. DEFINE di == IF i = 1 THEN 1 ELSE i - 1
                dj == IF j = 1 THEN 1 ELSE j - 1
    <3>1. di \in 1..n /\ dj \in 1..n /\ g[i] = f[di] /\ g[j] = f[dj]
      BY <2>4
    <3>2. di = dj
      BY <3>1, <2>2
    <3> QED BY <3>2, <2>4
  <2> QED BY <2>3, <2>4
<1>4. \A i \in 1..(n + 1) : g[i] \in S \cup {t}
  BY DEF IsRing
<1>5. \A u \in S \cup {t} : \E i \in 1..(n + 1) : g[i] = u
  <2>. SUFFICES ASSUME NEW u \in S \cup {t} PROVE \E i \in 1..(n + 1) : g[i] = u
    OBVIOUS
  <2>1. CASE u = t
    <3>1. 2 \in 1..(n + 1) /\ g[2] = t
      OBVIOUS
    <3> QED BY <2>1, <3>1
  <2>2. CASE u \in S
    <3>1. PICK i \in 1..n : f[i] = u
      BY <2>2 DEF IsRing
    <3>2. CASE i = 1
      <4>1. 1 \in 1..(n + 1) /\ g[1] = u
        BY <3>1, <3>2
      <4> QED BY <4>1
    <3>3. CASE i # 1
      <4>1. i + 1 \in 1..(n + 1) /\ g[i + 1] = u
        BY <3>1, <3>3
      <4> QED BY <4>1
    <3> QED BY <3>2, <3>3
  <2> QED BY <2>1, <2>2
<1>6. g[1] = head
  BY <1>2
<1>7. \A i \in 1..(n + 1) : ny[g[i]] = g[IF i = n + 1 THEN 1 ELSE i + 1]
  <2>. SUFFICES ASSUME NEW i \in 1..(n + 1)
                PROVE  ny[g[i]] = g[IF i = n + 1 THEN 1 ELSE i + 1]
    OBVIOUS
  <2>0. \A k \in 1..n : nx[f[k]] = f[IF k = n THEN 1 ELSE k + 1] /\ f[k] \in Task /\ f[k] # t
    BY DEF IsRing
  <2>1. CASE i = 1
    <3>1. ny[head] = t
      BY <1>2
    <3> QED BY <1>2, <2>1, <3>1
  <2>2. CASE i = 2
    <3>1. ny[t] = nx[head]
      BY <1>2
    <3>2. nx[head] = f[IF 1 = n THEN 1 ELSE 2]
      BY <1>2, <2>0
    <3> QED BY <2>2, <3>1, <3>2
  <2>3. CASE i # 1 /\ i # 2
    <3>1. i - 1 \in 1..n /\ g[i] = f[i - 1] /\ i - 1 # 1
      BY <2>3
    <3>2. f[i - 1] # head
      BY <1>2, <3>1 DEF IsRing
    <3>3. ny[f[i - 1]] = nx[f[i - 1]]
      BY <2>0, <3>1, <3>2
    <3>4. nx[f[i - 1]] = f[IF i - 1 = n THEN 1 ELSE i]
      BY <2>0, <3>1
    <3> QED BY <2>3, <3>1, <3>3, <3>4
  <2> QED BY <2>1, <2>2, <2>3
<1> QED BY <1>1, <1>3, <1>4, <1>5, <1>6, <1>7 DEF IsRing

(* A task unlinked from a ring of several leaves a ring of the others, whose *)
(* head moves on when it was the head.                                      *)
LEMMA RingRemove ==
  ASSUME NEW S, NEW n \in Nat, n > 1, NEW f \in [1..n -> Task], NEW head,
         NEW nx \in [Task -> Ptr], IsRing(f, n, S, head, nx), NEW t \in S,
         NEW q \in S, nx[q] = t, S \subseteq Task
  PROVE  \E g \in [1..(n - 1) -> Task] :
           IsRing(g, n - 1, S \ {t}, IF head = t THEN nx[t] ELSE head,
                  [[nx EXCEPT ![q] = nx[t]] EXCEPT ![t] = Null])
<1>1. PICK k \in 1..n : f[k] = t
  BY DEF IsRing
<1>. DEFINE p == IF k = 1 THEN n ELSE k - 1
            g == [i \in 1..(n - 1) |-> IF i < k THEN f[i] ELSE f[i + 1]]
            ny == [[nx EXCEPT ![q] = nx[t]] EXCEPT ![t] = Null]
            d(i) == IF i < k THEN i ELSE i + 1
<1>2. q = f[p] /\ p \in 1..n /\ p # k
  <2>1. PICK i \in 1..n : f[i] = q
    BY DEF IsRing
  <2>2. f[IF i = n THEN 1 ELSE i + 1] = f[k]
    BY <1>1, <2>1 DEF IsRing
  <2>3. (IF i = n THEN 1 ELSE i + 1) \in 1..n
    OBVIOUS
  <2>4. (IF i = n THEN 1 ELSE i + 1) = k
    BY <2>2, <2>3 DEF IsRing
  <2>5. i = p /\ p # k
    BY <2>4
  <2> QED BY <2>1, <2>5
<1>3. q # t /\ q \in Task /\ t \in Task
  BY <1>1, <1>2 DEF IsRing
<1>4. g \in [1..(n - 1) -> Task]
  OBVIOUS
<1>5. \A i \in 1..(n - 1) : d(i) \in 1..n /\ d(i) # k /\ g[i] = f[d(i)]
  OBVIOUS
<1>6. \A i, j \in 1..(n - 1) : g[i] = g[j] => i = j
  <2>. SUFFICES ASSUME NEW i \in 1..(n - 1), NEW j \in 1..(n - 1), g[i] = g[j]
                PROVE  i = j
    OBVIOUS
  <2>1. d(i) = d(j)
    <3>. HIDE DEF d, g
    <3> QED BY <1>5 DEF IsRing
  <2> QED BY <2>1
<1>7. \A i \in 1..(n - 1) : g[i] \in S \ {t}
  <2>. HIDE DEF d, g
  <2> QED BY <1>1, <1>5 DEF IsRing
<1>8. \A u \in S \ {t} : \E i \in 1..(n - 1) : g[i] = u
  <2>. SUFFICES ASSUME NEW u \in S \ {t} PROVE \E i \in 1..(n - 1) : g[i] = u
    OBVIOUS
  <2>1. PICK l \in 1..n : f[l] = u
    BY DEF IsRing
  <2>2. l # k
    BY <1>1, <2>1
  <2>3. CASE l < k
    <3>1. l \in 1..(n - 1) /\ g[l] = u
      BY <2>1, <2>3
    <3> QED BY <3>1
  <2>4. CASE l > k
    <3>1. l - 1 \in 1..(n - 1) /\ g[l - 1] = u
      BY <2>1, <2>4
    <3> QED BY <3>1
  <2> QED BY <2>2, <2>3, <2>4
<1>0. \A i \in 1..n : nx[f[i]] = f[IF i = n THEN 1 ELSE i + 1]
  BY DEF IsRing
<1>9. g[1] = IF head = t THEN nx[t] ELSE head
  <2>1. head = f[1]
    BY DEF IsRing
  <2>2. CASE k = 1
    BY <1>0, <1>1, <2>1, <2>2
  <2>3. CASE k # 1
    <3>1. head # t
      BY <1>1, <2>1, <2>3 DEF IsRing
    <3> QED BY <2>1, <2>3, <3>1
  <2> QED BY <2>2, <2>3
<1>10. \A i \in 1..(n - 1) : ny[g[i]] = g[IF i = n - 1 THEN 1 ELSE i + 1]
  <2>. SUFFICES ASSUME NEW i \in 1..(n - 1)
                PROVE  ny[g[i]] = g[IF i = n - 1 THEN 1 ELSE i + 1]
    OBVIOUS
  <2>1. d(i) \in 1..n /\ d(i) # k /\ g[i] = f[d(i)]
    OBVIOUS
  <2>2. f[d(i)] \in Task /\ f[d(i)] # t
    <3>. HIDE DEF d
    <3> QED BY <1>1, <2>1 DEF IsRing
  <2>3. CASE d(i) = p
    <3>1. ny[q] = nx[t]
      BY <1>3
    <3>2. nx[t] = f[IF k = n THEN 1 ELSE k + 1]
      BY <1>0, <1>1
    <3>3. g[IF i = n - 1 THEN 1 ELSE i + 1] = f[IF k = n THEN 1 ELSE k + 1]
      BY <2>3
    <3> QED BY <1>2, <2>1, <2>3, <3>1, <3>2, <3>3
  <2>4. CASE d(i) # p
    <3>1. f[d(i)] # q
      <4>. HIDE DEF d, p
      <4> QED BY <1>2, <2>1, <2>4 DEF IsRing
    <3>2. ny[f[d(i)]] = nx[f[d(i)]]
      BY <1>3, <2>2, <3>1
    <3>3. nx[f[d(i)]] = f[IF d(i) = n THEN 1 ELSE d(i) + 1]
      BY <1>0, <2>1
    <3>4. g[IF i = n - 1 THEN 1 ELSE i + 1] = f[IF d(i) = n THEN 1 ELSE d(i) + 1]
      BY <2>4
    <3> QED BY <2>1, <3>2, <3>3, <3>4
  <2> QED BY <2>3, <2>4
<1> QED BY <1>4, <1>6, <1>7, <1>8, <1>9, <1>10 DEF IsRing

(* The live tasks are finitely many.                                        *)
LEMMA LiveFinite == IsFiniteSet(Live) /\ Cardinality(Live) \in Nat
<1>1. IsFiniteSet(Task)
  BY SchedAssumption, FS_Interval DEF Task
<1>2. IsFiniteSet(Live)
  BY <1>1, FS_Subset DEF Live
<1> QED BY <1>2, FS_CardinalityType

(* A new task joins the list.                                               *)
LEMMA AddTaskRing ==
  ASSUME TypeOK, RingIntegrity, NEW t \in Task \ Live, NEW p \in Ptr, AddTask(t, p)
  PROVE  RingIntegrity' /\ Live' = Live \cup {t}
<1>1. Live' = Live \cup {t}
  BY DEF AddTask, Live, TypeOK
<1>2. IsFiniteSet(Live) /\ Cardinality(Live) \in Nat
  BY LiveFinite
<1>3. Cardinality(Live \cup {t}) = Cardinality(Live) + 1
  BY <1>2, FS_AddElement
<1>4. CASE task_list = Null
  <2>1. Live = {} /\ Cardinality(Live) = 0
    BY <1>4, FS_EmptySet DEF RingIntegrity
  <2>2. task_list' = t /\ next' = [next EXCEPT ![t] = t]
    BY <1>4 DEF AddTask
  <2>3. next'[t] = t
    BY <2>2 DEF TypeOK
  <2>. DEFINE f == [i \in 1..1 |-> t]
  <2>4. f \in [1..1 -> Task] /\ IsRing(f, 1, {t}, t, next')
    BY <2>3 DEF IsRing
  <2>5. \E g \in [1..1 -> Task] : IsRing(g, 1, {t}, t, next')
    BY <2>4
  <2>6. Cardinality(Live') = 1 /\ Live' = {t} /\ task_list' = t /\ t # Null
    BY <1>1, <1>3, <2>1, <2>2 DEF Task, Null
  <2> QED BY <1>1, <2>5, <2>6 DEF RingIntegrity
<1>5. CASE task_list # Null
  <2>1. PICK f \in [1..Cardinality(Live) -> Task] :
          IsRing(f, Cardinality(Live), Live, task_list, next)
    BY DEF RingIntegrity
  <2>2. Cardinality(Live) > 0
    BY <1>2, <1>5, FS_EmptySet DEF RingIntegrity
  <2>3. /\ task_list' = task_list
        /\ next' = [next EXCEPT ![t] = next[task_list], ![task_list] = t]
    BY <1>5 DEF AddTask
  <2>4. next \in [Task -> Ptr] /\ Live \subseteq Task
    BY DEF TypeOK, Live
  <2>5. \E g \in [1..(Cardinality(Live) + 1) -> Task] :
          IsRing(g, Cardinality(Live) + 1, Live \cup {t}, task_list, next')
    BY <1>2, <2>1, <2>2, <2>3, <2>4, RingInsert
  <2> QED BY <1>1, <1>3, <1>5, <2>3, <2>5 DEF RingIntegrity
<1> QED BY <1>1, <1>4, <1>5

(* A collected task leaves the list.                                         *)
LEMMA ReapRing ==
  ASSUME TypeOK, RingIntegrity, NEW t \in Live, Reap(t)
  PROVE  RingIntegrity' /\ Live' = Live \ {t}
<1>1. Live' = Live \ {t}
  BY DEF Reap, Live, TypeOK
<1>2. IsFiniteSet(Live) /\ Cardinality(Live) \in Nat
  BY LiveFinite
<1>. DEFINE n == Cardinality(Live)
<1>3. Cardinality(Live \ {t}) = n - 1
  BY <1>2, FS_RemoveElement
<1>4. PICK f \in [1..n -> Task] : IsRing(f, n, Live, task_list, next)
  BY DEF RingIntegrity
<1>5. PICK k \in 1..n : f[k] = t
  BY <1>4 DEF IsRing
<1>6. Prev(t) \in Live /\ next[Prev(t)] = t
  <2>1. \E u \in Live : next[u] = t
    <3>. DEFINE p == IF k = 1 THEN n ELSE k - 1
    <3>1. p \in 1..n /\ next[f[p]] = f[k]
      BY <1>2, <1>4 DEF IsRing
    <3>2. f[p] \in Live
      BY <1>4, <3>1 DEF IsRing
    <3> QED BY <1>5, <3>1, <3>2
  <2> QED BY <2>1 DEF Prev
<1>7. /\ next' = [[next EXCEPT ![Prev(t)] = next[t]] EXCEPT ![t] = Null]
      /\ task_list' = IF task_list # t THEN task_list
                      ELSE IF next[t] = t THEN Null ELSE next[t]
  BY DEF Reap, Unlink
<1>8. task_list # Null /\ task_list \in Live /\ next \in [Task -> Ptr] /\ Live \subseteq Task
  <2>1. task_list = f[1] /\ f[1] \in Live
    BY <1>2, <1>4, <1>5 DEF IsRing
  <2> QED BY <2>1 DEF TypeOK, Live, Task, Null
<1>9. CASE n = 1
  <2>1. Live = {t}
    <3>1. \A u \in Live : u = t
      BY <1>4, <1>5, <1>9 DEF IsRing
    <3> QED BY <3>1
  <2>2. task_list = t /\ Prev(t) = t /\ next[t] = t
    BY <1>6, <1>8, <2>1
  <2>3. task_list' = Null /\ Live' = {} /\ Cardinality(Live') = 0
    BY <1>1, <1>7, <2>1, <2>2, FS_EmptySet
  <2>. DEFINE g == [i \in 1..0 |-> t]
  <2>4. g \in [1..0 -> Task] /\ IsRing(g, 0, {}, task_list', next')
    BY DEF IsRing
  <2>5. \E h \in [1..0 -> Task] : IsRing(h, 0, {}, task_list', next')
    BY <2>4
  <2> QED BY <1>1, <2>3, <2>5 DEF RingIntegrity
<1>10. CASE n > 1
  <2>1. next[t] # t
    <3>1. next[t] = f[IF k = n THEN 1 ELSE k + 1]
      BY <1>4, <1>5 DEF IsRing
    <3>2. (IF k = n THEN 1 ELSE k + 1) \in 1..n /\ (IF k = n THEN 1 ELSE k + 1) # k
      BY <1>2, <1>10
    <3> QED BY <1>4, <1>5, <3>1, <3>2 DEF IsRing
  <2>2. task_list' = IF task_list = t THEN next[t] ELSE task_list
    BY <1>7, <2>1
  <2>3. \E g \in [1..(n - 1) -> Task] : IsRing(g, n - 1, Live \ {t}, task_list', next')
    <3>1. \E g \in [1..(n - 1) -> Task] :
            IsRing(g, n - 1, Live \ {t}, IF task_list = t THEN next[t] ELSE task_list,
                   [[next EXCEPT ![Prev(t)] = next[t]] EXCEPT ![t] = Null])
      BY <1>2, <1>4, <1>6, <1>8, <1>10, RingRemove
    <3> QED BY <1>7, <2>2, <3>1
  <2>4. task_list' # Null /\ Live \ {t} # {}
    <3>1. PICK g \in [1..(n - 1) -> Task] : IsRing(g, n - 1, Live \ {t}, task_list', next')
      BY <2>3
    <3>2. task_list' = g[1] /\ g[1] \in Live \ {t}
      BY <1>2, <1>10, <3>1 DEF IsRing
    <3> QED BY <3>2 DEF Live, Task, Null
  <2> QED BY <1>1, <1>3, <2>3, <2>4 DEF RingIntegrity
<1>11. n = 1 \/ n > 1
  BY <1>2, <1>5
<1> QED BY <1>1, <1>9, <1>10, <1>11

-----------------------------------------------------------------------------
(***************************************************************************)
(* The inductive invariant.                                                *)
(***************************************************************************)

(* A step that leaves the list alone and creates and frees no task.          *)
LEMMA RingUntouched ==
  ASSUME RingIntegrity, UNCHANGED <<task_list, next>>, Live' = Live
  PROVE  RingIntegrity'
BY DEF RingIntegrity

(* The empty list that sched_init makes is a ring, and nothing runs yet.    *)
LEMMA InvInit == Init => SchedInv
<1>. SUFFICES ASSUME Init PROVE SchedInv
  OBVIOUS
<1>1. TypeOK
  BY TypeInit
<1>2. Live = {} /\ Cardinality(Live) = 0
  BY FS_EmptySet DEF Init, Live
<1>3. RingIntegrity
  <2>. DEFINE g == [i \in 1..0 |-> 1]
  <2>1. g \in [1..0 -> Task] /\ IsRing(g, 0, {}, task_list, next)
    BY DEF IsRing
  <2>2. \E h \in [1..0 -> Task] : IsRing(h, 0, {}, task_list, next)
    BY <2>1
  <2> QED BY <1>2, <2>2 DEF RingIntegrity, Init
<1>4. CurrentLive /\ NotOwnParent
  BY <1>2 DEF Init, CurrentLive, NotOwnParent
<1>5. Active
  BY DEF Init, Active, At, LoopPoints
<1> QED BY <1>1, <1>3, <1>4, <1>5 DEF SchedInv

(* Each step keeps the ring; only fork and the boot task add to it, and only*)
(* sched_wait removes from it, never the task that calls.                   *)
LEMMA InvStep == SchedInv /\ [Next]_vars => SchedInv'
<1>. SUFFICES ASSUME SchedInv, [Next]_vars PROVE SchedInv'
  OBVIOUS
<1>. USE DEF SchedInv
<1>a. TypeOK'
  BY TypeStep
<1>b. Null \notin Live /\ Live \subseteq Task
  BY DEF Live, Task, Null
<1>c. spot \in [Task -> Spot] /\ state \in [Task -> States] /\ frame \in [Task -> Ptr]
  BY DEF TypeOK, Spot
(* The part of the invariant that depends on where the CPU is.               *)
<1>d. ASSUME UNCHANGED <<task_list, next, parent>>, Live' = Live,
             current_task' = current_task, cpu.at # "wild",
             cpu'.at \in {"user", "read"} \cup LoopPoints => current_task # Null
      PROVE  SchedInv'
  <2>1. RingIntegrity'
    BY <1>d, RingUntouched
  <2>2. CurrentLive' /\ NotOwnParent' /\ Active'
    BY <1>d DEF CurrentLive, NotOwnParent, Active
  <2> QED BY <1>a, <2>1, <2>2
<1>e. ASSUME UNCHANGED state PROVE Live' = Live
  BY <1>e DEF Live
<1>u. ASSUME cpu.at = "user"
      PROVE  current_task \in Live /\ current_task # Null /\ current_task \in Task
  BY <1>u, <1>b DEF Active, CurrentLive
<1>0. CASE UNCHANGED vars
  <2>1. Live' = Live
    BY <1>0, <1>e DEF vars
  <2>2. RingIntegrity'
    BY <1>0, <2>1, RingUntouched DEF vars, taskVars
  <2>3. CurrentLive' /\ NotOwnParent' /\ Active'
    BY <1>0, <2>1 DEF vars, taskVars, CurrentLive, NotOwnParent, Active
  <2> QED BY <1>a, <2>2, <2>3
<1>1. CASE task_create_elf
  <2>1. PICK t \in Task \ Live : AddTask(t, Null)
    BY <1>1 DEF task_create_elf
  <2>2. RingIntegrity' /\ Live' = Live \cup {t}
    BY <2>1, AddTaskRing DEF Ptr
  <2>3. CurrentLive'
    BY <1>1, <2>2 DEF task_create_elf, CurrentLive
  <2>4. NotOwnParent'
    <3>1. parent' = [parent EXCEPT ![t] = Null] /\ t # Null
      BY <2>1 DEF AddTask, Task, Null
    <3> QED BY <1>b, <2>2, <3>1 DEF NotOwnParent, TypeOK
  <2>5. Active'
    BY <1>1 DEF task_create_elf, Active, At, LoopPoints
  <2> QED BY <1>a, <2>2, <2>3, <2>4, <2>5
<1>2. CASE BootWithoutTask
  <2>1. Live' = Live
    BY <1>2, <1>e DEF BootWithoutTask
  <2> QED BY <1>2, <1>d, <2>1 DEF BootWithoutTask, taskVars, At, LoopPoints
<1>3. CASE sched_tick
  <2>1. Live' = Live
    BY <1>3 DEF sched_tick, Woken, Live
  <2>2. RingIntegrity'
    BY <1>3, <2>1, RingUntouched DEF sched_tick, taskVars
  <2>3. NotOwnParent'
    BY <1>3, <2>1 DEF sched_tick, taskVars, NotOwnParent
  <2>4. CurrentLive' /\ Active'
    <3>1. CASE cpu' = Resumed /\ current_task' = current_task
      <4>1. cpu.at # "wild" /\ cpu'.at # "wild"
        BY <1>3, <3>1, SchedAssumption DEF sched_tick, InterruptsOn, Resumed, LoopPoints
      <4>2. cpu'.at \in {"user", "read"} \cup LoopPoints =>
              cpu.at \in {"user", "read"} \cup LoopPoints
        BY <3>1 DEF Resumed, TypeOK, LoopPoints
      <4> QED BY <2>1, <3>1, <4>1, <4>2 DEF CurrentLive, Active
    <3>2. ASSUME NEW n \in Task, pick_next_task(n, state'), current_task' = n
          PROVE  CurrentLive' /\ Active'
      <4>1. state'[n] = "running" /\ n # Null
        BY <3>2 DEF pick_next_task, Task, Null
      <4>2. n \in Live'
        BY <4>1 DEF Live
      <4> QED BY <3>2, <4>1, <4>2 DEF CurrentLive, Active
    <3> QED BY <1>3, <3>1, <3>2 DEF sched_tick
  <2> QED BY <1>a, <2>2, <2>3, <2>4
<1>4. CASE keyboard_handler
  <2>1. Live' = Live
    BY <1>4, <1>e DEF keyboard_handler
  <2>2. cpu.at # "wild"
    BY <1>4, SchedAssumption DEF keyboard_handler, InterruptsOn, LoopPoints
  <2>3. cpu'.at \in {"user", "read"} \cup LoopPoints =>
          cpu.at \in {"user", "read"} \cup LoopPoints
    BY <1>4 DEF keyboard_handler, Resumed, TypeOK, LoopPoints
  <2> QED BY <1>4, <1>d, <2>1, <2>2, <2>3 DEF keyboard_handler, taskVars, Active
<1>5. CASE YieldPick
  <2>1. Live' = Live
    BY <1>5, <1>e DEF YieldPick, loopFrame
  <2>2. cpu.at \in LoopPoints /\ cpu.at # "wild"
    BY <1>5 DEF YieldPick, LoopPoints
  <2> QED BY <1>5, <1>d, <2>1, <2>2 DEF YieldPick, loopFrame, taskVars, Active
<1>6. CASE YieldSet
  <2>1. Live' = Live
    BY <1>6, <1>e DEF YieldSet, loopFrame
  <2>2. RingIntegrity'
    BY <1>6, <2>1, RingUntouched DEF YieldSet, loopFrame, taskVars
  <2>3. NotOwnParent'
    BY <1>6, <2>1 DEF YieldSet, loopFrame, taskVars, NotOwnParent
  <2>4. CASE cpu.nxt \in Live
    <3>1. current_task' \in Live' /\ current_task' # Null
      BY <1>6, <1>b, <2>1, <2>4 DEF YieldSet
    <3> QED BY <1>a, <2>2, <2>3, <3>1 DEF CurrentLive, Active
  <2>5. CASE cpu.nxt \notin Live
    <3>1. cpu'.at = "wild"
      BY <1>6, <2>5 DEF YieldSet, At
    <3> QED BY <1>a, <2>2, <2>3, <3>1 DEF CurrentLive, Active, LoopPoints
  <2> QED BY <2>4, <2>5
<1>7. CASE YieldGo
  <2>1. Live' = Live
    BY <1>7, <1>e DEF YieldGo, loopFrame
  <2>2. cpu.at \in LoopPoints /\ cpu.at # "wild"
    BY <1>7 DEF YieldGo, LoopPoints
  <2> QED BY <1>7, <1>d, <2>1, <2>2 DEF YieldGo, loopFrame, taskVars, Active
<1>8. CASE YieldPoll
  <2>1. Live' = Live
    BY <1>8, <1>e DEF YieldPoll, loopFrame
  <2>2. cpu.at \in LoopPoints /\ cpu.at # "wild"
    BY <1>8 DEF YieldPoll, LoopPoints
  <2> QED BY <1>8, <1>d, <2>1, <2>2 DEF YieldPoll, loopFrame, taskVars, Active
<1>9. CASE MainPoll
  <2>1. Live' = Live
    BY <1>9, <1>e DEF MainPoll, loopFrame
  <2>2. cpu'.at \in {"main", "panic"} /\ cpu.at # "wild"
    BY <1>9 DEF MainPoll, At
  <2> QED BY <1>9, <1>d, <2>1, <2>2 DEF MainPoll, loopFrame, taskVars, LoopPoints
<1>10. CASE PanicHalt
  BY <1>0, <1>10 DEF PanicHalt
<1>y. ASSUME NEW s \in States, s # "free", EnterYield(s), current_task \in Live
      PROVE  Live' = Live
  BY <1>y, <1>c DEF EnterYield, Live
<1>11. CASE sched_exit_with
  <2>1. cpu.at = "user" /\ EnterYield("zombie") /\ current_task \in Live /\ current_task # Null
    BY <1>11, <1>u DEF sched_exit_with, Call
  <2>2. Live' = Live
    BY <2>1, <1>y DEF States
  <2> QED BY <1>11, <1>d, <2>1, <2>2 DEF sched_exit_with
<1>12. CASE sched_sleep
  <2>1. cpu.at = "user" /\ EnterYield("sleeping") /\ current_task \in Live /\ current_task # Null
    BY <1>12, <1>u DEF sched_sleep, Call
  <2>2. Live' = Live
    BY <2>1, <1>y DEF States
  <2> QED BY <1>12, <1>d, <2>1, <2>2 DEF sched_sleep, taskVars
<1>13. CASE task_create_fork
  <2>0. cpu.at = "user" /\ current_task \in Live /\ current_task # Null
    BY <1>13, <1>u DEF task_create_fork, Call
  <2>1. PICK t \in Task \ Live : AddTask(t, current_task)
    BY <1>13 DEF task_create_fork
  <2>2. RingIntegrity' /\ Live' = Live \cup {t}
    BY <2>1, AddTaskRing DEF TypeOK
  <2>3. CurrentLive' /\ Active'
    BY <1>13, <2>0, <2>2 DEF task_create_fork, CurrentLive, Active
  <2>4. NotOwnParent'
    <3>1. parent' = [parent EXCEPT ![t] = current_task] /\ t # current_task
      BY <2>0, <2>1 DEF AddTask
    <3> QED BY <1>b, <2>2, <3>1 DEF NotOwnParent, TypeOK
  <2> QED BY <1>a, <2>2, <2>3, <2>4
<1>14. CASE ForkFails
  <2>1. Live' = Live
    BY <1>14, <1>e DEF ForkFails
  <2>2. cpu.at = "user" /\ current_task # Null
    BY <1>14, <1>u DEF ForkFails, Call
  <2> QED BY <1>14, <1>d, <2>1, <2>2 DEF ForkFails, taskVars
<1>15. CASE sched_wait
  <2>0. cpu.at = "user" /\ current_task \in Live /\ current_task # Null
    BY <1>15, <1>u DEF sched_wait, Call
  <2>1. PICK t \in Live : Reap(t) /\ parent[t] = current_task
    BY <1>15 DEF sched_wait, FirstZombieChild, ZombieChild
  <2>2. RingIntegrity' /\ Live' = Live \ {t}
    BY <2>1, ReapRing
  <2>3. t # current_task
    BY <2>1 DEF NotOwnParent
  <2>4. CurrentLive' /\ Active'
    BY <1>15, <2>0, <2>2, <2>3 DEF sched_wait, CurrentLive, Active
  <2>5. NotOwnParent'
    <3>1. parent' = [parent EXCEPT ![t] = Null]
      BY <2>1 DEF Reap
    <3> QED BY <1>b, <2>2, <3>1 DEF NotOwnParent, TypeOK
  <2> QED BY <1>a, <2>2, <2>4, <2>5
<1>16. CASE WaitFindsNone
  <2>1. Live' = Live
    BY <1>16, <1>e DEF WaitFindsNone
  <2>2. cpu.at = "user" /\ current_task # Null
    BY <1>16, <1>u DEF WaitFindsNone, Call
  <2> QED BY <1>16, <1>d, <2>1, <2>2 DEF WaitFindsNone, taskVars
<1>17. CASE sched_exec
  <2>1. Live' = Live
    BY <1>17, <1>e DEF sched_exec
  <2>2. cpu.at = "user" /\ current_task # Null
    BY <1>17, <1>u DEF sched_exec, Call
  <2> QED BY <1>17, <1>d, <2>1, <2>2 DEF sched_exec, taskVars
<1>18. CASE handle_read
  <2>1. Live' = Live
    BY <1>18, <1>e DEF handle_read
  <2>2. cpu.at = "user" /\ current_task # Null
    BY <1>18, <1>u DEF handle_read, Call
  <2> QED BY <1>18, <1>d, <2>1, <2>2 DEF handle_read, taskVars
<1>19. CASE page_fault_handler
  <2>1. Live' = Live
    BY <1>19, <1>e DEF page_fault_handler
  <2>2. cpu.at = "user" /\ current_task # Null
    BY <1>19, <1>u DEF page_fault_handler
  <2> QED BY <1>19, <1>d, <2>1, <2>2 DEF page_fault_handler, taskVars
<1> QED
  BY <1>0, <1>1, <1>2, <1>3, <1>4, <1>5, <1>6, <1>7, <1>8, <1>9, <1>10, <1>11, <1>12,
     <1>13, <1>14, <1>15, <1>16, <1>17, <1>18, <1>19 DEF Next

(* SchedInv holds in every behaviour of the scheduler.                      *)
LEMMA SchedInvariant == Spec => []SchedInv
BY InvInit, InvStep, PTL DEF Spec

(* Type correctness of the scheduler, for any number of tasks.               *)
THEOREM TypeCorrect == Spec => []TypeOK
<1>1. SchedInv => TypeOK
  BY DEF SchedInv
<1> QED BY <1>1, SchedInvariant, PTL

(* Whatever the interleaving of system calls and interrupts, and however     *)
(* many tasks there are, the task list stays one cycle through exactly the   *)
(* live tasks.                                                             *)
THEOREM ListStaysRing == Spec => []RingIntegrity
<1>1. SchedInv => RingIntegrity
  BY DEF SchedInv
<1> QED BY <1>1, SchedInvariant, PTL

(* sched_wait frees tasks, but never the one that current_task points to;    *)
(* only a pointer that an interrupted yield() kept in a register can dangle. *)
THEOREM CurrentNeverDangles == Spec => []CurrentLive
<1>1. SchedInv => CurrentLive
  BY DEF SchedInv
<1> QED BY <1>1, SchedInvariant, PTL

-----------------------------------------------------------------------------
(***************************************************************************)
(* Walking along the list.                                                 *)
(***************************************************************************)
(* Walk is the recursive function that its definition says: for each number     *)
(* of steps there is a walk of that many steps, since next leads from a live   *)
(* task to a live task.                                                    *)
LEMMA WalkSteps ==
  ASSUME NEW S, NEW s \in S, \A x \in S : next[x] \in S
  PROVE  /\ Walk(s)[0] = s
         /\ \A k \in 1..MaxTask : Walk(s)[k] = next[Walk(s)[k - 1]]
<1>. DEFINE IsWalk(g, m) == g[0] = s /\ \A k \in 1..m : g[k] = next[g[k - 1]]
            Bad == {m \in Nat : ~\E g \in [0..m -> S] : IsWalk(g, m)}
            body(w) == [k \in 0..MaxTask |-> IF k = 0 THEN s ELSE next[w[k - 1]]]
<1>a. MaxTask \in Nat
  BY SchedAssumption
<1>1. Bad = {}
  <2>. SUFFICES ASSUME Bad # {} PROVE FALSE
    OBVIOUS
  <2>1. PICK m \in Bad : \A y \in Bad : m <= y
    <3>1. Bad \in SUBSET Nat
      OBVIOUS
    <3>. HIDE DEF Bad
    <3> QED BY <3>1, Least
  <2>2. m # 0
    <3>. DEFINE g == [k \in 0..0 |-> s]
    <3>0. 1..0 = {}
      OBVIOUS
    <3>a. g \in [0..0 -> S] /\ g[0] = s
      OBVIOUS
    <3>. HIDE DEF g
    <3>1. g \in [0..0 -> S] /\ IsWalk(g, 0)
      BY <3>0, <3>a
    <3> QED BY <2>1, <3>1, ZenonT(40)
  <2>3. m - 1 \in Nat /\ m - 1 \notin Bad
    <3>1. m \in Nat
      OBVIOUS
    <3>. HIDE DEF Bad
    <3> QED BY <2>1, <2>2, <3>1
  <2>4. PICK g \in [0..(m - 1) -> S] : IsWalk(g, m - 1)
    BY <2>3
  <2>. DEFINE h == [k \in 0..m |-> IF k = m THEN next[g[m - 1]] ELSE g[k]]
  <2>5. h \in [0..m -> S]
    BY <2>1, <2>3, <2>4
  <2>6. IsWalk(h, m)
    BY <2>1, <2>2, <2>3, <2>4
  <2> QED BY <2>1, <2>5, <2>6
<1>2. PICK g \in [0..MaxTask -> S] : IsWalk(g, MaxTask)
  BY <1>1, <1>a
<1>3. g = body(g)
  <2>1. \A k \in 0..MaxTask : g[k] = IF k = 0 THEN s ELSE next[g[k - 1]]
    BY <1>2, <1>a
  <2> QED BY <2>1
<1>4. Walk(s) = CHOOSE w : w = body(w)
  BY DEF Walk
<1>5. Walk(s) = body(Walk(s))
  BY <1>3, <1>4
<1>6. /\ body(Walk(s))[0] = s
      /\ \A k \in 1..MaxTask : body(Walk(s))[k] = next[Walk(s)[k - 1]]
  BY <1>a
<1> QED BY <1>5, <1>6

(* From the i-th task of the ring, k steps lead to the (i + k)-th, round and    *)
(* round.                                                                  *)
LEMMA WalkRound ==
  ASSUME NEW S, NEW n \in 1..MaxTask, NEW f \in [1..n -> Task], NEW head,
         IsRing(f, n, S, head, next), NEW i \in 1..n
  PROVE  \A k \in 0..n : Walk(f[i])[k] = f[IF i + k <= n THEN i + k ELSE i + k - n]
<1>. DEFINE at(k) == IF i + k <= n THEN i + k ELSE i + k - n
            Bad == {k \in 0..n : Walk(f[i])[k] # f[at(k)]}
<1>a. MaxTask \in Nat /\ n \in Nat /\ n <= MaxTask
  BY SchedAssumption
<1>b. /\ Walk(f[i])[0] = f[i]
      /\ \A k \in 1..n : Walk(f[i])[k] = next[Walk(f[i])[k - 1]]
  <2>1. f[i] \in S /\ \A x \in S : next[x] \in S
    BY <1>a DEF IsRing
  <2>2. /\ Walk(f[i])[0] = f[i]
        /\ \A k \in 1..MaxTask : Walk(f[i])[k] = next[Walk(f[i])[k - 1]]
    BY <2>1, WalkSteps
  <2> QED BY <1>a, <2>2
<1>1. Bad = {}
  <2>. SUFFICES ASSUME Bad # {} PROVE FALSE
    OBVIOUS
  <2>1. PICK k \in Bad : \A y \in Bad : k <= y
    <3>1. Bad \in SUBSET Nat
      BY <1>a
    <3>. HIDE DEF Bad
    <3> QED BY <3>1, Least
  <2>2. k \in 0..n /\ Walk(f[i])[k] # f[at(k)]
    OBVIOUS
  <2>3. k # 0
    <3>1. at(0) = i
      BY <1>a
    <3> QED BY <1>b, <2>2, <3>1
  <2>4. k - 1 \in 0..n /\ k - 1 \notin Bad
    <3>. HIDE DEF Bad
    <3> QED BY <1>a, <2>1, <2>2, <2>3
  <2>5. Walk(f[i])[k - 1] = f[at(k - 1)]
    BY <2>4
  <2>6. Walk(f[i])[k] = next[f[at(k - 1)]]
    BY <1>a, <1>b, <2>2, <2>3, <2>5, SMTT(30)
  <2>7. at(k - 1) \in 1..n /\ at(k) = IF at(k - 1) = n THEN 1 ELSE at(k - 1) + 1
    BY <1>a, <2>2, <2>3
  <2>8. next[f[at(k - 1)]] = f[at(k)]
    <3>. HIDE DEF at
    <3> QED BY <2>7 DEF IsRing
  <2> QED BY <2>2, <2>6, <2>8
<1> QED BY <1>1

(* From any live task, the loops that follow next come past every live task     *)
(* within as many steps as there are tasks.                                *)
LEMMA WalkReaches ==
  ASSUME RingIntegrity, NEW s \in Live, NEW t \in Live
  PROVE  \E k \in 1..MaxTask : Walk(s)[k] = t
<1>. DEFINE n == Cardinality(Live)
<1>1. n \in Nat /\ MaxTask \in Nat /\ n <= MaxTask
  <2>1. IsFiniteSet(Task) /\ Cardinality(Task) = MaxTask
    BY SchedAssumption, FS_Interval DEF Task
  <2>2. Cardinality(Live) <= Cardinality(Task)
    BY <2>1, FS_Subset DEF Live
  <2> QED BY <2>1, <2>2, LiveFinite, SchedAssumption
<1>2. PICK f \in [1..n -> Task] : IsRing(f, n, Live, task_list, next)
  BY DEF RingIntegrity
<1>. HIDE DEF n
<1>3. PICK i \in 1..n : f[i] = s
  BY <1>2 DEF IsRing
<1>4. PICK j \in 1..n : f[j] = t
  BY <1>2 DEF IsRing
<1>. DEFINE k == IF i < j THEN j - i ELSE j - i + n
<1>5. k \in 1..n /\ (IF i + k <= n THEN i + k ELSE i + k - n) = j
  <2>1. i \in Nat /\ j \in Nat /\ 1 <= i /\ i <= n /\ 1 <= j /\ j <= n
    BY <1>1, <1>3, <1>4
  <2>2. CASE i < j
    BY <1>1, <2>1, <2>2
  <2>3. CASE ~(i < j)
    BY <1>1, <2>1, <2>3
  <2> QED BY <2>2, <2>3
<1>6. \A m \in 0..n : Walk(f[i])[m] = f[IF i + m <= n THEN i + m ELSE i + m - n]
  <2>1. n \in 1..MaxTask
    BY <1>1, <1>3
  <2> QED BY <1>2, <1>3, <2>1, WalkRound
<1>. HIDE DEF k
<1>7. Walk(s)[k] = t
  <2>1. k \in 0..n
    BY <1>1, <1>5
  <2>2. Walk(f[i])[k] = f[IF i + k <= n THEN i + k ELSE i + k - n]
    BY <1>6, <2>1, Zenon
  <2>3. Walk(f[i])[k] = f[j]
    BY <1>5, <2>2, Zenon
  <2> QED BY <1>3, <1>4, <2>3, Zenon
<1> QED BY <1>1, <1>5, <1>7

(* However many tasks there are and in whatever order they came and went,       *)
(* pick_next_task finds a runnable task if there is one, a tick wakes every     *)
(* sleeper that is due, and sched_wait sees every child that has exited.      *)
THEOREM ScansAreComplete == Spec => []ScansMissNobody
<1>1. SchedInv => ScansMissNobody
  <2>. SUFFICES ASSUME SchedInv, cpu.at # "wild", NEW t \in Live
                PROVE  /\ state[t] = "running" => ~NothingToRun(state)
                       /\ state[t] = "sleeping" /\ wakeup_tick[t] <= tick =>
                            Woken(tick)[t] = "running"
                       /\ ZombieChild(t) =>
                            \E k \in 0..MaxTask : ZombieChild(Walk(task_list)[k])
    BY DEF ScansMissNobody
  <2>1. RingIntegrity /\ CurrentLive /\ t \in Task /\ MaxTask \in Nat
    BY SchedAssumption DEF SchedInv, Live
  <2>2. task_list \in Live /\ task_list # Null
    <3>1. PICK f \in [1..Cardinality(Live) -> Task] :
            IsRing(f, Cardinality(Live), Live, task_list, next)
      BY <2>1 DEF RingIntegrity
    <3>2. PICK i \in 1..Cardinality(Live) : f[i] = t
      BY <3>1 DEF IsRing
    <3>3. Cardinality(Live) > 0 /\ 1 \in 1..Cardinality(Live)
      BY <3>2, LiveFinite
    <3>4. f[1] = task_list /\ f[1] \in Live
      BY <3>1, <3>3 DEF IsRing
    <3> QED BY <3>4 DEF Live, Task, Null
  <2>3. Start \in Live
    BY <2>1, <2>2 DEF Start, CurrentLive
  <2>4. PICK k \in 1..MaxTask : Walk(Start)[k] = t
    BY <2>1, <2>3, WalkReaches
  <2>5. PICK m \in 1..MaxTask : Walk(task_list)[m] = t
    BY <2>1, <2>2, WalkReaches
  <2>6. m \in 0..MaxTask
    BY <2>1
  <2>7. state[t] = "running" => ~NothingToRun(state)
    BY <2>2, <2>4 DEF NothingToRun
  <2>8. state[t] = "sleeping" /\ wakeup_tick[t] <= tick => Woken(tick)[t] = "running"
    BY <2>1, <2>2, <2>5, <2>6 DEF Woken
  <2> QED BY <2>5, <2>6, <2>7, <2>8
<1> QED BY <1>1, SchedInvariant, PTL

-----------------------------------------------------------------------------
(***************************************************************************)
(* When no interrupt hits yield() between its choice of a task and the end   *)
(* of the switch to it.                                                    *)
(***************************************************************************)
(* No context is saved when sched_init returns.                             *)
LEMMA QuietInit == Init => QuietInv
<1>. SUFFICES ASSUME Init PROVE QuietInv
  OBVIOUS
<1>1. Live = {}
  BY DEF Init, Live
<1> QED BY <1>1 DEF Init, QuietInv, LoopOwnStack, ChosenRuns, FrameOwnStack, At, InLoop,
             LoopPoints

(* Under QuietInv a context is restored to user code or to yield() on the     *)
(* task's own stack, before the choice of the next task.                    *)
LEMMA QuietRestore ==
  ASSUME NEW n \in Task, NEW f, NEW s, restore_context(n, f, s),
         f[n] \in {Null, n}, f[n] = n => s[n].at \in {"pick", "poll"}
  PROVE  \/ cpu' = At("user")
         \/ cpu' = At("lost")
         \/ \E a \in {"pick", "poll"} : \E m : cpu' = Loop(a, n, m)
BY DEF restore_context, Task, Null

(* With no interrupt between the choice of a task and the switch, each step *)
(* keeps yield() and its saved contexts on their own stacks.                *)
LEMMA QuietStep ==
  ASSUME Quiet
  PROVE  SchedInv /\ QuietInv /\ [Next]_vars => QuietInv'
<1>. SUFFICES ASSUME SchedInv, QuietInv, [Next]_vars PROVE QuietInv'
  OBVIOUS
<1>. USE DEF QuietInv
<1>a. TypeOK /\ CurrentLive /\ Active
  BY DEF SchedInv
<1>b. Null \notin Live /\ Live \subseteq Task /\ current_task \in Ptr
  BY <1>a DEF Live, Task, Null, TypeOK
<1>c. state \in [Task -> States] /\ frame \in [Task -> Ptr]
  BY <1>a DEF TypeOK
<1>e. ASSUME UNCHANGED state PROVE Live' = Live
  BY <1>e DEF Live
<1>u. ASSUME cpu.at = "user"
      PROVE  current_task \in Live /\ current_task \in Task /\ state[current_task] = "running"
  BY <1>u, <1>a, <1>b DEF ChosenRuns, CurrentLive, Active
(* A step that returns to user code or stops, and leaves the tasks alone.     *)
<1>d. ASSUME UNCHANGED <<state, frame, current_task>>, cpu.at = "user",
             cpu'.at \in {"user", "read", "panic"}, cpu'.on = Null, UNCHANGED spot
      PROVE  QuietInv'
  <2>1. Live' = Live
    BY <1>d, <1>e
  <2>2. LoopOwnStack' /\ ChosenRuns'
    BY <1>d, <1>u, <2>1 DEF LoopOwnStack, ChosenRuns, InLoop, LoopPoints
  <2> QED BY <1>b, <1>d, <2>1, <2>2 DEF FrameOwnStack
<1>0. CASE UNCHANGED vars
  BY <1>0 DEF vars, taskVars, LoopOwnStack, ChosenRuns, FrameOwnStack, InLoop, Live
<1>1. CASE task_create_elf
  <2>1. PICK t \in Task \ Live : AddTask(t, Null)
    BY <1>1 DEF task_create_elf
  <2>2. Live' = Live \cup {t} /\ frame' = [frame EXCEPT ![t] = Null]
    BY <2>1, <1>c DEF AddTask, Live
  <2>3. cpu'.at = "main" /\ cpu'.on = Null /\ UNCHANGED spot
    BY <1>1 DEF task_create_elf, At
  <2>4. LoopOwnStack' /\ ChosenRuns'
    BY <2>3 DEF LoopOwnStack, ChosenRuns, InLoop, LoopPoints
  <2>5. frame'[t] = Null /\ t # Null
    BY <1>c, <2>2 DEF Task, Null
  <2> QED BY <1>b, <1>c, <2>2, <2>3, <2>4, <2>5 DEF FrameOwnStack
<1>2. CASE BootWithoutTask
  BY <1>2 DEF BootWithoutTask, LoopOwnStack, ChosenRuns, FrameOwnStack, InLoop, Live, At,
     LoopPoints
<1>3. CASE sched_tick
  <2>1. Live' = Live
    BY <1>3 DEF sched_tick, Woken, Live
  <2>0. cpu.at \in {"main", "user", "pick", "poll", "hlt"}
    BY <1>3, SchedAssumption DEF sched_tick, InterruptsOn, Quiet, LoopPoints
  <2>2. cpu.on \in {Null, current_task}
    BY <2>0 DEF LoopOwnStack, InLoop, LoopPoints
  <2>3. \A t \in Live : frame'[t] \in {Null, t}
    BY <1>3, <1>b, <1>c, <2>2 DEF sched_tick, SaveFrame, FrameOwnStack
  <2>4. \A t \in Live : frame'[t] = t => SaveSpot(state')[t].at \in {"pick", "poll"}
    <3>. SUFFICES ASSUME NEW t \in Live, frame'[t] = t
                  PROVE  SaveSpot(state')[t].at \in {"pick", "poll"}
      OBVIOUS
    <3>1. t \in Task /\ t # Null
      BY <1>b
    <3>2. CASE current_task # Null /\ state'[current_task] = "running"
      <4>1. /\ frame' = [frame EXCEPT ![current_task] = cpu.on]
            /\ SaveSpot(state') =
                 [spot EXCEPT ![current_task] = IF InLoop THEN Interrupted ELSE NoSpot]
        BY <1>3, <3>2 DEF sched_tick, SaveFrame, SaveSpot
      <4>2. CASE t = current_task
        <5>1. SaveSpot(state')[t] = IF InLoop THEN Interrupted ELSE NoSpot
          BY <1>a, <3>1, <4>1, <4>2 DEF TypeOK
        <5>2. InLoop => Interrupted.at \in {"pick", "poll"}
          BY <2>0 DEF Interrupted, InLoop, LoopPoints
        <5> QED BY <5>1, <5>2 DEF NoSpot
      <4>3. CASE t # current_task
        <5>1. frame[t] = t /\ SaveSpot(state')[t] = spot[t]
          BY <1>a, <1>c, <3>1, <4>1, <4>3 DEF TypeOK
        <5> QED BY <5>1 DEF FrameOwnStack
      <4> QED BY <4>2, <4>3
    <3>3. CASE ~(current_task # Null /\ state'[current_task] = "running")
      <4>1. frame' = frame /\ SaveSpot(state') = spot
        BY <1>3, <3>3 DEF sched_tick, SaveFrame, SaveSpot
      <4> QED BY <4>1 DEF FrameOwnStack
    <3> QED BY <3>2, <3>3
  <2>7. frame' \in [Task -> Ptr] /\ SaveSpot(state') \in [Task -> Spot]
    BY <1>3, <1>a, TickType, SpotType DEF sched_tick
  <2>8. \A t \in Task : spot'[t].at = SaveSpot(state')[t].at
    <3>1. CASE spot' = SaveSpot(state')
      BY <3>1
    <3>2. ASSUME NEW n \in Task, restore_context(n, frame', SaveSpot(state'))
          PROVE  \A t \in Task : spot'[t].at = SaveSpot(state')[t].at
      BY <3>2, <2>7, RestoreType
    <3> QED BY <1>3, <3>1, <3>2 DEF sched_tick
  <2>5. FrameOwnStack'
    BY <1>b, <2>1, <2>3, <2>4, <2>8 DEF FrameOwnStack
  <2>6. LoopOwnStack' /\ ChosenRuns'
    <3>1. CASE cpu' = Resumed /\ current_task' = current_task /\ NothingToRun(state')
      <4>1. state'[current_task] = "running" \/ cpu.at # "user"
        BY <1>3, <1>u DEF sched_tick, Woken
      <4>2. CASE cpu.at \in {"pick", "poll", "hlt"}
        BY <3>1, <4>2, <2>2 DEF Resumed, LoopOwnStack, ChosenRuns, InLoop, LoopPoints
      <4>3. CASE cpu.at \in {"main", "user"}
        BY <3>1, <4>1, <4>3 DEF Resumed, LoopOwnStack, ChosenRuns, InLoop, LoopPoints
      <4> QED BY <2>0, <4>2, <4>3
    <3>2. ASSUME NEW n \in Task, pick_next_task(n, state'), current_task' = n,
                 restore_context(n, frame', SaveSpot(state'))
          PROVE  LoopOwnStack' /\ ChosenRuns'
      <4>1. state'[n] = "running" /\ n # Null
        BY <3>2 DEF pick_next_task, Task, Null
      <4>2. n \in Live'
        BY <4>1 DEF Live
      <4> QED BY <3>2, <4>1, <4>2, <2>1, <2>3, <2>4, QuietRestore
              DEF LoopOwnStack, ChosenRuns, InLoop, LoopPoints, At, Loop
    <3> QED BY <1>3, <3>1, <3>2 DEF sched_tick
  <2> QED BY <2>5, <2>6
<1>4. CASE keyboard_handler
  <2>1. Live' = Live
    BY <1>4, <1>e DEF keyboard_handler
  <2>2. cpu.at \in {"main", "user", "pick", "poll", "hlt"}
    BY <1>4, SchedAssumption DEF keyboard_handler, InterruptsOn, Quiet, LoopPoints
  <2>3. LoopOwnStack' /\ ChosenRuns'
    <3>1. CASE cpu.at \in {"pick", "poll", "hlt"}
      BY <1>4, <3>1 DEF keyboard_handler, Resumed, LoopOwnStack, ChosenRuns, InLoop, LoopPoints
    <3>2. CASE cpu.at \in {"main", "user"}
      BY <1>4, <3>2 DEF keyboard_handler, Resumed, LoopOwnStack, ChosenRuns, InLoop, LoopPoints
    <3> QED BY <2>2, <3>1, <3>2
  <2>5. UNCHANGED <<frame, spot>>
    BY <1>4 DEF keyboard_handler
  <2> QED BY <2>1, <2>3, <2>5 DEF FrameOwnStack
<1>5. CASE YieldPick
  <2>1. Live' = Live /\ UNCHANGED <<state, frame, spot, current_task>>
    BY <1>5, <1>e DEF YieldPick, loopFrame
  <2>2. cpu.on = current_task
    BY <1>5 DEF YieldPick, LoopOwnStack
  <2>3. CASE cpu' = Loop("poll", cpu.on, Null)
    BY <2>1, <2>2, <2>3
       DEF Loop, LoopOwnStack, ChosenRuns, FrameOwnStack, InLoop, LoopPoints
  <2>4. ASSUME NEW n \in Task, pick_next_task(n, state), cpu' = Loop("set", cpu.on, n)
        PROVE  QuietInv'
    <3>1. state[n] = "running" /\ n \in Live
      BY <2>4 DEF pick_next_task, Live
    <3> QED BY <2>1, <2>2, <2>4, <3>1
            DEF Loop, LoopOwnStack, ChosenRuns, FrameOwnStack, InLoop, LoopPoints
  <2> QED BY <1>5, <2>3, <2>4 DEF YieldPick
<1>6. CASE YieldSet
  <2>1. Live' = Live /\ UNCHANGED <<state, frame, spot>>
    BY <1>6, <1>e DEF YieldSet, loopFrame
  <2>2. cpu.nxt \in Live /\ state[cpu.nxt] = "running"
    BY <1>6 DEF YieldSet, ChosenRuns
  <2>3. cpu.on \in Live
    BY <1>6, <1>a DEF YieldSet, LoopOwnStack, CurrentLive, Active, LoopPoints
  <2>4. cpu' = Loop("go", cpu.on, Null) /\ current_task' = cpu.nxt
    BY <1>6, <2>2 DEF YieldSet
  <2> QED BY <2>1, <2>2, <2>3, <2>4
          DEF Loop, LoopOwnStack, ChosenRuns, FrameOwnStack, InLoop, LoopPoints
<1>7. CASE YieldGo
  <2>1. Live' = Live /\ UNCHANGED <<state, frame, current_task>>
    BY <1>7, <1>e DEF YieldGo, loopFrame
  <2>2. current_task \in Live /\ current_task \in Task /\ state[current_task] = "running"
    BY <1>7, <1>a, <1>b DEF YieldGo, ChosenRuns, CurrentLive, Active, LoopPoints
  <2>3. \/ cpu' = At("user")
        \/ cpu' = At("lost")
        \/ \E a \in {"pick", "poll"} : \E m : cpu' = Loop(a, current_task, m)
    BY <1>7, <2>2, QuietRestore DEF YieldGo, FrameOwnStack
  <2>4. \A t \in Task : spot'[t].at = spot[t].at
    <3>1. spot \in [Task -> Spot] /\ restore_context(current_task, frame, spot)
      BY <1>7, <1>a DEF YieldGo, TypeOK, Spot
    <3> QED BY <1>c, <2>2, <3>1, RestoreType
  <2>5. LoopOwnStack' /\ ChosenRuns'
    BY <2>1, <2>2, <2>3 DEF Loop, At, LoopOwnStack, ChosenRuns, InLoop, LoopPoints
  <2> QED BY <1>b, <2>1, <2>4, <2>5 DEF FrameOwnStack
<1>8. CASE YieldPoll
  <2>1. Live' = Live /\ UNCHANGED <<state, frame, spot, current_task>>
    BY <1>8, <1>e DEF YieldPoll, loopFrame
  <2>2. cpu.on = current_task
    BY <1>8 DEF YieldPoll, LoopOwnStack
  <2>4. cpu' = At("panic") \/ cpu' = Loop("hlt", cpu.on, Null)
    BY <1>8 DEF YieldPoll
  <2> QED BY <2>1, <2>2, <2>4
          DEF Loop, At, LoopOwnStack, ChosenRuns, FrameOwnStack, InLoop, LoopPoints
<1>9. CASE MainPoll
  <2>1. Live' = Live /\ UNCHANGED <<state, frame, spot, current_task>>
    BY <1>9, <1>e DEF MainPoll, loopFrame
  <2>2. cpu' = At("panic") \/ cpu' = cpu
    BY <1>9 DEF MainPoll
  <2> QED BY <2>1, <2>2 DEF At, LoopOwnStack, ChosenRuns, FrameOwnStack, InLoop, LoopPoints
<1>10. CASE PanicHalt
  BY <1>0, <1>10 DEF PanicHalt
(* A blocking call enters yield() on the caller's stack.                      *)
<1>y. ASSUME NEW s \in States, s # "free", EnterYield(s), cpu.at = "user", UNCHANGED current_task
      PROVE  QuietInv'
  <2>1. current_task \in Live /\ current_task \in Task
    BY <1>y, <1>u
  <2>2. Live' = Live
    BY <1>y, <1>c, <2>1 DEF EnterYield, Live
  <2>3. LoopOwnStack' /\ ChosenRuns'
    BY <1>y, <2>1, <2>2 DEF EnterYield, Loop, LoopOwnStack, ChosenRuns, InLoop, LoopPoints
  <2>4. /\ frame' = [frame EXCEPT ![current_task] = Null]
        /\ spot' = [spot EXCEPT ![current_task] = NoSpot]
    BY <1>y DEF EnterYield
  <2>5. \A t \in Live : frame'[t] = t => t # current_task /\ frame[t] = t
    BY <1>b, <1>c, <2>1, <2>4
  <2>6. \A t \in Live : frame'[t] = t => spot'[t].at = spot[t].at
    BY <1>a, <1>b, <2>4, <2>5 DEF TypeOK
  <2> QED BY <1>b, <1>c, <2>1, <2>2, <2>3, <2>4, <2>5, <2>6 DEF FrameOwnStack
<1>11. CASE sched_exit_with
  BY <1>11, <1>y DEF sched_exit_with, Call, States
<1>12. CASE sched_sleep
  BY <1>12, <1>y DEF sched_sleep, Call, States
<1>13. CASE task_create_fork
  <2>0. cpu.at = "user" /\ cpu'.at = "user" /\ cpu'.on = Null /\ UNCHANGED current_task
    BY <1>13 DEF task_create_fork, Call, ReturnToUser, At
  <2>1. PICK t \in Task \ Live : AddTask(t, current_task)
    BY <1>13 DEF task_create_fork
  <2>2. /\ Live' = Live \cup {t}
        /\ frame' = [frame EXCEPT ![t] = Null]
        /\ state' = [state EXCEPT ![t] = "running"]
    BY <2>1, <1>c DEF AddTask, Live
  <2>3. UNCHANGED spot
    BY <1>13 DEF task_create_fork
  <2>4. LoopOwnStack' /\ ChosenRuns'
    BY <1>c, <1>u, <2>0, <2>2 DEF LoopOwnStack, ChosenRuns, InLoop, LoopPoints
  <2>5. \A u \in Live' : frame'[u] = u => u \in Live /\ frame[u] = u
    <3>1. frame'[t] = Null /\ t # Null
      BY <1>c, <2>2 DEF Task, Null
    <3> QED BY <1>b, <1>c, <2>2, <3>1
  <2> QED BY <1>b, <1>c, <2>2, <2>3, <2>4, <2>5 DEF FrameOwnStack
<1>14. CASE ForkFails
  BY <1>14, <1>d DEF ForkFails, Call, ReturnToUser, At
<1>15. CASE sched_wait
  <2>0. cpu.at = "user" /\ cpu'.at = "user" /\ cpu'.on = Null /\ UNCHANGED current_task
    BY <1>15 DEF sched_wait, Call, ReturnToUser, At
  <2>1. PICK t \in Live : Reap(t) /\ state[t] = "zombie"
    BY <1>15 DEF sched_wait, FirstZombieChild, ZombieChild
  <2>2. /\ Live' = Live \ {t}
        /\ frame' = [frame EXCEPT ![t] = Null]
        /\ state' = [state EXCEPT ![t] = "free"]
        /\ spot' = [Spoiled(t, frame, spot) EXCEPT ![t] = NoSpot]
    BY <2>1, <1>c DEF Reap, Live
  <2>3. LoopOwnStack' /\ ChosenRuns'
    BY <1>c, <1>u, <2>0, <2>1, <2>2 DEF LoopOwnStack, ChosenRuns, InLoop, LoopPoints
  <2>4. \A u \in Live' : frame'[u] = u => u \in Live /\ u # t /\ frame[u] = u
    BY <1>b, <1>c, <2>2
  <2>5. \A u \in Live' : frame'[u] = u => spot'[u].at = spot[u].at
    <3>. SUFFICES ASSUME NEW u \in Live', frame'[u] = u PROVE spot'[u].at = spot[u].at
      OBVIOUS
    <3>1. u \in Task /\ u # t
      BY <1>b, <2>4
    <3>2. spot'[u] = Spoiled(t, frame, spot)[u]
      BY <2>2, <3>1 DEF Spoiled
    <3>3. spot \in [Task -> Spot]
      BY <1>a DEF TypeOK, Spot
    <3> QED BY <3>1, <3>2, <3>3, SpoiledAt
  <2> QED BY <1>b, <1>c, <2>2, <2>3, <2>4, <2>5 DEF FrameOwnStack
<1>16. CASE WaitFindsNone
  BY <1>16, <1>d DEF WaitFindsNone, Call, ReturnToUser, At
<1>17. CASE sched_exec
  BY <1>17, <1>d DEF sched_exec, Call, ReturnToUser, At
<1>18. CASE handle_read
  BY <1>18, <1>d DEF handle_read, Call, ReturnToUser, At
<1>19. CASE page_fault_handler
  BY <1>19, <1>d DEF page_fault_handler, At
<1> QED
  BY <1>0, <1>1, <1>2, <1>3, <1>4, <1>5, <1>6, <1>7, <1>8, <1>9, <1>10, <1>11, <1>12,
     <1>13, <1>14, <1>15, <1>16, <1>17, <1>18, <1>19 DEF Next

(* Hence QuietInv holds in every such behaviour of the scheduler.           *)
LEMMA QuietInvariant ==
  ASSUME Quiet
  PROVE  Spec => [](SchedInv /\ QuietInv)
<1>1. Init => SchedInv /\ QuietInv
  BY InvInit, QuietInit
<1>2. (SchedInv /\ QuietInv) /\ [Next]_vars => (SchedInv /\ QuietInv)'
  BY InvStep, QuietStep
<1> QED BY <1>1, <1>2, PTL DEF Spec

(* If no interrupt hits yield() in the middle of a switch, user code runs     *)
(* only as a runnable task.  (Without that hypothesis the property is false: *)
(* run sched_race shows what happens then.)                                *)
THEOREM QuietRunnable ==
  ASSUME Quiet
  PROVE  Spec => []OnlyRunnableRuns
<1>1. SchedInv /\ QuietInv => OnlyRunnableRuns
  BY DEF SchedInv, QuietInv, OnlyRunnableRuns, LoopOwnStack, ChosenRuns, Active
<1> QED BY <1>1, QuietInvariant, PTL

(* Under the same hypothesis no kernel stack is used on behalf of another     *)
(* task, so sched_wait never frees a stack that is in use.                  *)
THEOREM QuietStacks ==
  ASSUME Quiet
  PROVE  Spec => []StackSafe
<1>1. SchedInv /\ QuietInv => StackSafe
  BY DEF SchedInv, QuietInv, StackSafe, LoopOwnStack, FrameOwnStack, Active, CurrentLive,
         InLoop, LoopPoints
<1> QED BY <1>1, QuietInvariant, PTL

-----------------------------------------------------------------------------
(***************************************************************************)
(* Address spaces.                                                         *)
(***************************************************************************)
(* Every path back to user code loads the directory of the task that runs;   *)
(* only an exec that ran out of memory comes back in the kernel's.          *)
LEMMA SpaceStep == UserInOwnSpace /\ [Next]_vars => UserInOwnSpace'
<1>. SUFFICES ASSUME UserInOwnSpace, [Next]_vars, cpu'.at = "user"
              PROVE  cr3' = current_task' \/ (Oom /\ cr3' = Null)
  BY DEF UserInOwnSpace
<1>a. ASSUME cpu' = Resumed PROVE cpu.at = "user"
  BY <1>a DEF Resumed
<1>b. ASSUME NEW c, Call(c) PROVE cpu.at = "user" /\ cr3 = current_task
  BY <1>b DEF Call
<1>0. CASE UNCHANGED vars
  BY <1>0 DEF vars, UserInOwnSpace
<1>1. CASE task_create_elf \/ BootWithoutTask \/ MainPoll \/ page_fault_handler \/ PanicHalt
  BY <1>0, <1>1
     DEF task_create_elf, BootWithoutTask, MainPoll, page_fault_handler, PanicHalt, At
<1>2. CASE sched_tick
  BY <1>2, <1>a DEF sched_tick, UserInOwnSpace
<1>3. CASE keyboard_handler
  BY <1>3, <1>a DEF keyboard_handler, UserInOwnSpace
<1>4. CASE YieldPick \/ YieldSet \/ YieldPoll
  BY <1>4 DEF YieldPick, YieldSet, YieldPoll, Loop, At
<1>5. CASE YieldGo
  BY <1>5 DEF YieldGo
<1>6. CASE sched_exit_with \/ sched_sleep
  BY <1>6 DEF sched_exit_with, sched_sleep, EnterYield, Loop
<1>7. CASE task_create_fork \/ ForkFails \/ sched_wait \/ WaitFindsNone \/ handle_read
  BY <1>7, <1>b DEF task_create_fork, ForkFails, sched_wait, WaitFindsNone, handle_read
<1>8. CASE sched_exec
  BY <1>8, <1>b DEF sched_exec
<1> QED BY <1>0, <1>1, <1>2, <1>3, <1>4, <1>5, <1>6, <1>7, <1>8 DEF Next

(* sched_tick and yield() switch the page directory together with the task,    *)
(* wherever interrupts fall: user code never runs in the address space of     *)
(* another task.                                                           *)
THEOREM UserSpaceIsOwn == Spec => []UserInOwnSpace
<1>1. Init => UserInOwnSpace
  BY DEF Init, At, UserInOwnSpace
<1> QED BY <1>1, SpaceStep, PTL DEF Spec

-----------------------------------------------------------------------------
(***************************************************************************)
(* What happens to a task that has exited.                                  *)
(***************************************************************************)
(* No step but sched_wait, called by the parent, takes a task out of the       *)
(* zombie state.                                                           *)
LEMMA StepZombie ==
  SchedInv /\ QuietInv /\ [Next]_vars =>
    [\A t \in Task : state[t] = "zombie" =>
       \/ state'[t] = "zombie"
       \/ state'[t] = "free" /\ parent[t] = current_task /\ ret'.call = "wait"]_vars
<1>. SUFFICES ASSUME SchedInv, QuietInv, Next, NEW t \in Task, state[t] = "zombie"
              PROVE  \/ state'[t] = "zombie"
                     \/ state'[t] = "free" /\ parent[t] = current_task /\ ret'.call = "wait"
  OBVIOUS
<1>a. state \in [Task -> States] /\ t \in Live
  BY DEF SchedInv, TypeOK, Live
<1>b. cpu.at = "user" => t # current_task
  BY DEF QuietInv, ChosenRuns
<1>c. ASSUME UNCHANGED state PROVE state'[t] = "zombie"
  BY <1>c
<1>d. ASSUME NEW u \in Task \ Live, NEW p, AddTask(u, p) PROVE state'[t] = "zombie"
  BY <1>a, <1>d DEF AddTask
<1>1. CASE task_create_elf \/ task_create_fork
  BY <1>1, <1>d DEF task_create_elf, task_create_fork
<1>2. CASE sched_tick
  BY <1>2 DEF sched_tick, Woken
<1>3. CASE \/ BootWithoutTask \/ keyboard_handler \/ ForkFails \/ WaitFindsNone \/ sched_exec
           \/ handle_read \/ page_fault_handler
  BY <1>3, <1>c DEF BootWithoutTask, keyboard_handler, ForkFails, WaitFindsNone, sched_exec,
     handle_read, page_fault_handler
<1>4. CASE YieldPick \/ YieldSet \/ YieldGo \/ YieldPoll \/ MainPoll \/ PanicHalt
  BY <1>4, <1>c DEF YieldPick, YieldSet, YieldGo, YieldPoll, MainPoll, PanicHalt, loopFrame, vars
<1>5. CASE sched_exit_with \/ sched_sleep
  BY <1>5, <1>a, <1>b DEF sched_exit_with, sched_sleep, Call, EnterYield
<1>6. CASE sched_wait
  <2>1. PICK u \in Live : ZombieChild(u) /\ Reap(u) /\ ret'.call = "wait"
    BY <1>6 DEF sched_wait, FirstZombieChild, ReturnToUser, Returned
  <2> QED BY <1>a, <2>1 DEF Reap, ZombieChild
<1> QED BY <1>1, <1>2, <1>3, <1>4, <1>5, <1>6 DEF Next

(* If no interrupt hits yield() in the middle of a switch, a task that has     *)
(* exited is never run, put to sleep or woken again; it goes when its parent   *)
(* collects it, and only then.                                             *)
THEOREM QuietZombies ==
  ASSUME Quiet
  PROVE  Spec => ZombieStays
BY StepZombie, QuietInvariant, PTL DEF Spec, ZombieStays

-----------------------------------------------------------------------------
(***************************************************************************)
(* The saved contexts of tasks that are not runnable.                        *)
(***************************************************************************)
(* Only sched_tick saves a context of yield(), and only for a task that is     *)
(* running after the wake-up scan; a task stops running in its own system      *)
(* call, which saves its user frame.                                        *)
LEMMA SleeperStep == SchedInv /\ SleepersKeepContext /\ [Next]_vars => SleepersKeepContext'
<1>. SUFFICES ASSUME SchedInv, SleepersKeepContext, [Next]_vars,
                     NEW t \in Live', state'[t] \in {"sleeping", "zombie"}
              PROVE  frame'[t] = Null
  BY DEF SleepersKeepContext
<1>a. /\ t \in Task /\ Null \notin Task
      /\ state \in [Task -> States] /\ frame \in [Task -> Ptr]
  BY DEF SchedInv, TypeOK, Live, Task, Null
<1>b. ASSUME state[t] \in {"sleeping", "zombie"} PROVE frame[t] = Null
  BY <1>a, <1>b DEF SleepersKeepContext, Live
<1>c. ASSUME UNCHANGED <<state, frame>> PROVE frame'[t] = Null
  BY <1>b, <1>c
<1>d. ASSUME NEW u \in Task, NEW p, AddTask(u, p) PROVE frame'[t] = Null
  BY <1>a, <1>b, <1>d DEF AddTask
<1>y. ASSUME NEW s, EnterYield(s) PROVE frame'[t] = Null
  BY <1>a, <1>b, <1>y DEF EnterYield
<1>0. CASE UNCHANGED vars
  BY <1>0, <1>c DEF vars
<1>1. CASE task_create_elf \/ task_create_fork
  BY <1>1, <1>d DEF task_create_elf, task_create_fork
<1>2. CASE sched_tick
  <2>1. (state'[t] = state[t] /\ t # current_task) \/ state'[current_task] # "running"
    BY <1>2, <1>a DEF sched_tick, Woken
  <2>2. state[t] \in {"sleeping", "zombie"}
    BY <1>2, <1>a DEF sched_tick, Woken
  <2> QED BY <1>2, <1>a, <1>b, <2>1, <2>2 DEF sched_tick, SaveFrame
<1>3. CASE \/ BootWithoutTask \/ keyboard_handler \/ ForkFails \/ WaitFindsNone \/ sched_exec
           \/ handle_read \/ page_fault_handler
  BY <1>3, <1>c DEF BootWithoutTask, keyboard_handler, ForkFails, WaitFindsNone, sched_exec,
     handle_read, page_fault_handler
<1>4. CASE YieldPick \/ YieldSet \/ YieldGo \/ YieldPoll \/ MainPoll \/ PanicHalt
  BY <1>4, <1>c DEF YieldPick, YieldSet, YieldGo, YieldPoll, MainPoll, PanicHalt, loopFrame, vars
<1>5. CASE sched_exit_with \/ sched_sleep
  BY <1>5, <1>y DEF sched_exit_with, sched_sleep
<1>6. CASE sched_wait
  <2>1. PICK u \in Task : Reap(u)
    BY <1>6 DEF sched_wait, Live
  <2> QED BY <1>a, <1>b, <2>1 DEF Reap
<1> QED BY <1>0, <1>1, <1>2, <1>3, <1>4, <1>5, <1>6 DEF Next

(* Wherever interrupts hit yield(), a task that sleeps or has exited keeps the  *)
(* frame of its own system call as its saved context.                        *)
THEOREM SleepersKeepFrame == Spec => []SleepersKeepContext
<1>1. Init => SleepersKeepContext
  BY DEF Init, SleepersKeepContext, Live
<1> QED BY <1>1, SleeperStep, SchedInvariant, PTL DEF Spec

=============================================================================
