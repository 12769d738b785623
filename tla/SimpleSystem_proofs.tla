------------------------ MODULE SimpleSystem_proofs ------------------------
(***************************************************************************)
(* What surrounds the core in the simulated system, for every width of the *)
(* timer's registers, every time base, and any number of hosts on the bus. *)
(*                                                                         *)
(* The time a driver reads is one of the call, no tick comes early and     *)
(* none that is due is lost, however the handler interrupts the driver.    *)
(* The invariant follows timer_read from load to load, and says that       *)
(* mtimecmp is the time waited for except while it is being written, which *)
(* the program does with its interrupt disabled and the handler does with  *)
(* all of them disabled.  The bus is proved step by step.                  *)
(***************************************************************************)
EXTENDS SimpleTimer, SystemBus, NaturalsInduction, WellFoundedInduction, TLAPS

(* What the frame of a reading thread holds, load after load. *)
Reading(t) ==
    /\ pc[t] \in {"high", "low", "again", "read", "cmp"} => frame[t].called < mtime
    /\ pc[t] = "low" => frame[t].timeh * Half <= mtime
    /\ pc[t] = "again" =>
          \E m \in Nat : /\ frame[t].called <= m /\ m < mtime
                         /\ frame[t].timeh * Half <= m
                         /\ frame[t].time = frame[t].timeh * Half + Lo(m)
    /\ pc[t] \in {"read", "cmp"} =>
          frame[t].called <= frame[t].time /\ frame[t].time < mtime

(* Who may be where, with which interrupts enabled. *)
MainAt(labels) == pc["main"] \in labels

Enabling ==
    /\ pc["handler"] \in {"idle", "high", "low", "again", "cmp", "cmph", "cmpl",
                           "count", "mret"}
    /\ pc["handler"] # "idle" => MTIE /\ ~MIE
    /\ MainAt({"high", "low", "again"}) => op \in {"timer_enable", "timer_read"}
    /\ MainAt({"cmp", "cmph", "cmpl", "mie"}) => op = "timer_enable"
    /\ op = "timer_enable" /\ MainAt({"high", "low", "again", "cmp", "cmph", "cmpl", "mie"})
          => ~MTIE

Comparing ==
    /\ (\A t \in Threads : ~Setting(t)) =>
          mtimecmp = due /\ (interrupt_q => due < mtime)
    /\ \A t \in Threads : pc[t] = "cmpl" => Hi(mtimecmp) = Hi(new_time(t))

IInv == TypeOK /\ (\A t \in Threads : Reading(t)) /\ Enabling /\ Comparing

-----------------------------------------------------------------------------
LEMMA Sizes ==
    /\ Half \in Nat /\ Half > 1 /\ TickHalf \in Nat /\ TickHalf > 1
    /\ Half * Half \in Nat /\ Half * Half > 0
    /\ TickHalf * TickHalf \in Nat /\ TickHalf * TickHalf > 1
    /\ MaxTime \in Nat /\ MaxTime < Half * Half
    /\ Bases \subseteq Nat
<1>1. /\ Half \in Nat /\ Half > 1 /\ TickHalf \in Nat /\ TickHalf > 1
      /\ MaxTime \in Nat /\ MaxTime < Half * Half /\ Bases \subseteq Nat
  BY TimerAssumption
<1> QED
  BY <1>1, SMT

LEMMA DivMod ==
    ASSUME NEW d \in Nat, d > 0, NEW n \in Nat
    PROVE  /\ n = (n \div d) * d + (n % d)
           /\ n \div d \in Nat
           /\ n % d \in 0..(d - 1)
  BY SMT

LEMMA DivModUnique ==
    ASSUME NEW d \in Nat, d > 0, NEW q \in Nat, NEW r \in 0..(d - 1)
    PROVE  (q * d + r) \div d = q /\ (q * d + r) % d = r
  BY SMT

(* A time below d^2 has a high part below d. *)
LEMMA HighPart ==
    ASSUME NEW d \in Nat, d > 0, NEW n \in 0..(d * d - 1)
    PROVE  n \div d \in 0..(d - 1)
<1>1. d * d \in Nat /\ n \in Nat
  BY SMT
<1> DEFINE q == n \div d
<1>2. q \in Nat /\ q * d <= n
  BY <1>1, DivMod, SMT
<1> HIDE DEF q
<1>3. CASE q >= d
  <2>1. q * d >= d * d
    BY <1>2, <1>3, SMT
  <2> QED
    BY <1>1, <1>2, <2>1
<1> QED
  BY <1>2, <1>3 DEF q

LEMMA Halves ==
    ASSUME NEW x \in Time
    PROVE  /\ x \in Nat /\ Hi(x) \in 0..(Half - 1) /\ Lo(x) \in 0..(Half - 1)
           /\ x = Hi(x) * Half + Lo(x)
<1>1. x \in 0..(Half * Half - 1) /\ x \in Nat
  BY Sizes DEF Time
<1> QED
  BY <1>1, Sizes, HighPart, DivMod DEF Hi, Lo

LEMMA Joined ==
    ASSUME NEW h \in 0..(Half - 1), NEW l \in 0..(Half - 1)
    PROVE  /\ h * Half + l \in Time
           /\ Hi(h * Half + l) = h /\ Lo(h * Half + l) = l
<1>1. h \in Nat /\ l \in Nat /\ h + 1 <= Half
  BY Sizes
<1>2. (h + 1) * Half <= Half * Half
  BY <1>1, Sizes, SMT
<1>3. (h + 1) * Half = h * Half + Half /\ h * Half \in Nat
  BY <1>1, Sizes, SMT
<1>4. h * Half + l \in Time
  <2> DEFINE p == h * Half
             s == Half * Half
  <2>1. p \in Nat /\ s \in Nat /\ p + Half <= s
    BY <1>2, <1>3, Sizes
  <2> HIDE DEF p, s
  <2>2. p + l \in 0..(s - 1)
    BY <2>1, <1>1, Sizes
  <2> QED
    BY <2>2 DEF p, s, Time
<1> QED
  BY <1>4, <1>1, Sizes, DivModUnique DEF Hi, Lo

LEMMA NewTime == ASSUME TypeOK, NEW t \in Threads PROVE new_time(t) \in Time
<1>1. frame[t].time \in Nat /\ time_increment \in Nat
  BY Sizes DEF TypeOK, Time
<1> DEFINE x == frame[t].time + time_increment
           s == Half * Half
<1>2. x \in Nat /\ s \in Nat /\ s > 0
  BY <1>1, Sizes
<1>3. new_time(t) = x % s /\ Time = 0..(s - 1)
  BY DEF new_time, Time
<1> HIDE DEF x, s
<1> QED
  BY <1>2, <1>3, DivMod

(* A cycle of the timer, whatever is written. *)
LEMMA CycleTypes ==
    ASSUME TypeOK, NEW we \in BOOLEAN, NEW cmp \in Time, Cycle(we, cmp)
    PROVE  /\ mtime' \in 0..MaxTime /\ mtime' = mtime + 1
           /\ mtimecmp' \in Time /\ mtimecmp' = cmp
           /\ interrupt_q' \in BOOLEAN
  BY Sizes DEF TypeOK, Cycle, Interrupt

LEMMA Parts ==
    ASSUME TypeOK
    PROVE  /\ mtime \in Nat /\ mtime \in Time
           /\ Hi(mtime) \in 0..(Half - 1) /\ Lo(mtime) \in 0..(Half - 1)
           /\ \A v \in 0..(Half - 1) : /\ Hi(mtimecmp) * Half + v \in Time
                                       /\ v * Half + Lo(mtimecmp) \in Time
<1>1. mtime \in Time /\ mtimecmp \in Time
  <2>1. mtime \in Nat /\ mtime <= MaxTime
    BY Sizes DEF TypeOK
  <2>2. mtime <= Half * Half - 1
    BY <2>1, Sizes
  <2> QED
    BY <2>1, <2>2, Sizes DEF TypeOK, Time
<1> QED
  BY <1>1, Sizes, Halves, Joined DEF TypeOK

(* The timer's part of the types, in a cycle that writes nothing and in one
   that writes half of mtimecmp. *)
TimerTypes == mtime \in 0..MaxTime /\ mtimecmp \in Time /\ interrupt_q \in BOOLEAN

LEMMA ClockTypes == ASSUME TypeOK, Clock PROVE TimerTypes'
  BY CycleTypes DEF Clock, TimerTypes, TypeOK

LEMMA WriteTypes ==
    ASSUME TypeOK, NEW v \in 0..(Half - 1), WriteLow(v) \/ WriteHigh(v)
    PROVE  TimerTypes'
<1>1. Hi(mtimecmp) * Half + v \in Time /\ v * Half + Lo(mtimecmp) \in Time
  BY Parts
<1>2. CASE WriteLow(v)
  BY <1>1, <1>2, CycleTypes DEF WriteLow, TimerTypes
<1>3. CASE WriteHigh(v)
  BY <1>1, <1>3, CycleTypes DEF WriteHigh, TimerTypes
<1> QED
  BY <1>2, <1>3

(* Frames and places of the threads. *)
Frame == [timeh : 0..(Half - 1), time : Time, called : 0..MaxTime]

LEMMA CallTypes ==
    ASSUME TypeOK, NEW t \in Threads, Call(t)
    PROVE  pc' \in [Threads -> Labels] /\ frame' \in [Threads -> Frame]
<1>1. [NoFrame EXCEPT !.called = mtime] \in Frame
  BY Sizes DEF TypeOK, NoFrame, Frame, Time
<1> QED
  BY <1>1 DEF Call, Goto, TypeOK, Frame, Labels

LEMMA DropTypes ==
    ASSUME TypeOK, NEW t \in Threads, Drop(t)
    PROVE  frame' \in [Threads -> Frame]
<1>1. NoFrame \in Frame
  BY Sizes DEF NoFrame, Frame, Time
<1> QED
  BY <1>1 DEF Drop, TypeOK, Frame

LEMMA HalfTypes ==
    ASSUME TypeOK, NEW half \in {"lo", "hi"} PROVE HalfOf(half) \in 0..(TickHalf - 1)
<1>1. time_elapsed \in 0..(TickHalf * TickHalf - 1) /\ time_elapsed \in Nat
  BY Sizes DEF TypeOK, Ticks
<1> QED
  BY <1>1, Sizes, HighPart, DivMod DEF HalfOf

(* The variables of the driver. *)
Rest ==
    /\ MTIE \in BOOLEAN /\ MIE \in BOOLEAN
    /\ time_elapsed \in Ticks /\ time_increment \in Bases \cup {0}
    /\ op \in {"none", "timer_enable", "timer_read", "get_elapsed_time"}
    /\ elapsed \in [lo : 0..(TickHalf - 1), hi : 0..(TickHalf - 1), ticks : Ticks]
    /\ due \in Time
Places == pc \in [Threads -> Labels] /\ frame \in [Threads -> Frame]

LEMMA TypeStep == TypeOK /\ [Next]_vars => TypeOK'
<1> SUFFICES ASSUME TypeOK, [Next]_vars PROVE TypeOK'
  OBVIOUS
<1>1. TypeOK <=> TimerTypes /\ Rest /\ Places
  BY DEF TypeOK, TimerTypes, Rest, Places, Frame
<1>2. TimerTypes /\ Rest /\ Places
  BY <1>1
<1>3. TypeOK' <=> TimerTypes' /\ Rest' /\ Places'
  BY DEF TypeOK, TimerTypes, Rest, Places, Frame
<1>4. ASSUME NEW t \in Threads, ReadHigh(t) PROVE TypeOK'
  <2>1. Places'
    BY <1>2, <1>4, Parts DEF ReadHigh, Goto, Places, Frame, Labels
  <2> QED
    BY <1>2, <1>3, <1>4, <2>1, ClockTypes DEF ReadHigh, Rest, enable
<1>5. ASSUME NEW t \in Threads, ReadLow(t) PROVE TypeOK'
  <2>1. frame[t].timeh * Half + Lo(mtime) \in Time
    BY <1>2, Parts, Joined DEF Places, Frame
  <2>2. Places'
    BY <1>2, <1>5, <2>1 DEF ReadLow, Goto, Places, Frame, Labels
  <2> QED
    BY <1>2, <1>3, <1>5, <2>2, ClockTypes DEF ReadLow, Rest, enable
<1>6. ASSUME NEW t \in Threads, ReadAgain(t) PROVE TypeOK'
  <2>1. Places'
    BY <1>2, <1>6 DEF ReadAgain, Goto, Places, Labels
  <2> QED
    BY <1>2, <1>3, <1>6, <2>1, ClockTypes DEF ReadAgain, Rest, enable
<1>7. ASSUME NEW t \in Threads, CmpMax(t) PROVE TypeOK'
  <2>1. Places'
    BY <1>2, <1>7 DEF CmpMax, Goto, Places, Labels
  <2>2. TimerTypes'
    BY <1>7, WriteTypes, Sizes DEF CmpMax
  <2> QED
    BY <1>2, <1>3, <1>7, <2>1, <2>2 DEF CmpMax, Rest, enable
<1>8. ASSUME NEW t \in Threads, CmpHigh(t) PROVE TypeOK'
  <2>1. Places'
    BY <1>2, <1>8 DEF CmpHigh, Goto, Places, Labels
  <2>2. TimerTypes'
    BY <1>8, WriteTypes, NewTime, Halves DEF CmpHigh
  <2> QED
    BY <1>2, <1>3, <1>8, <2>1, <2>2 DEF CmpHigh, Rest, enable
<1>9. ASSUME NEW t \in Threads, CmpLow(t) PROVE TypeOK'
  <2>1. Places'
    BY <1>2, <1>9, DropTypes DEF CmpLow, Goto, Places, Labels
  <2>2. TimerTypes'
    BY <1>9, WriteTypes, NewTime, Halves DEF CmpLow, LowHalf
  <2>3. due' \in Time
    BY <1>9, NewTime DEF CmpLow
  <2> QED
    BY <1>2, <1>3, <1>9, <2>1, <2>2, <2>3 DEF CmpLow, Rest, enable
<1>10. CASE timer_enable
  BY <1>2, <1>3, <1>10, ClockTypes, CallTypes, Sizes
     DEF timer_enable, Rest, Places, Threads, enable, Ticks
<1>11. CASE EnableTimer
  BY <1>2, <1>3, <1>11, ClockTypes DEF EnableTimer, Rest, Places, Goto, Labels
<1>12. CASE EnableGlobal
  BY <1>2, <1>3, <1>12, ClockTypes DEF EnableGlobal, Rest, Places, Goto, Labels
<1>13. CASE timer_disable
  BY <1>2, <1>3, <1>13, ClockTypes DEF timer_disable, Rest, Places
<1>14. CASE timer_read
  BY <1>2, <1>3, <1>14, ClockTypes, CallTypes DEF timer_read, Rest, Places, Threads, enable
<1>15. CASE ReadReturn
  <2>1. Places'
    BY <1>2, <1>15, DropTypes DEF ReadReturn, Goto, Places, Labels, Threads
  <2> QED
    BY <1>2, <1>3, <1>15, <2>1, ClockTypes DEF ReadReturn, Rest, enable
<1>16. CASE get_elapsed_time
  <2>1. Places'
    BY <1>2, <1>16 DEF get_elapsed_time, Goto, Places, Labels
  <2>2. elapsed' \in [lo : 0..(TickHalf - 1), hi : 0..(TickHalf - 1), ticks : Ticks]
    <3>1. PICK half \in {"lo", "hi"} :
              elapsed' = [NotLoaded EXCEPT ![half] = HalfOf(half), !.ticks = time_elapsed]
      BY <1>16 DEF get_elapsed_time
    <3>2. HalfOf(half) \in 0..(TickHalf - 1) /\ 0 \in 0..(TickHalf - 1) /\ time_elapsed \in Ticks
      BY <1>2, HalfTypes, Sizes DEF Rest
    <3> QED
      BY <3>1, <3>2 DEF NotLoaded
  <2> QED
    BY <1>2, <1>3, <1>16, <2>1, <2>2, ClockTypes DEF get_elapsed_time, Rest, enable
<1>17. CASE LoadOther
  <2>1. Places'
    BY <1>2, <1>17 DEF LoadOther, Goto, Places, Labels
  <2>2. elapsed' \in [lo : 0..(TickHalf - 1), hi : 0..(TickHalf - 1), ticks : Ticks]
    BY <1>2, <1>17, HalfTypes DEF LoadOther, Rest
  <2> QED
    BY <1>2, <1>3, <1>17, <2>1, <2>2, ClockTypes DEF LoadOther, Rest, enable
<1>18. CASE ElapsedReturn
  <2>1. NotLoaded \in [lo : 0..(TickHalf - 1), hi : 0..(TickHalf - 1), ticks : Ticks]
    BY Sizes DEF NotLoaded, Ticks
  <2> QED
    BY <1>2, <1>3, <1>18, <2>1, ClockTypes
       DEF ElapsedReturn, Rest, Places, Goto, Labels, enable
<1>19. CASE Enter
  BY <1>2, <1>3, <1>19, ClockTypes, CallTypes DEF Enter, Rest, Places, Threads
<1>20. CASE Count
  <2>1. time_elapsed + 1 \in Nat
    BY <1>2, Sizes DEF Rest, Ticks
  <2>2. time_elapsed' \in Ticks
    BY <1>20, <2>1, Sizes, DivMod DEF Count, Ticks
  <2> QED
    BY <1>2, <1>3, <1>20, <2>2, ClockTypes DEF Count, Rest, Places, Goto, Labels, enable
<1>21. CASE Return
  BY <1>2, <1>3, <1>21, ClockTypes DEF Return, Rest, Places, Goto, Labels
<1>22. CASE Other
  BY <1>2, <1>3, <1>22, ClockTypes DEF Other, Rest, Places, enable
<1>23. CASE UNCHANGED vars
  BY <1>2, <1>3, <1>23 DEF vars, timer, enable, TimerTypes, Rest, Places
<1> QED
  BY <1>4, <1>5, <1>6, <1>7, <1>8, <1>9, <1>10, <1>11, <1>12, <1>13, <1>14, <1>15, <1>16,
     <1>17, <1>18, <1>19, <1>20, <1>21, <1>22, <1>23 DEF Next, Driver, Program, Handler

-----------------------------------------------------------------------------
(* A thread that does not run, or stays where it is, has the same frame at a
   later time. *)
LEMMA ReadingStays ==
    ASSUME TypeOK, NEW t \in Threads, Reading(t), mtime' = mtime + 1,
           pc'[t] = pc[t], frame'[t] = frame[t]
    PROVE  Reading(t)'
<1>1. mtime \in Nat /\ mtime' \in Nat /\ mtime < mtime' /\ Half \in Nat
  BY Sizes DEF TypeOK
<1>2. frame[t].called \in Nat /\ frame[t].timeh \in Nat /\ frame[t].time \in Nat
  BY Sizes DEF TypeOK, Time
<1>3. frame[t].timeh * Half \in Nat
  BY <1>1, <1>2, SMT
<1> DEFINE p == frame[t].timeh * Half
<1>4. p \in Nat /\ frame'[t].timeh * Half = p
  BY <1>3
<1> HIDE DEF p
<1>5. pc[t] = "low" => frame'[t].timeh * Half <= mtime'
  <2>1. pc[t] = "low" => p <= mtime
    BY DEF Reading, p
  <2> QED
    BY <1>1, <1>4, <2>1
<1>6. ASSUME pc[t] = "again"
      PROVE  \E m \in Nat : /\ frame'[t].called <= m /\ m < mtime'
                            /\ frame'[t].timeh * Half <= m
                            /\ frame'[t].time = frame'[t].timeh * Half + Lo(m)
  <2>1. PICK m \in Nat : /\ frame[t].called <= m /\ m < mtime
                         /\ frame[t].timeh * Half <= m
                         /\ frame[t].time = frame[t].timeh * Half + Lo(m)
    BY <1>6 DEF Reading
  <2>2. m < mtime'
    BY <1>1, <2>1
  <2> QED
    BY <2>1, <2>2
<1>7. /\ pc[t] \in {"high", "low", "again", "read", "cmp"} => frame[t].called < mtime'
      /\ pc[t] \in {"read", "cmp"} =>
             frame[t].called <= frame[t].time /\ frame[t].time < mtime'
  BY <1>1, <1>2 DEF Reading
<1> QED
  BY <1>5, <1>6, <1>7 DEF Reading

(* At the other places nothing is said of the frame. *)
LEMMA NotReading ==
    ASSUME NEW t \in Threads, pc'[t] \notin {"high", "low", "again", "read", "cmp"}
    PROVE  Reading(t)'
  BY DEF Reading

LEMMA OthersPlace ==
    ASSUME TypeOK, NEW t \in Threads, NEW label \in Labels, Goto(t, label)
    PROVE  /\ pc'[t] = label
           /\ \A u \in Threads : u # t => pc'[u] = pc[u]
  BY DEF Goto, TypeOK

LEMMA Later == ASSUME TypeOK, Next PROVE mtime' = mtime + 1
  BY DEF Next, Driver, Program, Handler, ReadHigh, ReadLow, ReadAgain, CmpMax, CmpHigh, CmpLow,
         timer_enable, EnableTimer, EnableGlobal, timer_disable, timer_read, ReadReturn,
         get_elapsed_time, LoadOther, ElapsedReturn, Enter, Count, Return, Other, Clock,
         WriteLow, WriteHigh, Cycle

(* A call is at the present time. *)
LEMMA CallReads ==
    ASSUME TypeOK, NEW t \in Threads, Call(t), mtime' = mtime + 1,
           \A u \in Threads : Reading(u)
    PROVE  \A u \in Threads : Reading(u)'
<1>1. /\ pc'[t] = "high" /\ frame'[t].called = mtime
      /\ \A u \in Threads : u # t => pc'[u] = pc[u] /\ frame'[u] = frame[u]
  BY DEF Call, Goto, TypeOK, NoFrame
<1>2. Reading(t)'
  BY <1>1, Sizes DEF Reading, TypeOK
<1> QED
  BY <1>1, <1>2, ReadingStays

LEMMA LowReads ==
    ASSUME TypeOK, NEW t \in Threads, ReadHigh(t), \A u \in Threads : Reading(u)
    PROVE  \A u \in Threads : Reading(u)'
<1>1. mtime' = mtime + 1 /\ mtime \in Time /\ mtime \in Nat
  BY Later, Parts DEF Next, Driver
<1>2. /\ pc[t] = "high" /\ pc'[t] = "low"
      /\ frame'[t].called = frame[t].called /\ frame'[t].timeh = Hi(mtime)
      /\ \A u \in Threads : u # t => pc'[u] = pc[u] /\ frame'[u] = frame[u]
  BY DEF ReadHigh, At, Goto, TypeOK
<1>3. Hi(mtime) * Half \in Nat /\ Lo(mtime) \in Nat /\ mtime = Hi(mtime) * Half + Lo(mtime)
  BY <1>1, Halves, Sizes, SMT
<1> DEFINE p == Hi(mtime) * Half
<1>4. p \in Nat /\ p <= mtime /\ p <= mtime'
  <2>1. p \in Nat /\ Lo(mtime) \in Nat /\ mtime = p + Lo(mtime)
    BY <1>3
  <2> HIDE DEF p
  <2> QED
    BY <1>1, <2>1
<1>5. frame[t].called < mtime /\ frame[t].called \in Nat
  BY <1>2, Sizes DEF Reading, TypeOK
<1>6. Reading(t)'
  BY <1>1, <1>2, <1>4, <1>5 DEF Reading
<1> QED
  BY <1>1, <1>2, <1>6, ReadingStays

LEMMA AgainReads ==
    ASSUME TypeOK, NEW t \in Threads, ReadLow(t), \A u \in Threads : Reading(u)
    PROVE  \A u \in Threads : Reading(u)'
<1>1. mtime' = mtime + 1 /\ mtime \in Nat
  BY Later, Parts DEF Next, Driver
<1>2. /\ pc[t] = "low" /\ pc'[t] = "again"
      /\ frame'[t].called = frame[t].called /\ frame'[t].timeh = frame[t].timeh
      /\ frame'[t].time = frame[t].timeh * Half + Lo(mtime)
      /\ \A u \in Threads : u # t => pc'[u] = pc[u] /\ frame'[u] = frame[u]
  BY DEF ReadLow, At, Goto, TypeOK
<1>3. frame[t].called < mtime /\ frame[t].called \in Nat /\ frame[t].timeh * Half <= mtime
  BY <1>2, Sizes DEF Reading, TypeOK
<1>4. frame[t].called <= mtime /\ mtime < mtime' /\ frame[t].called < mtime'
  BY <1>1, <1>3
<1>5. Reading(t)'
  BY <1>1, <1>2, <1>3, <1>4 DEF Reading
<1> QED
  BY <1>1, <1>2, <1>5, ReadingStays

(* The high half is the same before and after the low one: it was in between. *)
LEMMA SameHigh ==
    ASSUME NEW h \in 0..(Half - 1), NEW m \in Time, NEW n \in Time,
           h * Half <= m, m <= n, Hi(n) = h
    PROVE  h * Half + Lo(m) = m
<1>1. /\ Half \in Nat /\ Half > 1 /\ h \in Nat /\ m \in Nat /\ n \in Nat
      /\ Lo(m) \in 0..(Half - 1) /\ Lo(n) \in 0..(Half - 1) /\ Hi(m) \in 0..(Half - 1)
      /\ m = Hi(m) * Half + Lo(m) /\ n = h * Half + Lo(n)
  BY Sizes, Halves
<1> DEFINE p == h * Half
<1>2. p \in Nat /\ p <= m /\ m < p + Half
  <2>1. p \in Nat
    BY <1>1, SMT
  <2>2. p <= m /\ n = p + Lo(n)
    BY <1>1
  <2> HIDE DEF p
  <2> QED
    BY <1>1, <2>1, <2>2
<1>3. m - p \in 0..(Half - 1) /\ m = h * Half + (m - p)
  <2>1. m - p \in 0..(Half - 1) /\ m = p + (m - p)
    <3> HIDE DEF p
    <3> QED
      BY <1>1, <1>2
  <2> QED
    BY <2>1
<1> DEFINE r == m - p
<1>4. r \in 0..(Half - 1) /\ m = h * Half + r
  BY <1>3
<1> HIDE DEF r
<1>5. Lo(m) = r
  BY <1>1, <1>4, DivModUnique DEF Lo
<1> QED
  BY <1>4, <1>5

LEMMA ReadsTime ==
    ASSUME TypeOK, NEW t \in Threads, ReadAgain(t), \A u \in Threads : Reading(u)
    PROVE  \A u \in Threads : Reading(u)'
<1>1. mtime' = mtime + 1 /\ mtime \in Nat /\ mtime \in Time
  BY Later, Parts DEF Next, Driver
<1>2. /\ pc[t] = "again" /\ pc'[t] \in {"high", "read", "cmp"}
      /\ pc'[t] # "high" => Hi(mtime) = frame[t].timeh
      /\ frame' = frame
      /\ \A u \in Threads : u # t => pc'[u] = pc[u]
  BY DEF ReadAgain, At, Goto, TypeOK, Unchanged
<1>3. frame[t].called < mtime /\ frame[t].called \in Nat
  BY <1>2, Sizes DEF Reading, TypeOK
<1>4. PICK m \in Nat : /\ frame[t].called <= m /\ m < mtime
                       /\ frame[t].timeh * Half <= m
                       /\ frame[t].time = frame[t].timeh * Half + Lo(m)
  BY <1>2 DEF Reading
<1>5. m \in Time /\ m <= mtime /\ m < mtime' /\ frame[t].called < mtime'
  BY <1>1, <1>3, <1>4, Sizes DEF Time
<1>6. CASE pc'[t] = "high"
  <2>1. Reading(t)'
    BY <1>2, <1>5, <1>6 DEF Reading
  <2> QED
    BY <1>1, <1>2, <2>1, ReadingStays
<1>7. CASE pc'[t] # "high"
  <2>1. frame[t].timeh \in 0..(Half - 1) /\ Hi(mtime) = frame[t].timeh
    BY <1>2, <1>7 DEF TypeOK
  <2>2. frame[t].time = m
    BY <1>1, <1>4, <1>5, <2>1, SameHigh
  <2>3. Reading(t)'
    BY <1>2, <1>4, <1>5, <1>7, <2>2 DEF Reading
  <2> QED
    BY <1>1, <1>2, <2>3, ReadingStays
<1> QED
  BY <1>6, <1>7

LEMMA ReadingStep ==
    ASSUME TypeOK, \A t \in Threads : Reading(t), [Next]_vars
    PROVE  \A t \in Threads : Reading(t)'
<1>1. CASE UNCHANGED vars
  BY <1>1 DEF vars, timer, Reading
<1>2. CASE Next
  <2>1. mtime' = mtime + 1
    BY <1>2, Later
  <2>2. ASSUME NEW t \in Threads, Driver(t) PROVE \A u \in Threads : Reading(u)'
    <3>1. CASE CmpMax(t) \/ CmpHigh(t) \/ CmpLow(t)
      <4>1. /\ pc'[t] \notin {"high", "low", "again", "read", "cmp"}
            /\ \A u \in Threads : u # t => pc'[u] = pc[u] /\ frame'[u] = frame[u]
        BY <3>1 DEF CmpMax, CmpHigh, CmpLow, Goto, Drop, TypeOK
      <4> QED
        BY <2>1, <4>1, ReadingStays, NotReading
    <3> QED
      BY <2>2, <3>1, LowReads, AgainReads, ReadsTime DEF Driver
  <2>3. CASE timer_enable \/ timer_read \/ Enter
    BY <2>1, <2>3, CallReads DEF timer_enable, timer_read, Enter, Threads
  <2>4. CASE \/ EnableTimer \/ EnableGlobal \/ ReadReturn \/ get_elapsed_time
             \/ LoadOther \/ ElapsedReturn
    <3>1. /\ pc'["main"] \notin {"high", "low", "again", "read", "cmp"}
          /\ pc'["handler"] = pc["handler"] /\ frame'["handler"] = frame["handler"]
      BY <2>4 DEF EnableTimer, EnableGlobal, ReadReturn, get_elapsed_time, LoadOther,
                  ElapsedReturn, Goto, Drop, TypeOK, Threads
    <3> QED
      BY <2>1, <3>1, ReadingStays, NotReading DEF Threads
  <2>5. CASE Count \/ Return
    <3>1. /\ pc'["handler"] \notin {"high", "low", "again", "read", "cmp"}
          /\ pc'["main"] = pc["main"] /\ frame'["main"] = frame["main"]
      BY <2>5 DEF Count, Return, Goto, TypeOK, Threads
    <3> QED
      BY <2>1, <3>1, ReadingStays, NotReading DEF Threads
  <2>6. CASE timer_disable \/ Other
    BY <2>1, <2>6, ReadingStays DEF timer_disable, Other
  <2> QED
    BY <1>2, <2>2, <2>3, <2>4, <2>5, <2>6 DEF Next, Program, Handler
<1> QED
  BY <1>1, <1>2

-----------------------------------------------------------------------------
LEMMA EnablingStep ==
    ASSUME TypeOK, Enabling, [Next]_vars PROVE Enabling'
<1> USE DEF Enabling, MainAt
<1>1. ASSUME NEW t \in Threads, Driver(t) PROVE Enabling'
  <2>1. UNCHANGED <<MTIE, MIE, op>>
    BY <1>1 DEF Driver, ReadHigh, ReadLow, ReadAgain, CmpMax, CmpHigh, CmpLow, enable
  <2>2. /\ t = "main" => pc["handler"] = "idle" /\ pc'["handler"] = pc["handler"]
        /\ t = "handler" => pc["handler"] # "idle" /\ pc'["main"] = pc["main"]
    BY <1>1 DEF Driver, ReadHigh, ReadLow, ReadAgain, CmpMax, CmpHigh, CmpLow,
                At, Running, Goto, TypeOK, Threads
  <2>3. CASE t = "handler"
    <3>1. pc'["handler"] \in {"high", "low", "again", "cmp", "cmph", "cmpl", "count"}
      BY <1>1, <2>3 DEF Driver, ReadHigh, ReadLow, ReadAgain, CmpMax, CmpHigh, CmpLow,
                        Goto, TypeOK
    <3> QED
      BY <2>1, <2>2, <2>3, <3>1
  <2>4. CASE t = "main"
    <3>1. \/ pc["main"] \in {"high", "low"} /\ pc'["main"] \in {"low", "again"}
          \/ pc["main"] = "again" /\ pc'["main"] \in {"high", "read"}
          \/ pc["main"] = "again" /\ pc'["main"] = "cmp" /\ op # "timer_read"
          \/ pc["main"] \in {"cmp", "cmph", "cmpl"} /\ pc'["main"] \in {"cmph", "cmpl", "mie"}
      BY <1>1, <2>4 DEF Driver, ReadHigh, ReadLow, ReadAgain, CmpMax, CmpHigh, CmpLow,
                        At, Goto, TypeOK
    <3> QED
      BY <2>1, <2>2, <2>4, <3>1
  <2> QED
    BY <2>3, <2>4 DEF Threads
<1>2. CASE Program
  <2>1. pc["handler"] = "idle" /\ pc'["handler"] = "idle"
    BY <1>2 DEF Program, timer_enable, EnableTimer, EnableGlobal, timer_disable, timer_read,
                ReadReturn, get_elapsed_time, LoadOther, ElapsedReturn,
                At, Running, Call, Goto, TypeOK, Threads
  <2>2. CASE timer_enable
    BY <2>1, <2>2 DEF timer_enable, Call, Goto, TypeOK, Threads, enable
  <2>3. CASE timer_read
    BY <2>1, <2>3 DEF timer_read, Call, Goto, TypeOK, Threads
  <2>4. CASE timer_disable
    BY <2>1, <2>4 DEF timer_disable, At
  <2>5. CASE \/ EnableTimer \/ EnableGlobal \/ ReadReturn \/ get_elapsed_time
             \/ LoadOther \/ ElapsedReturn
    <3>1. pc'["main"] \in {"mstatus", "idle", "lo", "hi", "elapsed"}
      BY <2>5 DEF EnableTimer, EnableGlobal, ReadReturn, get_elapsed_time, LoadOther,
                  ElapsedReturn, Goto, TypeOK, Threads
    <3> QED
      BY <2>1, <3>1
  <2> QED
    BY <1>2, <2>2, <2>3, <2>4, <2>5 DEF Program
<1>3. CASE Enter
  BY <1>3 DEF Enter, Call, Goto, TypeOK, Threads
<1>4. CASE Count
  BY <1>4 DEF Count, At, Goto, TypeOK, Threads, enable
<1>5. CASE Return
  BY <1>5 DEF Return, At, Goto, TypeOK, Threads
<1>6. CASE Other \/ UNCHANGED vars
  BY <1>6 DEF Other, vars, enable
<1> QED
  BY <1>1, <1>2, <1>3, <1>4, <1>5, <1>6 DEF Next, Handler

(* A cycle that writes nothing. *)
LEMMA Quiescent ==
    ASSUME TypeOK, Comparing, Clock, due' = due,
           \A t \in Threads : Setting(t)' => Setting(t),
           \A t \in Threads : Setting(t) => Setting(t)',
           \A t \in Threads : pc'[t] = "cmpl" => pc[t] = "cmpl" /\ new_time(t)' = new_time(t)
    PROVE  Comparing'
<1>1. /\ mtimecmp' = mtimecmp /\ mtime' = mtime + 1 /\ mtime \in Nat
      /\ interrupt_q' => mtime >= mtimecmp \/ interrupt_q
  BY Parts DEF Clock, Cycle, Interrupt
<1>2. due \in Nat
  BY Sizes DEF TypeOK, Time
<1>3. ASSUME \A t \in Threads : ~Setting(t)'
      PROVE  mtimecmp' = due' /\ (interrupt_q' => due' < mtime')
  <2>1. mtimecmp = due /\ (interrupt_q => due < mtime)
    BY <1>3 DEF Comparing
  <2> QED
    BY <1>1, <1>2, <2>1
<1>4. \A t \in Threads : pc'[t] = "cmpl" => Hi(mtimecmp)' = Hi(new_time(t))'
  BY <1>1 DEF Comparing, Hi
<1> QED
  BY <1>3, <1>4 DEF Comparing

(* While mtimecmp is written, one thread is at it. *)
LEMMA OneSets ==
    ASSUME TypeOK, Enabling, NEW t \in Threads, NEW u \in Threads, u # t,
           Running(t), Setting(t) \/ pc[t] = "cmp"
    PROVE  ~Setting(u)
  BY DEF Enabling, MainAt, Running, Setting, Threads, TypeOK

LEMMA ComparingStep ==
    ASSUME TypeOK, Enabling, Comparing, [Next]_vars PROVE Comparing'
<1>1. ASSUME NEW t \in Threads, ReadHigh(t) \/ ReadLow(t) \/ ReadAgain(t) PROVE Comparing'
  <2>1. /\ ~Setting(t) /\ ~Setting(t)' /\ due' = due /\ Clock
        /\ time_increment' = time_increment
        /\ \A u \in Threads : u # t => pc'[u] = pc[u] /\ frame'[u] = frame[u]
    BY <1>1 DEF ReadHigh, ReadLow, ReadAgain, At, Goto, Setting, TypeOK
  <2>2. \A u \in Threads : /\ Setting(u)' <=> Setting(u)
                           /\ pc'[u] = "cmpl" => pc[u] = "cmpl" /\ new_time(u)' = new_time(u)
    BY <2>1 DEF Setting, new_time
  <2> QED
    BY <2>1, <2>2, Quiescent
<1>2. ASSUME NEW t \in Threads, CmpMax(t) PROVE Comparing'
  <2>1. /\ Setting(t)' /\ pc'[t] = "cmph"
        /\ \A u \in Threads : u # t => pc'[u] = pc[u] /\ ~Setting(u)
    BY <1>2, OneSets DEF CmpMax, At, Goto, Setting, TypeOK
  <2> QED
    BY <2>1 DEF Comparing, Setting
<1>3. ASSUME NEW t \in Threads, CmpHigh(t) PROVE Comparing'
  <2>1. /\ Setting(t)' /\ pc'[t] = "cmpl" /\ new_time(t)' = new_time(t)
        /\ \A u \in Threads : u # t => pc'[u] = pc[u] /\ ~Setting(u)
    BY <1>3, OneSets DEF CmpHigh, At, Goto, Setting, TypeOK, new_time
  <2>2. mtimecmp' = Hi(new_time(t)) * Half + Lo(mtimecmp)
    BY <1>3 DEF CmpHigh, WriteHigh, Cycle
  <2>3. Hi(mtimecmp') = Hi(new_time(t))
    BY <2>2, NewTime, Halves, Joined DEF TypeOK
  <2> QED
    BY <2>1, <2>3 DEF Comparing, Setting, Hi
<1>4. ASSUME NEW t \in Threads, CmpLow(t) PROVE Comparing'
  <2>1. /\ pc[t] = "cmpl" /\ pc'[t] \notin {"cmph", "cmpl"}
        /\ \A u \in Threads : u # t => pc'[u] = pc[u] /\ ~Setting(u)
    BY <1>4, OneSets DEF CmpLow, At, Goto, Setting, TypeOK
  <2>2. /\ mtimecmp' = Hi(mtimecmp) * Half + Lo(new_time(t))
        /\ ~interrupt_q' /\ due' = new_time(t)
    BY <1>4 DEF CmpLow, LowHalf, WriteLow, Cycle, Interrupt
  <2>3. mtimecmp' = new_time(t)
    <3>1. Hi(mtimecmp) = Hi(new_time(t))
      BY <2>1 DEF Comparing
    <3>2. new_time(t) = Hi(new_time(t)) * Half + Lo(new_time(t))
      BY NewTime, Halves
    <3> QED
      BY <2>2, <3>1, <3>2
  <2> QED
    BY <2>1, <2>2, <2>3 DEF Comparing, Setting
<1>5. CASE Program \/ Handler \/ Other
  <2>1. Clock /\ due' = due
    BY <1>5 DEF Program, Handler, timer_enable, EnableTimer, EnableGlobal, timer_disable,
                timer_read, ReadReturn, get_elapsed_time, LoadOther, ElapsedReturn,
                Enter, Count, Return, Other
  <2>2. PICK t \in Threads : /\ ~Setting(t) /\ ~Setting(t)'
                             /\ \A u \in Threads : u # t => pc'[u] = pc[u] /\ frame'[u] = frame[u]
    <3>1. CASE Program
      <4>1. /\ ~Setting("main") /\ ~Setting("main")'
            /\ pc'["handler"] = pc["handler"] /\ frame'["handler"] = frame["handler"]
        BY <3>1 DEF Program, timer_enable, EnableTimer, EnableGlobal, timer_disable,
                    timer_read, ReadReturn, get_elapsed_time, LoadOther, ElapsedReturn,
                    At, Running, Call, Goto, Drop, Setting, TypeOK, Threads
      <4> QED
        BY <4>1 DEF Threads
    <3>2. CASE Handler
      <4>1. /\ ~Setting("handler") /\ ~Setting("handler")'
            /\ pc'["main"] = pc["main"] /\ frame'["main"] = frame["main"]
        BY <3>2 DEF Handler, Enter, Count, Return, Enabling, At, Call, Goto, Setting,
                    TypeOK, Threads
      <4> QED
        BY <4>1 DEF Threads
    <3>3. CASE Other
      <4>1. PICK t \in Threads : ~Setting(t)
        BY DEF Setting, Enabling, MainAt, Threads
      <4> QED
        BY <3>3, <4>1 DEF Other, Setting
    <3> QED
      BY <1>5, <3>1, <3>2, <3>3
  <2>3. ASSUME NEW u \in Threads, pc'[u] = "cmpl"
        PROVE  pc[u] = "cmpl" /\ new_time(u)' = new_time(u)
    <3>1. u # t /\ pc[u] = "cmpl" /\ frame'[u] = frame[u]
      BY <2>2, <2>3 DEF Setting
    <3>2. time_increment' = time_increment
      <4>1. ~timer_enable
        BY <3>1, <2>2 DEF timer_enable, At, Running, Enabling, Threads
      <4> QED
        BY <1>5, <4>1 DEF Program, Handler, EnableTimer, EnableGlobal, timer_disable,
                timer_read, ReadReturn, get_elapsed_time, LoadOther, ElapsedReturn,
                Enter, Count, Return, Other
    <3> QED
      BY <3>1, <3>2 DEF new_time
  <2>4. \A u \in Threads : Setting(u)' <=> Setting(u)
    BY <2>2 DEF Setting
  <2> QED
    BY <2>1, <2>3, <2>4, Quiescent
<1>6. CASE UNCHANGED vars
  BY <1>6 DEF vars, timer, Comparing, Setting, Hi, new_time
<1> QED
  BY <1>1, <1>2, <1>3, <1>4, <1>5, <1>6 DEF Next, Driver

-----------------------------------------------------------------------------
LEMMA InitInv == Init => IInv
<1> SUFFICES ASSUME Init PROVE IInv
  OBVIOUS
<1>1. TypeOK
  <2>1. 0 \in Time
    <3> DEFINE s == Half * Half
    <3>1. s \in Nat /\ s > 0
      BY Sizes
    <3> HIDE DEF s
    <3>2. 0 \in 0..(s - 1)
      BY <3>1
    <3> QED
      BY <3>2 DEF s, Time
  <2>2. 0 \in Ticks
    <3> DEFINE s == TickHalf * TickHalf
    <3>1. s \in Nat /\ s > 0
      BY Sizes
    <3> HIDE DEF s
    <3>2. 0 \in 0..(s - 1)
      BY <3>1
    <3> QED
      BY <3>2 DEF s, Ticks
  <2>3. NoFrame \in [timeh : 0..(Half - 1), time : Time, called : 0..MaxTime]
    BY <2>1, Sizes DEF NoFrame
  <2>4. NotLoaded \in [lo : 0..(TickHalf - 1), hi : 0..(TickHalf - 1), ticks : Ticks]
    BY <2>2, Sizes DEF NotLoaded
  <2>5. pc \in [Threads -> Labels]
    BY DEF Init, Labels
  <2>6. frame \in [Threads -> [timeh : 0..(Half - 1), time : Time, called : 0..MaxTime]]
    BY <2>3 DEF Init
  <2>7. mtime \in 0..MaxTime /\ mtimecmp \in Time /\ due \in Time /\ time_elapsed \in Ticks
    BY <2>1, <2>2, Sizes DEF Init
  <2>8. elapsed \in [lo : 0..(TickHalf - 1), hi : 0..(TickHalf - 1), ticks : Ticks]
    BY <2>4 DEF Init
  <2>9. /\ interrupt_q \in BOOLEAN /\ MTIE \in BOOLEAN /\ MIE \in BOOLEAN
        /\ time_increment \in Bases \cup {0}
        /\ op \in {"none", "timer_enable", "timer_read", "get_elapsed_time"}
    BY DEF Init
  <2> QED
    BY <2>5, <2>6, <2>7, <2>8, <2>9 DEF TypeOK
<1>2. (\A t \in Threads : Reading(t)) /\ Enabling
  BY DEF Init, Reading, Enabling, MainAt, Threads
<1>3. Comparing
  BY DEF Init, Comparing, Setting, Threads
<1> QED
  BY <1>1, <1>2, <1>3 DEF IInv

LEMMA InvStep == IInv /\ [Next]_vars => IInv'
<1> SUFFICES ASSUME IInv, [Next]_vars PROVE IInv'
  OBVIOUS
<1>1. TypeOK' /\ Enabling' /\ Comparing'
  BY TypeStep, EnablingStep, ComparingStep DEF IInv
<1>2. \A t \in Threads : Reading(t)'
  BY ReadingStep DEF IInv
<1> QED
  BY <1>1, <1>2 DEF IInv

LEMMA Invariance == Spec => []IInv
  BY InitInv, InvStep, PTL DEF Spec

(***************************************************************************)
(* timer_read returns a time at which it was running, however its loads    *)
(* are interrupted (simple_system_common.c:145-153).                       *)
(***************************************************************************)
THEOREM TimeReadInCall == Spec => []TimerInv
<1>1. IInv => TimerInv
  BY DEF IInv, Reading, TimerInv, ReadInCall
<1> QED
  BY <1>1, Invariance, PTL

(***************************************************************************)
(* The handler never comes before the time set for it: mtimecmp is that    *)
(* time whenever an interrupt can reach it.                                *)
(***************************************************************************)
THEOREM NoTickEarly == Spec => NoEarlyTick
<1>1. ASSUME IInv, [Next]_vars PROVE [Enter => due < mtime]_vars
  <2> SUFFICES ASSUME Enter PROVE due < mtime
    BY DEF vars
  <2>1. \A t \in Threads : ~Setting(t)
    BY <1>1 DEF Enter, IInv, Enabling, MainAt, Setting, Threads
  <2> QED
    BY <1>1, <2>1 DEF IInv, Comparing, Enter
<1> QED
  BY <1>1, Invariance, PTL DEF Spec, NoEarlyTick

(***************************************************************************)
(* A time that has come is pending until another one is being set.         *)
(***************************************************************************)
THEOREM TickNotLost == Spec => DueTickPending
<1> DEFINE P == due # 0 /\ due <= mtime
                /\ (\A t \in Threads : ~Setting(t) /\ ~Setting(t)') => interrupt_q'
<1>1. ASSUME IInv, [Next]_vars PROVE [P]_vars
  <2> SUFFICES ASSUME Next, due <= mtime, \A t \in Threads : ~Setting(t) /\ ~Setting(t)'
               PROVE  interrupt_q'
    BY <1>1 DEF vars
  <2>1. mtimecmp = due
    BY <1>1 DEF IInv, Comparing
  <2>2. Clock
    <3>1. ASSUME NEW t \in Threads PROVE ~CmpMax(t) /\ ~CmpHigh(t) /\ ~CmpLow(t)
      BY <1>1 DEF CmpMax, CmpHigh, CmpLow, At, Goto, Setting, IInv, TypeOK
    <3> QED
      BY <3>1 DEF Next, Driver, Program, Handler, ReadHigh, ReadLow, ReadAgain, timer_enable,
                  EnableTimer, EnableGlobal, timer_disable, timer_read, ReadReturn,
                  get_elapsed_time, LoadOther, ElapsedReturn, Enter, Count, Return, Other
  <2>3. mtime \in Nat /\ due \in Nat
    BY <1>1, Sizes DEF IInv, TypeOK, Time
  <2> QED
    BY <2>1, <2>2, <2>3 DEF Clock, Cycle, Interrupt
<1> QED
  BY <1>1, Invariance, PTL DEF Spec, DueTickPending

-----------------------------------------------------------------------------
(***************************************************************************)
(* The bus.  It needs no invariant: what it answers with is registered in  *)
(* the cycle of the grant, all of it.                                      *)
(***************************************************************************)
LEMMA SmallestNumber ==
    ASSUME NEW S, S \subseteq Nat, S # {}
    PROVE  Min(S) \in S
<1>1. PICK x \in S : \A y \in S : ~(<<y, x>> \in OpToRel(<, Nat))
  BY NatLessThanWellFounded, WFMin
<1>2. \A y \in S : ~(y < x)
  BY <1>1 DEF OpToRel
<1>3. \A y \in S : x =< y
  BY <1>2
<1> QED
  BY <1>3 DEF Min

(* A host that requests is chosen if there is one. *)
LEMMA RequestingHost ==
    ASSUME NEW s
    PROVE  /\ host_sel_req(s) \in Hosts
           /\ \A h \in Hosts : s[h].req => s[host_sel_req(s)].req
<1> DEFINE requesting == {h \in Hosts : s[h].req}
<1>1. 0 \in Hosts /\ Hosts \subseteq Nat
  BY BusAssumption DEF Hosts
<1>2. CASE requesting = {}
  BY <1>1, <1>2 DEF host_sel_req
<1>3. CASE requesting # {}
  <2>1. Min(requesting) \in requesting
    BY <1>1, <1>3, SmallestNumber
  <2>2. host_sel_req(s) = Min(requesting)
    BY <1>3 DEF host_sel_req
  <2> QED
    BY <2>1, <2>2
<1> QED
  BY <1>2, <1>3

(* An address belongs to its device, and to memory if it is nobody's. *)
LEMMA ClaimingDevice ==
    ASSUME NEW addr, addr.block \in Devices \cup {"hole"}
    PROVE  device_sel_req(addr) = IF addr.block = "hole" THEN "ram" ELSE addr.block
<1> DEFINE claiming == {d \in 1..Len(Order) : Order[d] = addr.block}
<1>1. /\ Len(Order) = 3
      /\ Order[1] = "ram" /\ Order[2] = "simctrl" /\ Order[3] = "timer"
  BY DEF Order
<1>2. 1..3 = {1, 2, 3}
  OBVIOUS
<1>3. CASE addr.block = "hole"
  <2>1. claiming = {}
    BY <1>1, <1>2, <1>3
  <2> QED
    BY <1>1, <1>3, <2>1 DEF device_sel_req
<1>4. ASSUME NEW n \in 1..3, addr.block = Order[n] PROVE device_sel_req(addr) = addr.block
  <2>1. claiming = {n}
    BY <1>1, <1>2, <1>4
  <2>2. Max({n}) = n
    BY DEF Max
  <2> QED
    BY <1>4, <2>1, <2>2 DEF device_sel_req
<1> QED
  BY <1>1, <1>3, <1>4 DEF Devices

(* What a signal asks for. *)
LEMMA SignalFields ==
    ASSUME NEW g \in Signals
    PROVE  /\ g.req \in BOOLEAN /\ g.we \in BOOLEAN /\ g.data \in Values
           /\ g.addr.block \in Devices \cup {"hole"} /\ g.addr.offset \in Offsets
  BY BusAssumption

Answered == [h \in Hosts |->
                IF host_rvalid(h)
                THEN <<[err |-> host_err(h), data |-> rdata[device_sel_resp]]>>
                ELSE <<>>]

(* A cycle without a request answers nobody in the next. *)
LEMMA IdleCycle ==
    ASSUME NEW s \in [Hosts -> Signals], NEW f \in Offsets \cup {2}, BusCycle(s, f),
           ~s[host_sel_req(s)].req
    PROVE  Space!NoAccess
<1> DEFINE h == host_sel_req(s)
           d == device_sel_req(s[h].addr)
<1>1. h \in Hosts /\ s[h] \in Signals
  BY RequestingHost
<1>2. d \in Devices
  BY <1>1, SignalFields, ClaimingDevice DEF Devices
<1>3. device_sel_resp' = d /\ rvalid' = [x \in Devices |-> FALSE]
  BY DEF BusCycle, Select
<1>4. Answered' = [g \in Hosts |-> <<>>]
  BY <1>2, <1>3 DEF Answered, host_rvalid
<1>5. mem' = mem /\ mtimecmp_q' = mtimecmp_q
  BY DEF BusCycle, Ram, Timer
<1>6. Space!FetchAnswer
  BY DEF BusCycle, Instruction, Space!FetchAnswer, Offsets, Space!Offsets
<1> QED
  BY <1>4, <1>5, <1>6 DEF Space!NoAccess, Answered

(* The request of the host that is granted is the access. *)
LEMMA GrantedAccess ==
    ASSUME NEW s \in [Hosts -> Signals], NEW f \in Offsets \cup {2}, BusCycle(s, f),
           s[host_sel_req(s)].req
    PROVE  \E h \in Hosts, g \in Signals : Space!Access(h, g)
<1> DEFINE h == host_sel_req(s)
           g == s[h]
           d == device_sel_req(g.addr)
           answer == <<[err |-> d = "timer" /\ error_q', data |-> rdata'[d]]>>
<1>1. h \in Hosts /\ g \in Signals
  BY RequestingHost
<1>2. /\ g.we \in BOOLEAN /\ g.data \in Values /\ g.addr.offset \in {0, 1}
      /\ g.addr.block \in {"ram", "simctrl", "timer", "hole"}
      /\ d = IF g.addr.block = "hole" THEN "ram" ELSE g.addr.block
      /\ d \in Devices
  BY <1>1, SignalFields, ClaimingDevice DEF Devices, Offsets
<1>3. /\ host_sel_resp' = h /\ device_sel_resp' = d
      /\ rvalid' = [x \in Devices |-> x = d]
      /\ rdata' \in [Devices -> Values]
      /\ Ram(d = "ram", g) /\ SimCtrl(d = "simctrl", g) /\ Timer(d = "timer", g)
  <2>1. \A x : (x = d /\ g.req) = (x = d)
    OBVIOUS
  <2> QED
    BY <2>1 DEF BusCycle, Select
<1>4. Answered' = [p \in Hosts |-> IF p = h THEN answer ELSE <<>>]
  BY <1>2, <1>3 DEF Answered, host_rvalid, host_err
<1>5. answer \in Space!Answers(g)
  <2>1. (d = "timer" /\ error_q') = Space!Error(g.addr)
    <3>1. CASE d = "timer"
      <4>1. error_q' = ~(g.addr.offset = 0)
        BY <1>3, <3>1 DEF Timer
      <4>2. (g.addr.block = "timer") = TRUE
        BY <1>2, <3>1
      <4>3. (~(g.addr.offset = 0)) = (g.addr.offset = 1)
        BY <1>2
      <4> QED
        BY <3>1, <4>1, <4>2, <4>3, Zenon DEF Space!Error
    <3>2. CASE d # "timer"
      BY <1>2, <3>2 DEF Space!Error
    <3> QED
      BY <3>1, <3>2
  <2>2. rdata'[d] \in IF g.we THEN Values ELSE {Space!Stored(g.addr)}
    <3>1. CASE g.we
      BY <1>2, <1>3, <3>1
    <3>2. CASE ~g.we /\ d = "ram"
      BY <1>2, <1>3, <3>2 DEF Ram, Space!Stored
    <3>3. CASE ~g.we /\ d = "simctrl"
      BY <1>2, <1>3, <3>3 DEF SimCtrl, Space!Stored
    <3>4. CASE ~g.we /\ d = "timer"
      BY <1>2, <1>3, <3>4 DEF Timer, Space!Stored
    <3> QED
      BY <1>2, <3>1, <3>2, <3>3, <3>4
  <2> QED
    BY <2>1, <2>2 DEF Space!Answers
<1>6. Space!Write(g)
  BY <1>2, <1>3 DEF Ram, Timer, Space!Write
<1>7. Space!FetchAnswer
  BY DEF BusCycle, Instruction, Space!FetchAnswer, Offsets, Space!Offsets
<1>8. Space!Access(h, g)
  BY <1>4, <1>5, <1>6, <1>7 DEF Space!Access, Answered
<1> QED
  BY <1>1, <1>8

(***************************************************************************)
(* However many hosts there are and however their requests follow each     *)
(* other, each access is performed once and answered in the next cycle, at *)
(* the port that made it and nowhere else, by the device it was for: the   *)
(* bus implements AddressSpace (bus.sv:57-123).                            *)
(***************************************************************************)
THEOREM AnsweredWhereAsked == BusSpec => Addressed
<1>1. BusInit => Space!Init
  BY DEF BusInit, Space!Init, Offsets, Space!Offsets, host_rvalid, Devices
<1>2. ASSUME BusNext PROVE Space!Next
  <2>1. PICK s \in Driven, f \in Offsets \cup {2} : BusCycle(s, f)
    BY <1>2 DEF BusNext
  <2>2. s \in [Hosts -> Signals]
    BY DEF Driven
  <2> QED
    BY <2>1, <2>2, IdleCycle, GrantedAccess DEF Space!Next
<1>3. UNCHANGED busVars => UNCHANGED Space!vars
  BY DEF busVars, Space!vars, host_rvalid, host_err
<1> QED
  BY <1>1, <1>2, <1>3, PTL DEF BusSpec, Addressed, Space!Spec
=============================================================================
