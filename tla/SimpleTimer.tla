---------------------------- MODULE SimpleTimer -----------------------------
(***************************************************************************)
(* The memory mapped timer (timer.sv) and its driver                       *)
(* (simple_system_common.c): a program that enables and disables the       *)
(* periodic interrupt and reads the time, and the handler that interrupts  *)
(* it.                                                                     *)
(*                                                                         *)
(* Every step is one clock cycle, in which the processor does one access   *)
(* to the timer, one other step of the driver, or nothing it concerns.     *)
(* The 64 bit registers are accessed by halves; a half has Half values.    *)
(*                                                                         *)
(* timer_enable is called while the interrupt is disabled, as its callers  *)
(* do: its three writes are not protected against the handler.             *)
(***************************************************************************)
EXTENDS Naturals

CONSTANTS
    Half,        \* values of half a timer register (2^32)
    TickHalf,    \* values of half of time_elapsed (2^32)
    Bases,       \* time bases the program asks for
    MaxTime      \* bound: the clock stops here, long before it overflows

ASSUME TimerAssumption ==
    /\ Half \in Nat \ {0, 1} /\ TickHalf \in Nat \ {0, 1} /\ MaxTime \in Nat
    /\ Bases \subseteq Nat \ {0}
    /\ MaxTime < Half * Half /\ \A b \in Bases : MaxTime + b < Half * Half

VARIABLES
    mtime, mtimecmp, interrupt_q,    \* the timer
    MTIE, MIE,                       \* interrupt enables: mie, mstatus
    time_elapsed, time_increment,    \* the driver's variables
    op,          \* what the program called
    pc,          \* next step, of the program and of the handler
    frame,       \* timer_read's variables, in each: current_timeh, the time
                 \* read, and (history) mtime when it was called
    elapsed,     \* the halves get_elapsed_time has loaded, and (history)
                 \* time_elapsed when it was called
    due          \* history: the last time given to timecmp_update

timer  == <<mtime, mtimecmp, interrupt_q>>
enable == <<MTIE, MIE>>
vars == <<timer, enable, time_elapsed, time_increment, op, pc, frame, elapsed, due>>

Threads == {"main", "handler"}
Time    == 0..(Half * Half - 1)
Ticks   == 0..(TickHalf * TickHalf - 1)
Hi(t)   == t \div Half
Lo(t)   == t % Half

-----------------------------------------------------------------------------
(***************************************************************************)
(* The timer, in every cycle: the interrupt stays until mtimecmp is        *)
(* written.  cmp is what mtimecmp becomes, we whether it is written.       *)
(***************************************************************************)
(* Mutant of Interrupt: a write does not clear it. *)
InterruptStays(we) == mtime >= mtimecmp \/ interrupt_q

(* Mutant of Interrupt: it is lost when nobody takes it at once. *)
InterruptPulse(we) == mtime = mtimecmp /\ ~we

Interrupt(we) == (mtime >= mtimecmp \/ interrupt_q) /\ ~we

Cycle(we, cmp) ==
    /\ mtime < MaxTime
    /\ mtime' = mtime + 1
    /\ mtimecmp' = cmp
    /\ interrupt_q' = Interrupt(we)

Clock         == Cycle(FALSE, mtimecmp)
WriteLow(v)   == Cycle(TRUE, Hi(mtimecmp) * Half + v)
WriteHigh(v)  == Cycle(TRUE, v * Half + Lo(mtimecmp))

(* Variables of a function that has not been called. *)
NoFrame == [timeh |-> 0, time |-> 0, called |-> 0]
NotLoaded == [lo |-> 0, hi |-> 0, ticks |-> 0]

Goto(t, label) == pc' = [pc EXCEPT ![t] = label]

(* The handler runs to its end: interrupts are disabled meanwhile. *)
Running(t) == IF pc["handler"] # "idle" THEN t = "handler" ELSE t = "main"
At(t, label) == Running(t) /\ pc[t] = label

-----------------------------------------------------------------------------
(***************************************************************************)
(* timer_read: the high half is read before and after the low one, and     *)
(* all again when it has changed.                                          *)
(***************************************************************************)
Call(t) ==
    /\ frame' = [frame EXCEPT ![t] = [NoFrame EXCEPT !.called = mtime]]
    /\ Goto(t, "high")

Drop(t) == frame' = [frame EXCEPT ![t] = NoFrame]

ReadHigh(t) ==
    /\ At(t, "high")
    /\ frame' = [frame EXCEPT ![t].timeh = Hi(mtime)]
    /\ Goto(t, "low")
    /\ Clock
    /\ UNCHANGED <<enable, time_elapsed, time_increment, op, elapsed, due>>

ReadLow(t) ==
    /\ At(t, "low")
    /\ frame' = [frame EXCEPT ![t].time = frame[t].timeh * Half + Lo(mtime)]
    /\ Goto(t, "again")
    /\ Clock
    /\ UNCHANGED <<enable, time_elapsed, time_increment, op, elapsed, due>>

(* Mutant of Unchanged: no second look at the high half. *)
UnchangedOrNot(t) == TRUE

Unchanged(t) == frame[t].timeh = Hi(mtime)

(* In increment_timecmp the new time follows. *)
ReadAgain(t) ==
    /\ At(t, "again")
    /\ Goto(t, IF ~Unchanged(t) THEN "high"
               ELSE IF t = "main" /\ op = "timer_read" THEN "read"
               ELSE "cmp")
    /\ Clock
    /\ UNCHANGED <<enable, time_elapsed, time_increment, op, frame, elapsed, due>>

(* timer_read returns to the program. *)
ReadReturn ==
    /\ At("main", "read")
    /\ Goto("main", "idle")
    /\ Drop("main")
    /\ op' = "none"
    /\ Clock
    /\ UNCHANGED <<enable, time_elapsed, time_increment, elapsed, due>>

-----------------------------------------------------------------------------
(* timecmp_update: no time in between is to come early. *)
new_time(t) == (frame[t].time + time_increment) % (Half * Half)

CmpMax(t) ==
    /\ At(t, "cmp")
    /\ WriteLow(Half - 1)
    /\ Goto(t, "cmph")
    /\ UNCHANGED <<enable, time_elapsed, time_increment, op, frame, elapsed, due>>

CmpHigh(t) ==
    /\ At(t, "cmph")
    /\ WriteHigh(Hi(new_time(t)))
    /\ Goto(t, "cmpl")
    /\ UNCHANGED <<enable, time_elapsed, time_increment, op, frame, elapsed, due>>

LowHalf(t) == Lo(new_time(t))

CmpLow(t) ==
    /\ At(t, "cmpl")
    /\ WriteLow(LowHalf(t))
    /\ due' = new_time(t)
    /\ Drop(t)
    /\ Goto(t, IF t = "main" THEN "mie" ELSE "count")
    /\ UNCHANGED <<enable, time_elapsed, time_increment, op, elapsed>>

-----------------------------------------------------------------------------
(***************************************************************************)
(* The program: calls of the driver, in any order, as long as the timer is *)
(* enabled only when it is disabled.                                       *)
(***************************************************************************)
timer_enable ==
    /\ At("main", "idle") /\ ~MTIE
    /\ op' = "timer_enable"
    /\ time_elapsed' = 0
    /\ time_increment' \in Bases
    /\ Call("main")
    /\ Clock
    /\ UNCHANGED <<enable, elapsed, due>>

EnableTimer ==
    /\ At("main", "mie")
    /\ MTIE' = TRUE
    /\ Goto("main", "mstatus")
    /\ Clock
    /\ UNCHANGED <<MIE, time_elapsed, time_increment, op, frame, elapsed, due>>

EnableGlobal ==
    /\ At("main", "mstatus")
    /\ MIE' = TRUE
    /\ Goto("main", "idle")
    /\ op' = "none"
    /\ Clock
    /\ UNCHANGED <<MTIE, time_elapsed, time_increment, frame, elapsed, due>>

timer_disable ==
    /\ At("main", "idle")
    /\ MTIE' = FALSE
    /\ Clock
    /\ UNCHANGED <<MIE, time_elapsed, time_increment, op, pc, frame, elapsed, due>>

timer_read ==
    /\ At("main", "idle")
    /\ op' = "timer_read"
    /\ Call("main")
    /\ Clock
    /\ UNCHANGED <<enable, time_elapsed, time_increment, elapsed, due>>

(***************************************************************************)
(* get_elapsed_time: two loads, in the order the compiler chooses.         *)
(***************************************************************************)
HalfOf(half) == IF half = "hi" THEN time_elapsed \div TickHalf ELSE time_elapsed % TickHalf

get_elapsed_time ==
    /\ At("main", "idle")
    /\ op' = "get_elapsed_time"
    /\ \E half \in {"lo", "hi"} :
           /\ elapsed' = [NotLoaded EXCEPT ![half] = HalfOf(half), !.ticks = time_elapsed]
           /\ Goto("main", IF half = "lo" THEN "hi" ELSE "lo")
    /\ Clock
    /\ UNCHANGED <<enable, time_elapsed, time_increment, frame, due>>

LoadOther ==
    /\ \E half \in {"lo", "hi"} :
           /\ At("main", half)
           /\ elapsed' = [elapsed EXCEPT ![half] = HalfOf(half)]
    /\ Goto("main", "elapsed")
    /\ Clock
    /\ UNCHANGED <<enable, time_elapsed, time_increment, op, frame, due>>

ElapsedReturn ==
    /\ At("main", "elapsed")
    /\ Goto("main", "idle")
    /\ elapsed' = NotLoaded
    /\ op' = "none"
    /\ Clock
    /\ UNCHANGED <<enable, time_elapsed, time_increment, frame, due>>

-----------------------------------------------------------------------------
(* simple_timer_handler: entered between any two steps of the program. *)
Enter ==
    /\ interrupt_q /\ MTIE /\ MIE
    /\ MIE' = FALSE
    /\ Call("handler")
    /\ Clock
    /\ UNCHANGED <<MTIE, time_elapsed, time_increment, op, elapsed, due>>

Count ==
    /\ At("handler", "count")
    /\ time_elapsed' = (time_elapsed + 1) % (TickHalf * TickHalf)
    /\ Goto("handler", "mret")
    /\ Clock
    /\ UNCHANGED <<enable, time_increment, op, frame, elapsed, due>>

Return ==
    /\ At("handler", "mret")
    /\ MIE' = TRUE
    /\ Goto("handler", "idle")
    /\ Clock
    /\ UNCHANGED <<MTIE, time_elapsed, time_increment, op, frame, elapsed, due>>

(* A cycle of something else. *)
Other ==
    /\ Clock
    /\ UNCHANGED <<enable, time_elapsed, time_increment, op, pc, frame, elapsed, due>>

-----------------------------------------------------------------------------
Init ==
    /\ mtime = 0 /\ mtimecmp = 0 /\ interrupt_q = FALSE
    /\ MTIE = FALSE /\ MIE = FALSE
    /\ time_elapsed = 0 /\ time_increment = 0
    /\ op = "none"
    /\ pc = [t \in Threads |-> "idle"]
    /\ frame = [t \in Threads |-> NoFrame]
    /\ elapsed = NotLoaded
    /\ due = 0

Driver(t) ==
    \/ ReadHigh(t) \/ ReadLow(t) \/ ReadAgain(t)
    \/ CmpMax(t) \/ CmpHigh(t) \/ CmpLow(t)

Program ==
    \/ timer_enable \/ EnableTimer \/ EnableGlobal \/ timer_disable
    \/ timer_read \/ ReadReturn
    \/ get_elapsed_time \/ LoadOther \/ ElapsedReturn

Handler == Enter \/ Count \/ Return

Next == (\E t \in Threads : Driver(t)) \/ Program \/ Handler \/ Other

Spec == Init /\ [][Next]_vars

-----------------------------------------------------------------------------
Labels == {"idle", "high", "low", "again", "read", "cmp", "cmph", "cmpl", "mie",
           "mstatus", "lo", "hi", "elapsed", "count", "mret"}

TypeOK ==
    /\ mtime \in 0..MaxTime /\ mtimecmp \in Time /\ interrupt_q \in BOOLEAN
    /\ MTIE \in BOOLEAN /\ MIE \in BOOLEAN
    /\ time_elapsed \in Ticks
    /\ time_increment \in Bases \cup {0}
    /\ op \in {"none", "timer_enable", "timer_read", "get_elapsed_time"}
    /\ pc \in [Threads -> Labels]
    /\ frame \in [Threads -> [timeh : 0..(Half - 1), time : Time, called : 0..MaxTime]]
    /\ elapsed \in [lo : 0..(TickHalf - 1), hi : 0..(TickHalf - 1),
                    ticks : Ticks]
    /\ due \in Time

(***************************************************************************)
(* timer_read returns a time at which it was running, however long its     *)
(* three loads take and whatever interrupts them.                          *)
(***************************************************************************)
ReadInCall ==
    \A t \in Threads : pc[t] \in {"read", "cmp"} =>
        frame[t].called <= frame[t].time /\ frame[t].time < mtime

TimerInv == TypeOK /\ ReadInCall

(***************************************************************************)
(* The handler runs only when the time it waits for has come: neither the  *)
(* interrupt pending since reset nor the values mtimecmp has between two   *)
(* writes reach it.                                                        *)
(***************************************************************************)
NoEarlyTick == [][Enter => due < mtime]_vars

(***************************************************************************)
(* Once that time has come the interrupt is pending, and stays so until    *)
(* the handler or the program sets another one.                            *)
(***************************************************************************)
Setting(t) == pc[t] \in {"cmph", "cmpl"}

DueTickPending ==
    [][due # 0 /\ due <= mtime
       /\ (\A t \in Threads : ~Setting(t) /\ ~Setting(t)') => interrupt_q']_vars

(***************************************************************************)
(* get_elapsed_time "Returns current global time value": one that          *)
(* time_elapsed had during the call.                                       *)
(***************************************************************************)
ElapsedInCall ==
    pc["main"] = "elapsed" =>
        LET result == elapsed.hi * TickHalf + elapsed.lo
        IN  elapsed.ticks <= result /\ result <= time_elapsed
=============================================================================
