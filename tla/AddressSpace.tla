---------------------------- MODULE AddressSpace ----------------------------
(***************************************************************************)
(* The memory map as a program sees it (simple_system_regs.h): whoever     *)
(* makes an access, it is performed when the bus grants it and answered in *)
(* the next cycle, at the port it was made at and nowhere else.  What no   *)
(* device claims is memory once more.                                      *)
(***************************************************************************)
EXTENDS Naturals, Sequences

CONSTANTS
    Hosts,       \* data ports
    Signals,     \* what a data port may ask for
    Values       \* of a word

VARIABLES
    memory,      \* words of memory, by offset
    register,    \* the timer's register
    answers,     \* at each data port, what it is being answered
    fetched      \* the same at the instruction port

vars == <<memory, register, answers, fetched>>

Offsets == {0, 1}

(* The timer claims one register more than it has. *)
Error(addr) == addr.block = "timer" /\ addr.offset = 1

Stored(addr) ==
    CASE addr.block = "timer" /\ addr.offset = 0 -> register
      [] addr.block \in {"ram", "hole"}          -> memory[addr.offset]
      [] OTHER                                   -> 0

(* The answer to a write is only that it happened. *)
Answers(s) == {<<[err |-> Error(s.addr), data |-> d]>> :
                   d \in IF s.we THEN Values ELSE {Stored(s.addr)}}

Write(s) ==
    /\ memory' = IF s.we /\ s.addr.block \in {"ram", "hole"}
                 THEN [memory EXCEPT ![s.addr.offset] = s.data] ELSE memory
    /\ register' = IF s.we /\ s.addr.block = "timer" /\ s.addr.offset = 0
                   THEN s.data ELSE register

Init ==
    /\ memory = [o \in Offsets |-> 0]
    /\ register = 0
    /\ answers = [h \in Hosts |-> <<>>]
    /\ fetched = <<>>

FetchAnswer == fetched' \in {<<>>} \cup {<<memory[o]>> : o \in Offsets}

Access(h, s) ==
    /\ s.req
    /\ Write(s)
    /\ \E a \in Answers(s) : answers' = [g \in Hosts |-> IF g = h THEN a ELSE <<>>]
    /\ FetchAnswer

NoAccess ==
    /\ answers' = [h \in Hosts |-> <<>>]
    /\ FetchAnswer
    /\ UNCHANGED <<memory, register>>

Next == NoAccess \/ \E h \in Hosts, s \in Signals : Access(h, s)

Spec == Init /\ [][Next]_vars
=============================================================================
