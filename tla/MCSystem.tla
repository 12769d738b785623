------------------------------ MODULE MCSystem ------------------------------
(***************************************************************************)
(* What surrounds the core in the simulated system: a behaviour watches    *)
(* the timer with its driver, or the bus with its devices.                 *)
(***************************************************************************)
EXTENDS SimpleTimer, SystemBus

CONSTANT Parts          \* which of the two, "timer" and "bus"

VARIABLE part
allVars == <<part, vars, busVars>>

(***************************************************************************)
(* Reads of every device and of what no device claims, a write to each, to *)
(* both words of memory and to the register the timer does not have; two   *)
(* addresses that are driven without a request.                            *)
(***************************************************************************)
Word(block, offset) == [block |-> block, offset |-> offset]
Load(addr)         == [req |-> TRUE, we |-> FALSE, addr |-> addr, data |-> 0]
Store(addr, d)     == [req |-> TRUE, we |-> TRUE, addr |-> addr, data |-> d]
Idle(addr)         == [req |-> FALSE, we |-> FALSE, addr |-> addr, data |-> 0]

MCSignals ==
    {Load(Word("ram", 0)), Load(Word("simctrl", 1)), Load(Word("timer", 0)),
     Load(Word("timer", 1)), Load(Word("hole", 1)),
     Store(Word("ram", 0), 1), Store(Word("hole", 1), 1), Store(Word("timer", 0), 1),
     Store(Word("timer", 1), 1), Store(Word("simctrl", 1), 1),
     Idle(Word("ram", 0)), Idle(Word("timer", 1))}

(***************************************************************************)
(* The low half of the time wraps every eight cycles, that of time_elapsed *)
(* every two ticks; there is time for two ticks.  The longer time base     *)
(* comes after the driver has enabled the interrupt.                       *)
(***************************************************************************)
MCBases == {1, 10}

-----------------------------------------------------------------------------
MCInit ==
    /\ part \in Parts
    /\ Init /\ BusInit
    /\ part = "timer" => ~error_q

AtTimer == part = "timer" /\ UNCHANGED <<part, busVars>>
AtBus   == part = "bus" /\ UNCHANGED <<part, vars>>

MCNext == (AtTimer /\ Next) \/ (AtBus /\ BusNext)

MCSpec == MCInit /\ [][MCNext]_allVars

=============================================================================
