----------------------------- MODULE SystemBus ------------------------------
(***************************************************************************)
(* The bus (bus.sv) between the data ports of its hosts and the devices of *)
(* the simulated system (ibex_simple_system.sv): memory with a second port *)
(* for the instructions (ram_2p.sv), the control block that stops the      *)
(* simulation (simulator_ctrl.sv) and the timer (timer.sv) as the bus sees *)
(* it.  One step is one clock cycle.                                       *)
(*                                                                         *)
(* An address is the block it lies in and an offset; the timer has one     *)
(* register, and an offset that matches none.  Bytes are not told apart.   *)
(* The simulated system has one host; the bus arbitrates any number.       *)
(***************************************************************************)
EXTENDS Naturals, Sequences, FiniteSets, FiniteSetsExt

CONSTANTS
    NrHosts,
    Signals,     \* what a host may drive: [req, addr, we, data]
    Values       \* of a word

VARIABLES
    host_sel_resp, device_sel_resp,
    held,                   \* what each host still asks for, ungranted
    mem,                    \* memory
    mtimecmp_q,             \* the timer's register
    sim_finish,             \* the control block's countdown
    rvalid, rdata, error_q, \* the devices' answers
    fetched                 \* the memory's answer at its second port

busVars == <<host_sel_resp, device_sel_resp, held, mem, mtimecmp_q, sim_finish,
             rvalid, rdata, error_q, fetched>>

Hosts   == 0..(NrHosts - 1)
Devices == {"ram", "simctrl", "timer"}
Order   == <<"ram", "simctrl", "timer">>      \* bus_device_e, from 0
Offsets == {0, 1}
Nothing == [req |-> FALSE]

ASSUME BusAssumption ==
    /\ NrHosts \in Nat \ {0}
    /\ 0 \in Values
    /\ Signals \subseteq [req : BOOLEAN, we : BOOLEAN, data : Values,
                          addr : [block : Devices \cup {"hole"}, offset : Offsets]]

-----------------------------------------------------------------------------
(* The requesting host of the lowest number; the first if there is none. *)
host_sel_req(s) ==
    LET requesting == {h \in Hosts : s[h].req}
    IN  IF requesting = {} THEN 0 ELSE Min(requesting)

(* The last device that claims the address; the first if there is none. *)
device_sel_req(addr) ==
    LET claiming == {d \in 1..Len(Order) : Order[d] = addr.block}
    IN  Order[IF claiming = {} THEN 1 ELSE Max(claiming)]

(* Mutant of Select: the device to answer is not registered. *)
SelectHostOnly(h, d) ==
    /\ host_sel_resp' = h
    /\ UNCHANGED device_sel_resp

Select(h, d) ==
    /\ host_sel_resp' = h
    /\ device_sel_resp' = d

(* Port a of the memory: a write leaves what it read before at its output. *)
Ram(req, s) ==
    /\ mem' = IF req /\ s.we THEN [mem EXCEPT ![s.addr.offset] = s.data] ELSE mem
    /\ rdata'.ram = IF req /\ ~s.we THEN mem[s.addr.offset] ELSE rdata.ram

(* A write of one to the control register ends the simulation. *)
SimCtrl(req, s) ==
    /\ sim_finish' = IF sim_finish # 0 THEN sim_finish + 1
                     ELSE IF req /\ s.we /\ s.addr.offset = 1 /\ s.data = 1 THEN 1
                     ELSE 0
    /\ rdata'.simctrl = 0

Timer(req, s) ==
    LET match == s.addr.offset = 0
    IN  /\ mtimecmp_q' = IF req /\ s.we /\ match THEN s.data ELSE mtimecmp_q
        /\ rdata'.timer = IF ~req THEN rdata.timer
                          ELSE IF match THEN mtimecmp_q ELSE 0
        /\ error_q' = IF req THEN ~match ELSE error_q

(* Port b of the memory reads what a write in the same cycle replaces. *)
Instruction(f) == fetched' = IF f \in Offsets THEN <<mem[f]>> ELSE <<>>

-----------------------------------------------------------------------------
(* Reset; what has no reset is valid only with an answer. *)
BusInit ==
    /\ host_sel_resp = 0 /\ device_sel_resp = "ram"
    /\ held = [h \in Hosts |-> Nothing]
    /\ mem = [o \in Offsets |-> 0]
    /\ mtimecmp_q = 0
    /\ sim_finish = 0
    /\ rvalid = [d \in Devices |-> FALSE]
    /\ rdata = [d \in Devices |-> 0]
    /\ error_q \in BOOLEAN
    /\ fetched = <<>>

(* A host drives its request until it is granted. *)
Driven == {s \in [Hosts -> Signals] : \A h \in Hosts : held[h].req => s[h] = held[h]}

BusCycle(s, f) ==
    LET h == host_sel_req(s)
        d == device_sel_req(s[h].addr)
        device_req(x) == x = d /\ s[h].req
    IN  /\ Select(h, d)
        /\ held' = [g \in Hosts |-> IF s[g].req /\ g # h THEN s[g] ELSE Nothing]
        /\ rvalid' = [x \in Devices |-> device_req(x)]
        /\ rdata' \in [Devices -> Values]
        /\ Ram(device_req("ram"), s[h])
        /\ SimCtrl(device_req("simctrl"), s[h])
        /\ Timer(device_req("timer"), s[h])
        /\ Instruction(f)

(* $finish is called in the second cycle after the write. *)
BusNext ==
    /\ sim_finish < 3
    /\ \E s \in Driven, f \in Offsets \cup {2} : BusCycle(s, f)

BusSpec == BusInit /\ [][BusNext]_busVars

-----------------------------------------------------------------------------
host_rvalid(h) == h = host_sel_resp /\ rvalid[device_sel_resp]
host_err(h)    == device_sel_resp = "timer" /\ error_q

(***************************************************************************)
(* However the requests of the hosts follow each other, every answer is    *)
(* that of the access granted a cycle before, at the port that made it and *)
(* from the device it was for: the bus implements AddressSpace             *)
(* (bus.sv:76-123).                                                        *)
(***************************************************************************)
Space == INSTANCE AddressSpace WITH
    memory <- mem, register <- mtimecmp_q,
    answers <- [h \in Hosts |->
                   IF host_rvalid(h)
                   THEN <<[err |-> host_err(h), data |-> rdata[device_sel_resp]]>>
                   ELSE <<>>]

Addressed == Space!Spec
=============================================================================
