# A verification development for RISCV-crypto

`RISCV-crypto` is the Ibex RISC-V core (lowRISC) extended with instructions for
cryptography: nine variants of the same core, each with another extension, a small
simulated system around it, and the software that exercises it. This directory holds TLA+
models of its parts, the TLC configurations that check them, and TLAPS proofs. Paths
below are relative to the repository; the hardware is that of
`src/rtl/ibex-crypto-kyber`, the most complete variant (the base core's M extension, the
Kyber instructions), in the configuration of `src/rtl/simple-system-top/ibex_simple_system.sv`:
`RV32MFast`, no write-back stage, no instruction cache, no branch predictor,
`SecureIbex = 1` (memory integrity bits on the bus), PMP instantiated but off. `ResetAll` is
0 whatever `SecureIbex` says (`ibex_top.sv:139-141`), so data registers have no reset value.
The software is that of `src/sw/common`.

## 1. Inventory

| Component | State it keeps | Operations | Interacts with | What is hard |
|---|---|---|---|---|
| Instruction fetch: `ibex_prefetch_buffer.sv`, `ibex_fetch_fifo.sv` | FIFO, three addresses, a held request, outstanding requests with discard marks | request, grant, answer, deliver, branch | instruction bus, IF stage, controller | answers to requests from before a branch; a request held across it; instructions spanning two words, one of which failed; room in the FIFO |
| IF stage: `ibex_if_stage.sv`, decompressor, dummy instructions, branch predictor | IF/ID register | take, flush, redirect | fetch, controller, ID | redirect racing a delivery |
| ID stage: `ibex_id_stage.sv`, decoder, register file | first/multi-cycle state, intermediate registers `imd_val_q`, branch done | execute, stall, retire, write back | all execution units, LSU, controller | several reasons to stall at once; branch set twice |
| Multiplier/divider and Kyber unit: `ibex_multdiv_fast.sv`, with the adder of `ibex_alu.sv` | two state machines, quotient, numerator, counter; `imd_val_q` of the ID stage | multiplication, division, five Kyber instructions, hold | ALU adder, ID stage | three units sharing two registers and one adder; a result held back; the Barrett quotient; timing that must not depend on data |
| Load/store unit: `ibex_load_store_unit.sv` | state machine of five states, last address, control of the access, first half of the data | load, store, misaligned pairs, faults | ID stage adder, data bus, PMP, controller | two requests in flight; a fault on either half; fault without a grant |
| Write-back stage: `ibex_wb_stage.sv` (absent in this configuration) | instruction waiting for its answer | forward, retire | ID stage, LSU, controller | stall on a load, fault after the next instruction issued |
| Controller: `ibex_controller.sv` | state machine of ten states, exception flags, debug and NMI mode | exceptions, interrupts, debug entry, single stepping, WFI, pipeline flush | all stages, CSRs | interrupt withdrawn between two cycles; debug request racing it; priority of faults |
| CSRs: `ibex_cs_registers.sv`, `ibex_csr.sv`, `ibex_counter.sv` | privilege, `mstatus` and its stack, cause and PC registers, PMP, counters, triggers | read, write, save on exception, restore | controller, ID stage | write in the cycle of a hardware update; 64 bit counters read by halves |
| PMP: `ibex_pmp.sv` | none (configuration in the CSRs) | check | fetch, LSU | matching priorities |
| Crypto instructions of the ALU (bit manipulation, AES, SHA, Ascon variants) | none | pure functions | ID stage | the function itself |
| Bus: `bus.sv` | host and device of the last request | arbitrate, decode, route the answer | data port, devices | the answer is routed by a selection a cycle old; what no device claims |
| Devices: `ram_2p.sv`, `simulator_ctrl.sv`, `timer.sv` | memory, answer registers; time, compare, pending interrupt | read, write, stop, tick | bus, instruction port, software | two ports of one memory; an error kept for a later access |
| Runtime: `crt0.S`, `simple_system_common.c` | `time_elapsed`, `time_increment` | start-up, timer driver, interrupt handler, cpu control | timer, CSRs | 64 bit values in 32 bit accesses, interrupted anywhere |
| Kyber: `kyber_round3_ref` | none between calls | key generation, encryption, decryption, encapsulation, decapsulation; transforms, reductions, packing, sampling, three hash back ends | Kyber instructions, generator, hashes | lazy reductions in 16 bits; two builds with other constants; rejection sampling with refills; implicit rejection |
| Random bits: `tinycrypt/ctr_prng.c`, `rng.c` | key, counter, reseed counter | init, reseed, generate | AES, Kyber | reseed limit; one key for output and update |
| Hashes: `tinycrypt/sha256.c`, `sha512.c`, `keccak`, `ascon/ascon_hash.c` | streaming context | init, update, final, squeeze | Kyber | boundaries of blocks; what is left behind; output drawn in pieces |
| Ciphers: `tinycrypt/ctr_mode.c`, `ccm_mode.c`, `ascon` | counter block | encrypt, decrypt, verify | AES, permutation | counters repeated; ambiguous encodings; text released before its tag is checked |
| Test programs, test bench, scripts, synthesis, vendored tools | | | | not part of the program |

What makes each correct: the fetch delivers the instruction stream of the last branch
target and nothing else; the execution units return what the ISA says for every operand,
in a time that depends on nothing it should not, and leave nothing behind for the next
instruction; the load/store unit returns the memory's bytes or the right fault, once; the
pipeline commits the instructions in order and takes traps precisely; the bus performs each
access once and answers it at its port; the timer ticks neither early nor never, whatever
the handler interrupts; Kyber's two builds compute the same, in range, and both sides share
a secret exactly if the ciphertext is intact; the matrix is the one the seed says, whatever
is rejected; no generator, counter or pad is used twice; a hash depends on the message and
not on its pieces; what was altered is not accepted.

## 2. Modules

| Module | Models | Kind |
|---|---|---|
| `Words` | words of `Half * Half` values as pairs of half words, signed readings | operators |
| `KyberArith` | the adder's Kyber modes, the shift-and-add chain, the conditional subtraction and rounding | operators |
| `IsaRef` | what the M and Kyber instructions are to compute | reference |
| `ExecAbs` | an execution unit: issue, work, retire with the ISA's result | abstract specification |
| `MultDiv` | `ibex_multdiv_fast` with `imd_val_q` and the ID stage's handshake | detailed, implements `ExecAbs` |
| `MemAccess` | a load or store: two words at most, each answered or failed, one response | abstract specification |
| `LoadStoreUnit` | `ibex_load_store_unit` with the data bus | detailed, implements `MemAccess` |
| `FetchStream` | what fetching promises: the instructions from the last branch target on | abstract specification |
| `PrefetchBuffer` | prefetch buffer, fetch FIFO, with the instruction bus | detailed, implements `FetchStream` |
| `Isa` | the instructions as the control sees them, their next PC and CSR effects, the trap vectors | operators |
| `Hart` | instructions retire one after the other, traps are taken between two of them, a step is one instruction | abstract specification |
| `Pipeline` | IF/ID register, ID stage, write-back stage, controller, the CSRs of traps and debug | detailed, implements `Hart` |
| `AddressSpace` | the memory map: an access is performed once, in order, and answered at its port | abstract specification |
| `SystemBus` | `bus.sv` with the memory's two ports, the control block and the timer's bus port | detailed, implements `AddressSpace` |
| `SimpleTimer` | the timer, its driver and the interrupt handler | detailed |
| `KyberReduce`, `KyberZetas`, `KyberPoly` | `reduce.c`, the tables and loops of `ntt.c`, `poly.c` and `polyvec.c`, in both builds | operators |
| `KyberNtt` | a product of two polynomials, block by block | detailed |
| `IndCpa` | key generation, encryption and decryption (`indcpa.c`) | detailed, compared with the ring |
| `KyberPack` | the loops that lay out keys, ciphertexts and messages in bytes | detailed |
| `KyberKem` | encapsulation and decapsulation (`kem.c`) with a channel that alters | detailed |
| `MatrixSampler` | `gen_matrix` and `rej_uniform`, with each stream function | detailed |
| `CtrPrng` | `ctr_prng.c` and `rng.c` | detailed |
| `MessageDigest` | the digest of a whole message | abstract specification |
| `HashStream` | `sha256.c`, `sha512.c` | detailed, implements `MessageDigest` |
| `ExtendableOutput` | one stream of output per message | abstract specification |
| `XofStream` | the context of `sha3_api.c` and `ascon_hash.c`, and a caller of theirs | detailed, implements `ExtendableOutput` |
| `Counter` | a number kept as bytes, one per digit | operators |
| `CtrMode` | `ctr_mode.c` | detailed |
| `CcmMode` | `ccm_mode.c`, sender and receiver | detailed |
| `AsconAead` | `ascon_encrypt.c`, `ascon_decrypt.c`, sender and receiver | detailed |
| `*_proofs` | | theorems (section 4) |
| `MC*` | instances for TLC (section 3) | |


**`MultDiv`.** One action per state and operator of the two state machines of
`ibex_multdiv_fast` (`mult_state_q`: `ALBL` to `AHBH` and the four Kyber states;
`md_state_q`: `MD_IDLE` to `MD_FINISH`). A step is a clock edge. `Issue` puts an instruction
into the ID stage, `Held` is a cycle in which it may not execute yet (`mult_en`, `div_en`
low), the others are executing cycles. The registers `imd0` and `imd1` are the ID stage's
`imd_val_q`, which all operators share; the Kyber operators use the ALU's adder, as the
divider does. Words are made of two half words of `Half` values, so that half word products,
signs and the carries of the 34 bit accumulator are the code's. The divider's counter is
kept as its power of two (`one_shift`). Operands are those the ID stage can present
(`LegalInstr`): Kyber operands are reduced coefficients, as the Kyber software
keeps them. `cycles` counts executing cycles, for the property about timing only.

**`LoadStoreUnit`.** One action per state and outcome (`IDLE`, `WAIT_GNT_MIS`,
`WAIT_RVALID_MIS`, `WAIT_GNT`, `WAIT_RVALID_MIS_GNTS_DONE`); the memory is
bytes, so that byte enables, rotation, sign extension and the joining of two words are the
code's. The bus grants at any time, performs the access then, and answers granted
requests in order, correctly, with a bus error or with a failed integrity check; the PMP
refuses either word. `last` is the answer the ID stage sees, `alert` whether an integrity
error was signalled.

**`PrefetchBuffer`.** The two modules have no state machine: everything happens every
cycle. One operator, `Cycle`, is the cycle, its parameters the inputs; `Boot`, `Branch`
and `Fetch` are its uses. A fetched word is represented by its address. The FIFO's
and the queue's valid bits, always set from the bottom, are lengths of sequences.
The bus remembers for each word whether it was requested before the last branch (`old`);
the hardware does not know it, and the properties need it: FENCE.I relies on no such word
being delivered (`ibex_prefetch_buffer.sv:73-75`).

**`Pipeline`.** A step is a clock edge. There is one action per state of the controller
(`RESET` and `BOOT_SET` share `Boot`, `WAIT_SLEEP` and `SLEEP` share `Sleep`); `FLUSH` is
five, one for each thing it does (`FlushException`, `FlushEbreak`, `FlushMret`, `FlushDret`,
`FlushOnly`). Everything else of a cycle (the ID stage's state machine, the flops for
branches, the write-back stage, the controller's request registers, the flush and refill of
the IF/ID register) is part of each action. The inputs of the cycle are one record `in`: is an
instruction fetched, the levels of the interrupt, NMI and debug lines, is the execution unit
done, is the access's request done, how is it answered, and what the adder holds while it
compares. An instruction (`Isa`) is its kind, with a target, whether its branch is taken and
whether it depends on a load before it; each fetch may deliver any of them, so all programs
are covered, those that modify themselves too. The fetch is what `FetchStream` promises, one
address (`pc_if`); the execution unit of `ExecAbs` and the load/store unit of `MemAccess` are
reduced to when they are done and with which error. Two variables are ghosts: `event`, what
the cycle did to the program, and `stepped`, whether an instruction has retired or trapped
since the debugger let go of a hart it steps. `ArchPc` maps the pipeline to `Hart`'s program
counter: the instruction in write-back while it can still fail, else the one in ID unless it
has retired and only waits for its flush, else the next of the fetch. `Hart` says of a stepped
hart that not more than one instruction completes or raises an exception before debug mode
is entered again; interrupts do not count (see the findings). `sync_exc_seen` is the bit of
`cpuctrlsts` that an exception sets and MRET clears, and the event `double` an exception that
finds it set, `double_fault_seen_o`; the bit that remembers it is the same signal kept. A program
can clear the bit (`SEEN_CLR`). Abstracted: causes and `mtval`, which of the maskable
interrupts, operand values (data hazards are the stall alone), `mstatus.tw`, the two-cycle ALU
instructions (as `MULDIV`) and triggers. Addresses are `0 .. NPc - 1` and wrap.

**`SystemBus`.** A step is a clock edge; all devices and the bus act in it. `host_sel_resp` and
`device_sel_resp` are the registers the answer is routed by. Each host drives any of the
given signals in any cycle, with or without a request, and holds a request until it is
granted, as the load/store unit does. An address is a block and an offset. The timer's
`error_q` has no reset and keeps its value between accesses. The instruction port of the
memory is separate, as in `ram_2p.sv`. The simulated system has one host; the bus is written
for any number and the run has two. The abstract specification, `AddressSpace`, sees
`bus.sv:72-75` (no device claims: device 0) as a memory map in which memory appears again.

**`SimpleTimer`.** Each step is a cycle in which the clock runs and the processor does one
step of the driver, of the handler, or nothing. Both run the same functions
(`timer_read`, `timecmp_update`), in a frame each. Halves of the 64 bit registers have
`Half` values. History variables hold what the properties compare with: `called`, when the
function was entered, and `due`, the time the driver means to wait for.

**Kyber.** The two builds, with and without the instructions (`KYBER_ISE`), are one parameter
of every operator of `KyberReduce` and `KyberPoly`. The reference build computes in signed
16 bit integers that wrap, with `montgomery_reduce`, `barrett_reduce` and `csubq` at the
places the code has them. `KyberNtt` transforms a polynomial, multiplies it with a monomial
and transforms it back, a block of a layer a step; the numbers are Kyber's, and the
polynomials stored as the build stores noise: signed in the reference build, canonical in the
other (`Stored`). `IndCpa` computes
keys, ciphertext and message in one action each, over a small ring; matrix, noise and
message are choices. In `KyberPack` a word is the set of its bits, each known by its origin,
so that a shift that loses, doubles or misplaces one shows whatever the values are. In
`KyberKem` hashes are terms (equal only if their arguments are), a ciphertext has two parts,
and the channel may change either slightly (decryption rounds it away), wholly, or exchange
it. `MatrixSampler` names a byte by its position in the stream; whether a candidate is below
q is a choice, and after `MaxRefills` refills of one entry it is.

**Symmetric software.** AES, the compression functions and the permutations are ideal: their
output is named by their input, so that two outputs are known to be equal only if the inputs
were, and what is compared is control: which bytes went where, in which block, behind which
padding, under which counter. `CtrPrng` keeps of a key only that there is one, with ghosts
that record what it has encrypted. `HashStream` is both SHA-256 and SHA-512, which differ in
sizes. `XofStream` has Keccak's context and Ascon's hash and calls them in any pieces. `Counter`
is what the counters of `CtrMode`, `CcmMode` and of `MatrixSampler`'s AES have in common. In
`CcmMode` and `AsconAead` the channel alters the ciphertext, its length, the associated data
or the nonce. A byte on the wire is kept with the pad that hides it. The state of `AsconAead` is
the list of what was in the permutation, and what has been XORed to it since: bytes of the
rate, the separation bit, and which words the key went to (3 and 4 at the start, 1 and 2 at
the end). Sizes are small, the loops, comparisons and early returns the code's.

## 3. What the runs show

A run watches one component, or several that share nothing; then a variable of the `MC`
module (`program`, `port`, `part`) is chosen initially and says which of them moves, the
others resting in their initial states. What such a run shows of one component is what a run
of it alone would.

| Run | Question | Instance |
|---|---|---|
| `muldiv` | Is every product, quotient and remainder right, with and without data independent timing, does the latency then depend on the operation alone, do instructions of all kinds that follow each other leave each other undisturbed, and does each retire? (`ExecSpec`, `DataIndependentTiming`; `UnitInv` is the inductive invariant of the proofs, with the loop invariant of the long division) | six bit words: every operand pair, sign mode and timing mode alone; any three instructions of all kinds, the Kyber lanes one bit wide |
| `kyber` | See the list below. | the instructions and the transform with Kyber's constants and widths; a small ring; two keys; a matrix of four entries |
| `bus_ports` | Instruction port: are the words in flight consecutive (`BufferInv`), is there room for each (`Room`), is the stream that of `FetchStream` (`InstructionStream`), and does fetching go on (`FetchDelivers`)? Data port: do all accesses implement `MemAccess` (`Access`), and does the unit wait for exactly the answers it is owed (`LsuInv`)? | two requests, FIFO of three, four words of code in three layouts; two words of memory, each reachable, denied, failing or corrupted, any two accesses of any size, sign and address |
| `simple_system` | Is the time read one of the call (`TimerInv`), is no tick early (`NoEarlyTick`), none lost (`DueTickPending`)? Is each access performed once and answered at its own port (`Addressed`)? | low half wraps every 8 cycles, 28 cycles, two ticks; two hosts, twelve signals: every device, the hole in the map, reads, writes, and addresses driven without a request |
| `elapsed_time` | (violated) Is the count `get_elapsed_time` returns one that it had? | `time_elapsed` of two bits |
| `pipeline_interrupts` | Are traps precise (`PreciseTraps`: `Hart`), is nothing in flight outside `DECODE` (`PipelineInv`), are double faults detected (`PreciseTraps`), is no access given up (`NoAbandonedAccess`)? | the two stages that are built; every program of the interrupt instructions, user mode, interrupt and NMI lines changing freely |
| `pipeline_debug` | Are traps precise and does single stepping execute one instruction (`PreciseTraps`), and is the PC set once per branch (`NeverDoubleSet`)? | three stages with the branch target adder; the debug instructions, debug requests at any time |
| `pipeline_live` | Does the pipeline always go on (`Progress`), and is an interrupt that CSRRS enables taken before anything else retires (`EnablingIsSeen`)? | three stages, accesses and what depends on a load, the interrupt line constantly up, NMIs changing freely; one address, which neither property looks at |
| `single_step` | (violated) Are interrupts off while single stepping? | two stages; debug instructions, interrupts |
| `branch_without_adder` | (violated) Is the PC set with the target computed? | three stages, no branch target adder |
| `symmetric` | See the list below. | blocks of a few bytes of few values |
| `ascon_matrix` | (violated) Is the matrix sampled from consecutive bytes of Ascon's stream? | blocks of five bytes |

`kyber` asks, of the instructions: do they compute the modular results, held or not
(`ExecSafety`: every first factor with nine second ones, the corners of both
lanes, every input of the sampling and compression instructions). Of the transform: do all
sums fit 16 bits (`CoefficientsFit`) and is the product that of the ring (`ProductIsRight`:
256 coefficients: the largest, an alternation of signs and one without pattern, in both builds).
Of the encryption: does the message come back (`MessageComesBack`), and do the two builds
make the same keys and ciphertexts (`BuildsAgree`). Of the layouts: do they fill their buffer
and come back (`RoundTrip`: all five objects, both parameter sets of the ciphertext). Of the
encapsulation: do the two sides share a secret exactly if the ciphertext is intact
(`SecretIffIntact`), and do coins encrypt one message (`CoinsPerMessage`). Of the sampling:
are triples taken in order, is the matrix complete, in bounds and the transpose of the
other side's, and does it end (`TriplesInOrder`, `MatrixIsExpanded`, `Generated`).

`symmetric` asks: does a seed serve its requests and no more, does no key encrypt a block
twice, does the context explain no past output (`PrngInv`); do positions stay in their
buffers, and is nothing of a message left in a context (`BuffersFit`); is a digest that of the
whole message (`DigestOfWholeMessage`), is output one stream (`OneStream`), is no counter
used twice, over its wrap and partial blocks (`KeystreamOnce`), do text and tag have
different pads (`PadsOnce`); and, of CCM (`Authentic`) and of Ascon's cipher (`AeadAuthentic`), do
any two messages with their associated data differ where they are authenticated, and is
exactly what is intact accepted, with no text left behind (CCM) or reported (Ascon)
otherwise.

The bounds. Six bit words: both half words matter, every carry and sign combination
between them occurs, and the division runs its whole loop. Where Kyber's constants matter
they are real, and theorems cover the operands left out. Three instructions
(`MaxInstr`) are enough for one to leave the registers in any state another can leave them in
and to disturb the next; two accesses (`MaxAccess`) for one to be accepted while the other is
answered. Four words of code are more than the prefetch buffer holds at any time, so that
consecutive words differ. Eight cycles per low half make the driver's three loads, and the
handler in between, straddle a wrap in every way; the clock stops after 28 cycles
(`MaxTime`). The bus bounds nothing: a signal is any of twelve in each cycle. The pipeline
runs bound nothing but the addresses: with two (`NPc`) a saved PC that is one instruction off
is a wrong one, and no more than two instructions are in the pipeline besides the fetch;
`pipeline_live`, which asks nothing of addresses, has one. The
runs differ in the instructions they draw from (`MCPipeline`) and in the request lines that
move; each has ordinary instructions, accesses, branches and faults. Loads are what carries
an integrity error, and with it an NMI, into the pipeline; `pipeline_debug` has stores only.
Not run together are interrupts and debug requests, other than in `single_step`: the saved
states of both multiply beyond what TLC can visit in minutes. The ring of `IndCpa` (modulo
X^4 + 1 and 193) has a root of the right order and room for the noise; it has one layer of
the transform instead of seven, which `KyberNtt` covers. The layouts repeat per group of
words: 16 coefficients hold two groups of each format. Two keys, two encapsulations and one
alteration are the smallest number in which ciphertexts can be exchanged between keys.
The sampler's blocks are once a multiple of three bytes and once not, and four refills exceed
what leaves every remainder. Blocks of the symmetric programs are short so that every
position of a boundary occurs, and messages exceed two blocks.

Only the pipeline runs check for deadlock: the other programs end, by their bounds or by
themselves, and liveness properties say where nothing may stop before.

Fairness. `MultDiv` is weakly fair in executing cycles: the clock runs, and the ID stage
holds an instruction back only while it awaits an answer of the memory or the write-back
stage. `LoadStoreUnit` is weakly fair in grants and answers, which the bus protocol
promises and `bus.sv` keeps (the first host is granted at once, an answer comes in the
next cycle). `PrefetchBuffer` is fair in cycles in which the bus grants what is
requested, answers what is owed and the ID stage is ready: each of them happens again and
again, and branches may still intervene for ever, which `Delivers` allows for.
`Pipeline` is weakly fair in cycles (the clock) and in answers of the execution unit, to an
access's request and to an access, which is what the runs of those units show; it is strongly
fair in taking an instruction that is fetched, because the prefetch buffer keeps a valid
instruction until ID is ready (`Delivers`) while a redirect may intervene. `Progress` is
about an interrupt line that stays up: a core that sleeps for good with none is right.
`MatrixSampler` is weakly fair in steps: a sequential program runs. That it ends also needs
a stream whose bytes are not all rejected, which `MaxRefills` stands for. The others have no
fairness: their properties are safety properties.

### Findings

`elapsed_time`: `get_elapsed_time` (`simple_system_common.c:167`) returns a `volatile
uint64_t` with two loads, and the timer interrupt is enabled around it. When the handler's
increment carries from the low to the high half between them, the result is a count that
never was: 2^32 ticks off. The header says "Returns current global time value"
(`simple_system_common.h:91`). `timer_read`, beside it, has the retry loop that would have
helped, and `TimeReadInCall` proves that it is enough there.

`single_step`: `handle_irq` (`ibex_controller.sv:404`) does not look at single stepping. After
DRET with `dcsr.step` set, the ID stage is empty and `do_single_step_q` low, so a pending
interrupt is taken before the instruction to be stepped; the comment at
`ibex_cs_registers.sv:618` says interrupts are "always disabled during single stepping".

`branch_without_adder`: with the write-back stage and without the branch target adder,
`branch_set_raw_q` (`ibex_id_stage.sv:709`) is set by a branch that still waits in its first
cycle for an access, so the PC is set with the comparison's result and
`branch_jump_set_done_q` then suppresses the target. The comment at `:695` says the target is
calculated in the next cycle. The parameters can be chosen so, but the system built does not.

`ascon_matrix`: `ascon_hash_squeeze` (`ascon/ascon_hash.c:101`) does not permute after the last
block it gives, so the next call begins with that block. `gen_matrix` calls it again whenever
the first blocks did not fill an entry, and then samples bytes a second time, against
the comment that they are "assumed to be uniform random bytes" (`indcpa.c:129`).

Noted while modelling, not in a run of their own:

* The branch of `FLUSH` that is to take an interrupt after a CSR flush
  (`ibex_controller.sv:806-807`) needs `csr_pipe_flush`, which needs an executing instruction, of
  which `FLUSH` has none; the controller returns to `DECODE` first, and `EnablingIsSeen` shows
  that the interrupt is still taken before another instruction retires.
* The register of the assertions at `ibex_controller.sv:966` and `:979` remembers a request that
  lasted one cycle, such as an interrupt masked by the CSRRC in ID, so they are stronger than
  what the controller does; `PreciseTraps` holds all the same.
* MRET clears `sync_exc_seen` whatever trap it returns from (`ibex_cs_registers.sv:749`): after
  an NMI inside the handler of an exception, another exception of that handler is not reported
  as a double fault. `Hart` says the same, an exception since the last MRET.
* The comments on the counters for loads and stores in `ibex_cs_registers.sv:1290-1295` are
  swapped.
* `data_ind_timing_enable(0)` leaves the bit set (`simple_system_common.c:90`, against "otherwise
  disables" in `simple_system_common.h:56`). `timer_enable` called while the timer runs lets
  the handler in between its three writes (`:140`). The loop of `crt0.S:64` that clears `.bss`
  also clears the word after it (`ble` instead of `blt`).
* In the build with the instructions nothing assigns `t` of `poly_tomsg` (`poly.c:213`; `:236` is
  in the other build), but `:239` ORs `t << j` to each byte of the message. The run `kyber` gives
  it zero (`Unassigned` in `MCKyber.cfg`), what GCC gives an unassigned register when it
  optimises; everything is built at `-Os` by default (`common.mk:174`). With
  `Unassigned = {0, 1, 2, 3}` TLC finds `MessageComesBack` violated: a message of zeros comes back
  as ones, and decapsulation would not, as `kyber_KAT.c:69` says, "yield same shared secred". So
  in that build the property holds on the compiler's account, not on the language's.
* `tc_ctr_prng_reseed` does not refuse a null pointer for its entropy (`ctr_prng.c:202`), as
  init does. `randombytes` drops the generator's result and reports success (`rng.c:16`): once
  the reseed limit is reached, buffers stay as they were. `CtrPrng` has both, and `PrngInv` holds
  of the generator itself.
* `kyber_aes256ctr_prf` advances its output by the number of blocks instead of bytes before the
  last partial block (`symmetric-aes.c:75`); the callers ask for whole blocks.
* Ascon's `CRYPTO_ABYTES` is 25 (`kat.h:11`) where the tag has 16 bytes, so lengths are nine
  more than what is written; `AsconAead` has the constant as a parameter, and sender and
  receiver agree.

## 4. What is proved

Proved by TLAPS for all values of the constants that the named assumptions allow.

* `MultDiv_proofs`. First the adder's Kyber modes: the shift-and-add chain is the multiplication
  by 5039, its shifted lanes are the quotients (`ShiftAddChainExact`, `ShiftRight24Exact`); the
  instructions' arithmetic is multiplication, addition and subtraction modulo Q on canonical
  operands (`KyberMulCorrect`, `KyberAddCorrect`, `KyberSubCorrect`). The core of the argument is
  that the Barrett quotient is at most one too small, so one conditional subtraction is enough.
  `Invariance`: `IInv` is an inductive invariant of the unit. It says, beyond types, which
  registers hold what in each state: an instruction's state determines what its intermediate
  registers hold of its operands. `TypeCorrect`, `Resting` (between instructions both machines
  rest in their first state, whatever the last one was, so an instruction starts from the state
  it expects) and `BarrettBounded` (the value before the conditional subtraction is below 2Q)
  follow from it, for every width. `UnitInvariant` adds the long division:
  as long as `one_shift` halves to one, that is for word widths that are a power of two
  (`Halving`), the partial quotient and remainder are those of the numerator's upper bits, and
  `DivResultsCorrect` concludes that DIV, DIVU, REM and REMU write back what the manual says,
  division by zero and the overflow included.
  `UnitImplementsExec`: every behaviour of the unit is one of `ExecAbs`, without its liveness,
  for every operator the decoder sends it. What is new there are the products, which the invariant
  follows through the cross products of the half words and their sign extension in the 34 bit
  accumulator; the compressions, where rounding by `16'hB760` is exact because 2^d * a is a
  multiple of Q only for a = 0; and the noise (`KYBER_CBD2`, `KYBER_CBD3`), whose differences
  need one correction because Q > 3. `HardwareImplementsExec` discharges every assumption of it
  for the hardware's numbers, words of 32 bits and Q = 3329.
* `PrefetchBuffer_proofs`. `RoomForEveryRequest`: types and `Room`, which is inductive with
  them; `fifo_ready`'s overlay is a statement about a sum of lengths, and that sum is what a
  request, a grant, an answer and a branch preserve. `PushAlwaysFits`: the assertion
  `IbexFetchFifoPushFull`. `FetchesConsecutive` (`BufferInv`) and `DeliversTheStream`: the
  buffer implements `FetchStream`, for every number of outstanding requests, memory, layout of
  the code and behaviour of branches and bus. `Consecutive` is not inductive: the invariant
  (`Follows`) adds that what is not discarded was read after the last branch, and that a request
  which waits for its grant and is to be discarded has only discarded ones before it. A branch
  makes the invariant true from any state (`BranchFollows`); a cycle without branch moves the output by
  p words and takes q in (`FetchFollows`), and the word at the output address is then the one at
  the FIFO's head (`HeadIsInstruction`), which is what the refinement needs.
* `LoadStoreUnit_proofs`. `OnlyOwedAnswers`: in each state of the state machine the bus owes
  exactly the answers the unit waits for, whatever faults and timing the bus and the PMP
  have; with types, that is inductive.
  `AccessesAreRight`: every behaviour of the unit is one of `MemAccess`, without its liveness.
  The invariant (`Known`) says for each state what is kept of the first half of an access: the
  answers queued are those for its words, `rdata_q` is the first word's data, `lsu_err_q` says
  whether it could be reached and `addr_last_q` which address `mtval` is to show, a store's bytes
  of every word requested so far are in memory, and an integrity error of the first word has been
  reported. Starting and answering map to `Start` and `Answer`, each other step to `Proceed`. What
  byte enables and lanes do (`EnabledBytes`) and how a load is put together (`LoadedBytes`) are
  arithmetic modulo the size of the memory and stated as lemmas.
* `Pipeline_proofs`. `NothingInFlight` (`PipelineInv`), `AccessNotAbandoned` and `PcIsSetOnce`, for
  every program and number of addresses, two and three stages, with and without an adder for
  branch targets. `PipelineInv` is not inductive: that no access is in write-back and ID is in its
  first cycle when the controller leaves `DECODE` needs to know what may be there together. The
  invariant adds (`Flight`) that an instruction past its first cycle has nothing before it in
  write-back, so that no older fault can send the controller away, that a fault is remembered only
  for the `FLUSH` that follows, and that a branch request is flopped only into `DECODE` or
  `FLUSH`. The lemmas show that more cycles to come mean a stall and no flush (`MoreCyclesStall`),
  and that an access under way always executes (`UnderWayExecutes`).
  `TrapsArePrecise`: the pipeline implements `Hart`, under the mapping `ArchPc`, with two stages,
  or with three and an adder for branch targets. Its invariant, `PreciseInv`, adds five parts: the
  instructions in write-back, ID and fetch follow each other in the program, the fetch at the
  target once the PC is set (`InOrder`); the PC is set for branches and jumps only, and before
  they leave ID (`SetOrWillBe`); what the controller remembers in `FLUSH` still holds of the
  instruction it finds in ID (`Flushing`); debug mode is entered at the fetch only from outside,
  at the instruction in ID only from inside or by its EBREAK (`DebugEntry`); and while a debugger
  steps nothing follows the first instruction (`SingleStep`).
  Each action maps to one of `Hart`'s or to none. The configuration left out is where the finding
  `branch_without_adder` bites: `PreciseIfTarget` proves the traps precise in every configuration
  for behaviours in which branches set the PC with their target, and `BranchesSetTheirTarget`
  that all do in the configurations above. `EnabledIsTaken` (`EnablingIsSeen`) holds in
  every configuration: with interrupts enabled and a line up, nothing is left in the pipeline
  that could retire, since the instruction that enables them waits in `FLUSH` (`EnabledInv`).
* `SimpleSystem_proofs`. `TimeReadInCall`, `NoTickEarly` and `TickNotLost`, for every width of the
  halves, time base and interleaving. The invariant follows `timer_read` from load to load (what
  a frame holds is a bound below or the time at some moment of the call) and says that `mtimecmp`
  is the time waited for, except while it is written, which the program does with its interrupt
  disabled and the handler with all of them disabled.
  `AnsweredWhereAsked` (`Addressed`): the bus implements `AddressSpace`, for any number of hosts.
  No invariant is needed: everything an answer depends on is registered in the cycle of the grant.
* `Streams_proofs`, of what is encrypted, sampled and authenticated block by block.
  `GeneratorSafe`: `PrngInv`, for every size of block, counter and limits that lets the blocks of
  one request and the seed be told apart (`PrngAssumption`).
  `CounterModeNeverRepeats` (`KeystreamOnce`) and `CounterModeTyped`: counter mode gives no byte
  of keystream twice under a key, wherever the counter starts, over its wrap and every partial
  block; the lemmas on the digits of a counter, with which the sampler and CCM share theirs, say
  that fewer steps than its period never bring one back.
  `MatrixExpanded` (`MatrixIsExpanded`): `gen_matrix` stays within its buffer, completes its
  entries and uses the nonce of the entry, transposed or not, with each stream function.
  `SamplerFollowsStream` (`TriplesInOrder`): with Keccak and AES (`Kinds \subseteq {"shake", "aes"}`;
  Ascon's stream is the finding `ascon_matrix`), the buffer holds at all times the stretch of
  the stream that begins where the last triple ended (`BufferIsStream`). It assumes that AES's
  counter does not wrap within an entry (`CounterSuffices`; the code's has 32 bits).
  `CcmPadsNeverRepeat` (`PadsOnce`): the counters of a payload start at 1 and end before they
  wrap, since longer payloads are refused, and the tag's is 0. `CcmIsAuthentic` (`Authentic`): a
  step of `ccm_cbc_mac` can be undone, because the places of a partial block that were not
  written are zero and the first blocks hold the lengths, so equal MACs have equal messages. The
  invariant (`CcmInv`) says that what is on the wire is the payload and its MAC under their pads,
  from which every alteration shows either in what is authenticated or in the MAC itself.
  `AsconIsAuthentic` (`AeadAuthentic`): absorbing can be taken back byte by byte from the state it
  leaves. The places not absorbed to are zero (`Clean`), the byte that ends a text is not, and
  only at the start of absorbing has a state a key or the separation bit but no data (`Begins`,
  `Marked`); so two messages that end in the same state have the same nonce, associated data and
  text (`AfterUndone`). A changed byte of text shows in the decrypted text and so in the tag, a
  changed byte of tag in the comparison, and after a cut a byte stands where the tag's first is
  expected that has another pad. The invariant (`AeadInv`) is that what is on the wire is what the
  sender computed of its message.
* `KyberSoftware_proofs`. `MontgomeryCorrect` and `BarrettCorrect`: the reductions of the
  reference build return a representative in their range for every argument the code's comments
  allow; `ReducedCanonical`: with `csubq` it is the canonical one. `SecretsRight`
  (`SecretIffIntact`) and `CoinsForOneMessage` (`CoinsPerMessage`): encapsulation and decapsulation,
  for any number of sessions, messages and keys and every alteration by the channel. The
  invariant (`KemInv`) says of every value where it came from: key pairs are those generated,
  what was sent is an encapsulation to one of them, what is on the wire is that or an alteration
  of it, and the coins of every encryption are those derived from its message and key. The
  argument is that a pre-key belongs to one key and one ciphertext, and that re-encryption gives back the
  ciphertext only if its sender made it.
  `StreamOfMessage` (`OneStream`) and `ContextTyped`: every call of Keccak's and Ascon's hashes and
  streams is a step of `ExtendableOutput`. The invariant (`XofInv`) says that, while it absorbs, the
  context is the one that taking the whole message at once would leave (`Taken`), and that while it
  squeezes it has given out the stream's beginning. That absorbing in pieces is
  absorbing at once is a fact about folds, proved as in `HashStream_proofs` below.
  `TransformFits` (`CoefficientsFit`): for every polynomial below Q in magnitude and every
  monomial, no sum leaves 16 bits, in either build. The invariant (`NttInv`) goes block by
  block: in layer l, with blocks of `len`, the coefficients before `start` are below (l + 1) Q in
  magnitude and the others below l Q; the index k of the root and the position are tied by
  2 k len = 256 + start on the way there and by 2 (k + 1) len + start = 512 on the way back, where
  every coefficient stays below Q in magnitude because each sum is reduced. The seven layers stay
  within 8 Q, and a sum more within half of R (18 Q < R in `NttAssumption`); the arguments of
  `montgomery_reduce` lie in the range of `MontgomeryCorrect`.
  `LayoutsComeBack` (`RoundTrip`): keys, ciphertexts and messages fill their buffers bit by bit, and
  every word unpacked is the word packed, for any number of polynomials and coefficients. That the
  tables shift each bit where it belongs is checked entry by entry (`PackEntries`,
  `UnpackEntries`): word j of a group has its bits moved b j - 8 i places into byte i. So a group
  is a window of one stream in which bit c of word n is bit n b + c (`GroupPacked`,
  `GroupUnpacked`). The sections of every object lie end to end from its first byte to its last
  (`LayoutTiled`), so that each byte is in exactly one. The invariant (`PackInv`): the bytes below
  the group being packed are what the stream says, and, once all are, the words below the group
  being unpacked have been read and are right.
* `HashStream_proofs`. `DigestIsOfWholeMessage`: for every message and every way to cut it into
  updates, for every size of block and length field with `HashConstants`, the streaming hash
  implements `MessageDigest`; `StructIsTypedAndErased`: the struct is well formed between calls,
  and nothing is left in it after `final`. The struct is read as the bytes it stands for
  (`Text`: blocks compressed, then bytes left over). A byte taken appends itself to them, whether
  or not it fills the block, so an update appends its data; padding appends the mark, the zeros
  and the length, in one block (`DigestInOne`) or two (`DigestInTwo`), byte by byte what
  FIPS 180-4 says, and the blocks of that are the ones compressed (`BlocksOfSpelled`). An update
  is a fold over a sequence, which the community modules define by recursion over sets; that it
  takes the bytes in order, once each, is proved by induction over sets of numbers, as instances of
  the theorem that the numbers are well founded.

Assumptions: `WordsAssumption`, `KyberAssumption`, `PrefetchAssumption`, `TimerAssumption`,
`PrngAssumption` and their like in the modules that declare the constants, and the facts about
constants the theorems name (`Halving`, `MemConstants`, `HashConstants`, Kyber's own numbers).
They hold of the code's values, and every run evaluates those of the modules it extends. Of the
software: a counter has digits of some base (`CounterAssumption`); counter mode starts at any of
its values (`CtrAssumption`); the sampler has entries, coefficients and the rate of each stream
function (`SamplerAssumption`); the two bytes that pad a message have no bit in common
(`XofAssumption`); CCM's base is above one, its tags have one of the sizes, and nonces and data
are bytes (`CcmAssumption`); the transform has Kyber's degree, reduced roots, 18 Q < R and operands
below Q in magnitude (`NttAssumption`); polynomials, coefficients and hashes are not empty and the
coefficients a multiple of eight, as the loops over groups of eight take them
(`PackAssumption`); Ascon's rate is positive, the byte that pads is not zero,
what is added to a length is at least the tag, and nonces and data are bytes (`AeadAssumption`).

Model-checked only:

* `DataIndependentTiming`, whose width in bits is defined by a power of two of which the provers
  know nothing;
* `ProductIsRight`, `MessageComesBack` and `BuildsAgree`: that seven layers of butterflies multiply
  in the ring is an identity of sums of products, each layer of which would need an induction
  over its coefficients;
* `BuffersFit` and `DigestOfWholeMessage` as the run states them, conjunctions over components;
  each part is proved of its own specification (`CounterModeTyped`, `ContextTyped`,
  `StructIsTypedAndErased`, `DigestIsOfWholeMessage`);
* all liveness (`Generated`, `FetchDelivers`, `Progress`), and the liveness parts of `ExecAbs` and
  `MemAccess`. Liveness, ENABLED and RECURSIVE operators are out of the proof system's reach; a
  fold is not, but each takes an induction of its own.

## 5. Not modelled

* The pure combinational parts of the ALU (comparator, shifter, bit manipulation, AES, SHA and
  Ascon variants) have no state; the decompressor and decoder are tables. The other core
  variants differ from the one modelled in these.
* The instruction cache, branch predictor, dummy instructions and the lock-step core are not
  instantiated in this configuration. The PMP is off; the load/store unit's model lets it
  refuse any word.
* Of the CSRs: counters, triggers, the address map.
* Register file, test bench, scripts are storage and tools; start-up is straight line code.
* AES, the compression functions of SHA-2, the permutations of Keccak and Ascon: pure functions
  with tables, checked by known answers in the repository; the models take them as ideal.
  The distribution of Kyber's noise is arithmetic of the instructions (`KYBER_CBD2`,
  `KYBER_CBD3`), which `kyber` checks; which bytes it is made of is not modelled.
* `src/tools` holds vendored programs (parts of binutils and a modified CACTI) which generate
  encodings and estimate the area of memories. They are by far the most lines of the repository's
  C and C++, and no part of the system; the test programs under `src/sw` call what is modelled,
  with the vendor's tests and known answers. Most of the repository's C and C++ is therefore
  out of reach of any model of this system, whose core is SystemVerilog.

## 6. Plan

Done: the units of the core and their contracts, the pipeline with single stepping, the bus,
the timer, Kyber and the symmetric software; the proofs of section 4.

Left, in this order:

1. `Pipeline`: its composition with `FetchStream` and `MemAccess` as instances instead of `pc_if`
   and `in`; operands (the register file's writers and the forwarding of the write-back stage).
2. CSRs: counters read by halves while they count, triggers.
3. Proofs: the product of `KyberNtt`, a layer at a time.
