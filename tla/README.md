# A verification development for tapasco-riscv

tapasco-riscv packages RISC-V cores as processing elements (PEs) of TaPaSCo: a
core, its local memories, a small controller through which a host starts it and
collects its result, and a debug path from OpenOCD to the core's debug module,
on an FPGA or in a Verilator simulation. This directory models the parts of the
repository that carry its own logic, model-checks them with TLC and proves part
of the results with TLAPS. Paths below are relative to the repository.

## 1. The system

```
 host program --AXI4-Lite--> AXIGate --> interconnect --> RVController --> core reset, IRQ
                                             ^                                |
                                             +------ core (PE program) <------+
                                                       |
                                        axi_ctrl + BRAM (local memories), axi_offset,
                                        or CacheSystem --AXI4--> memory of the FPGA board

 OpenOCD --socket--> riscv_debug_generator (Rust) --> DTM registers on the FPGA
 OpenOCD --socket--> dm_interface threads --FIFO--> DMI_Handler --> verilated core
```

| Component | State it keeps | Operations | Where it is hard |
|---|---|---|---|
| `SizedFIFO.v` | ring of words, head, tail, output register, flags | enqueue, dequeue, clear, reset, in any combination per clock edge | wrap at a depth that is no power of two; enqueue with dequeue at capacity; four blocks that must agree |
| `mkRVController.v` | start bit, two reset outputs, grace counter, reset-server request, job counter, result and argument registers, bus FIFOs | a write or a read per cycle, start rule, end-of-job rule, grace countdown | halves of a write come in any order; several rules write one register; fixed 120 cycles between the interrupt and the reset of the core |
| host and PE programs | steps left, the values read, the loaded program, `out_buf` and `out_idx`, text in the board's memory | load a program, launch a job, compute, print, trap, raise the interrupt, fetch the result, exit half way | the host runs concurrently with a controller that still ends the last job; registers and `.bss` outlive a job |
| `mkAXIGate.v` | FIFOs of both directions | forward or block a request, return answers | answers come from two places; priorities can starve |
| `axi_ctrl.v` | burst count and address, held write half, response flags | read burst, write, in four versions | address and data in different cycles; the BRAM must be enabled per beat |
| `axi_offset.v` | none | replaces the upper bits of an address | undoes `RAM_OFFSET`, which programs add |
| `mkCacheSystem.v`, data side | the AXI frontend's burst registers, tags, dirty words and lines of a direct-mapped write-back cache, the backend's burst, FIFOs of two between them | a beat in or out, lookup, eviction, fill, merge of a write, burst to or from memory; each a rule of the generated code | beats that start inside a line or straddle two; a write is answered before it is in the cache; tags change before the line is moved; a reset that keeps tags and lines |
| `mkCacheSystem.v`, instruction side | the same frontend and backend, a read-only cache that serves hits under a miss | lookup, miss queue, completion buffer | answers overtake each other inside and must leave in order |
| DMI handler, testbench interface (`debugging/logdbg/common`) | request under way, latency and idle counters, ports, queue | `tick()` per clock, request decoding | fixed latency instead of a handshake; `tick()` stops the clock while it waits |
| OpenOCD server (`dm_interface.cpp`) | threads, shared FIFO, `run_server`, `connectionActive` | accept, receive, answer, stop | threads of all connections share a FIFO without addresses; `try_lock`; join order |
| simulator main programs | step of `main`, cycle limit, stop flag, handler, server | options, reset, clock loop, cycles of `-s` and `-n`, listening, shutdown | waits for a server it starts later; loops that do not look at the stop flag |
| `riscv_debug_generator.rs` | socket, debug module registers left by earlier requests | bind, accept, serve a request as a script of register accesses, timeouts, Ctrl+C | stale argument registers; read timeout; socket file left behind |

What makes them correct, in a line each: the FIFO is a bounded queue; a
launched job ends exactly once, with its own result; the host cannot reach the
controller's interrupt register; a memory, with or without a cache before it,
returns what was written; each debug request that is served is performed once, on
the register selected at that point, and its answer goes, in order, to the client
that asked; stopping always works.

## 2. Modules

| Module | Models | One step is |
|---|---|---|
| `SizedFIFO` | `IP/Controller/src/SizedFIFO.v` (the copies of AXIGate and CacheSystem have the same logic) | one clock edge with its RST, CLR, ENQ, DEQ, D_IN |
| `BoundedQueue` | what a FIFO promises | one queue operation |
| `RVController` | `IP/Controller/src/mkRVController.v` | one clock edge: every rule whose WILL_FIRE holds |
| `MCRVController` | RVController under any bus master, with history variables | the same |
| `PEPrograms` | `host_template.c`, `simple_sum_host.c` and `.cpp`, the programs of `examples/PE` and `rv_template.c` as scripts; `axi_offset.v`, `OutBuf` | (operators) |
| `PEJob`, `MCPEJob` | RVController composed with host processes and the core that run these scripts, `rv_pe.h`, `startup.s` and the interconnect; with the jobs to run | a clock edge or a step of host or core |
| `JobService` | what a PE promises its host | launch, end, collect |
| `AXIGate`, `AXIGateSystem` | `IP/AXIGate/mkAXIGate.v`; with a host and a slave | one clock edge |
| `AxiCtrl`, `MCAxiCtrl` | `IP/axi_ctrl/src/axi_ctrl.v` and a BRAM; with a master and a reference memory | one clock edge |
| `FIFO2` | `IP/CacheSystem/src/FIFO2.v` | (operators) |
| `CacheFrontend` | the data frontend of `mkCacheSystem.v`: AXI beats to lines and back | one clock edge |
| `CacheMem` | the line memory of either cache (`BRAM1.v`) | one clock edge |
| `DataCache` | the data cache with its tag and dirty arrays | one clock edge |
| `CacheBackend` | the data backend: lines to AXI bursts and back | one clock edge |
| `DataCacheSystem`, `MCDataCache` | the three on one clock, between a core and a memory with a reference copy; with bursts to issue | one clock edge |
| `InstructionCache`, `MCInstructionCache` | the instruction cache: lookups under misses, completion buffer, miss queue; with lines to fetch | one clock edge |
| `DMIHandler` | `DMI_Handler.tpp`, `dm_testbench_interface.cpp`, the request decoding of `dm_interface.cpp`, the shared FIFO | a branch of `tick()`, a rising edge, an operation of another thread on the FIFO |
| `DebugTransport` | what a debug connection promises | send, perform, execute, drop, reply, take |
| `SimMain` | `main` of the CVA6 and SCR1 simulators as a script of runs of the clock and steps between them, composed with DMIHandler | half a clock cycle, or a step of `main` |
| `MCDMIHandler` | SimMain with the refinement mapping to DebugTransport | the same |
| `OpenOCDServer` | listening, receiving and answering threads of `dm_interface.cpp` | one blocking call or critical section |
| `RiscvDebugGenerator` | `riscv_debug_generator.rs` | one access of a debug register, or a socket event |
| `*_proofs` | theorems about the module of that name; `HardwareBlocks_proofs` those about `SizedFIFO` and `AxiCtrl`; `DataCache_proofs` those about `DataCacheSystem`; `DebugServers_proofs` those about `OpenOCDServer` and `RiscvDebugGenerator`; `RVController_proofs` also those about `PEJob`, `DMIHandler_proofs` those about `SimMain` | |
| `SequenceLemmas` | lemmas about queues that the proofs share: images under a function, chains of queues | |

Registers, rules and functions keep the source's names. Verilog blocks are
modelled per clock edge: the primed value of each register is computed from the
old state, as the non-blocking assignments do, and a rule's guard is its
`WILL_FIRE`. C++ is modelled per critical section and per blocking call; a
blocking call that times out and finds its flag unchanged is a stuttering step.
`PROJECT.json` maps each definition to its lines.

Composition and abstraction go together. `SizedFIFO` implements `BoundedQueue`
(proved), so the controller and the gate use sequences of bounded length for
their FIFOs. `SimMain` with `DMIHandler` implements `DebugTransport` (proved), so
`OpenOCDServer` lets the simulation thread take the FIFO's requests in order, with
one answer to each that is served and none to the others, which it drops in their
turn; which of the two a request is, the client chooses in the model. `PEJob`
implements `JobService` (proved).

Definitions named `X_Something` directly before `X` are altered forms of `X`,
each a mistake one could make in that code; every property below is violated
when the listed one takes X's place.

## 3. What TLC checks

| Run | Properties | Shows |
|---|---|---|
| `sizedfifo` | FlagsAgree, ImplementsQueue, UnwarnedEnqDeqKeeps | the circuit is a bounded queue in every sequence of operations, its flags tell the truth, and an enqueue together with a dequeue on a full FIFO loses nothing |
| `rvcontroller` | TypeOK, StartNeverMeetsReset, PairedInOrder, EndedJobWasSignalled | under any sequence of write beats and resets the n-th address meets the n-th data, no FIFO overflows, the rules that start and end a job never meet, and a job is ended only after its interrupt |
| `pejob` | NoSpuriousInterrupt, PrintedText, ImplementsService, ArgsStable, LaunchedJobEnds | host processes, programs and controller together, one job after the other: each launched job ends once, with its own result or an error code, and what it printed is in its own buffer, whatever earlier jobs and processes that gave up have left |
| `axigate` | ReadsAnsweredInOrder, AckAfterEffect, OnlyWindowReached, RequestsAnswered | answers are the right ones in order, a write is acknowledged after its effect, a blocked one never reaches the slave (on the write address channel), nothing starves |
| `simulator` | AccessedOnce, OneAtATime, ImplementsTransport, PendingAnswered, InterruptStops | every request that is served is one access on the selected register, answered in order, and the others are dropped in their turn; SIGINT ends both simulators from every point and with every command line |
| `openocd_server` | AnswersGoHome, SurvivesDisconnect, RequestAnswered, DisconnectCleansUp, StopEnds | for clients that connect when the last connection is closed on both sides and leave at any time: until one leaves while an answer is due to it, each answer reaches its sender and no write raises SIGPIPE; a request that is served is answered but for the named losses, closed connections are cleaned up, and a stop ends the process |
| `generator` | RequestMeansWhatItSays, ReadIsAnswered | the accesses a request becomes have its meaning on a halted hart, whatever earlier requests left in the module; a request that was read is carried out to its last access and answered if the client is still there |
| `axictrl` | ReadsReturnMemory, WritesLand, ResponsesMatchWrites | the four versions behave as a memory, for a master that keeps to what they support |
| `datacache` | ReadsSeeWrites, CleanLinesAgree, NothingLost, NothingLeftBehind, Served | the core reads what it last wrote although writes are answered early and lines come and go; a line thrown away agrees with memory; no line or answer of one transaction is left for the next; every transaction ends |
| `instructioncache` | FetchesInOrder, SlotsOwed, TagsAgree, FetchServed | hits overtake misses inside and lines leave in the order of the requests, each slot of the completion buffer is filled exactly once, a tag stands for its line from the moment it is set, every request is served |
| `server_overlap` (violated) | AnswersGoHome | see section 5 |
| `generator_buswrite` (violated) | RequestMeansWhatItSays | see section 5 |

### Bounds

- `sizedfifo`: depth 4, so the ring has three words: head and tail wrap, meet
  empty and full, and differ by every amount; two values tell elements apart.
- `rvcontroller`: the grace period is 3 cycles (load, count, end are distinct),
  FIFOs hold 2, the job counter has one value (no property reads it), the
  addresses are the start and the interrupt register, on which all rules but
  plain storage depend.
- `pejob`: FIFO depth of 8 as in the code, registers of the examples, two pairs of
  arguments, two output buffers, so that a job finds the text and the pointer of
  another. The grace period is 6 cycles, more than the longest write takes to reach
  the register, so that interrupt, countdown, end of the job and the next launch
  are apart; `Turnaround = 6`: section 5 says why. Four pairs of host and program;
  words have 12 bits and addresses 16, so that results, error codes, buffers and
  `RAM_OFFSET` differ. A printed string is one unit of text, a buffer holds 4; of
  the lines `read_dm` prints two are kept, and its loop reads one word.
- `axigate`: FIFOs of 2 and two transactions in flight fill every FIFO; addresses
  lie on both sides of the threshold and at it. The host's transactions in flight
  stay on one side; the block design (`common/place_tapasco_control.tcl`)
  allows it one in flight, which is less.
- `simulator`: one idle cycle, latency 2 as in the code, a module that needs 3
  edges (the slowest one the handler is right for), two messages in the FIFO. Both
  simulators with and without `-o` and `-n 2`, one with `-s 1`, one with an option
  that is not valid; the reset takes 2 cycles and CVA6 runs 1 more before its
  handler exists (100 and 1000 in the code; nothing but the clock moves in them).
- `openocd_server`: two connections, two requests each, any of them served or
  dropped, one failing call of accept, recv or write. `Clients = "alone"`: a client
  connects when the last one has closed and its threads have ended; it may leave at
  any time, also while it waits, so the second connection meets what an abandoned
  request left. A client sends nothing behind a request that is due an answer, but
  may send behind one that is not, so that one `recv` returns two requests.
- `generator`: one register, two addresses, two words; two calls of
  `enable_debug`, so that a second one meets what the first left. Clients leave, are
  silent, reset the connection or send what cannot be decoded at any time.
- `axictrl`: three addresses (wrap included), two words, bursts of up to 3 beats.
- `datacache`: lines of four words, which are two beats, so that bursts begin on
  and off a beat, straddle two lines and write one word of a beat; two sets of two
  tags, so that a line is evicted dirty and clean and a set is filled while the
  other is used; three bursts in all, two reads in flight. The counters keep their
  widths (`LineMod`, `BeatMod`). Data is modelled by words: strobes of
  single bytes and addresses inside a word are left out. The memory answers each
  beat of a write, as `axi_ctrl` does, and a reset comes when nothing is on its
  way (section 5 on both).
- `instructioncache`: two sets of lines of two words and three addresses, two of
  which share a set, so that a line is replaced while requests for it are in
  flight; a completion buffer of 2 (10 in the code), which wraps, fills up with
  misses and mixes hits and misses; memory holds one request beside those in the
  FIFOs. Frontend and memory may wait at every edge.

No run uses symmetry. `CHECK_DEADLOCK FALSE` appears for the server and the
generator, whose processes exit; everything else is checked for deadlock.

### Fairness

- `PEJob`: weak fairness of the clock with prompt bus partners, and of the next
  step of host and program: hardware is clocked, programs run on. A process that
  exits early is never assumed.
- `AXIGateSystem`: weak fairness of a cycle in which host and slave are ready,
  the AXI rule that a partner does not hold off for ever.
- `DataCacheSystem`, `InstructionCache`: weak fairness of a cycle in which core (or
  frontend) and memory are ready, the same rule; that anything is asked for is
  not assumed.
- `SimMain` (with `DMIHandler`): weak fairness of the steps of `main`, one thread
  that never sleeps except in `tick()`; not of requests or the signal.
- `OpenOCDServer`: weak fairness of every thread (each blocking call has a
  timeout of a second) and strong fairness of `pop_response`, since a `try_lock`
  that fails is retried and the lock is held only for single queue operations. A
  client takes an answer that has arrived; that it connects, sends or leaves, or that
  a call fails, is never assumed.
- `RiscvDebugGenerator`: weak fairness of the serving thread's accesses and
  answer. Clients, signals and resets are never assumed to happen.

## 4. What TLAPS proves

The theorems hold for every value of the constants under the assumptions named
beside the CONSTANTS (`TLC` evaluates these in the runs).

- `HardwareBlocks_proofs`, of `SizedFIFO`, for every depth of at least 2 and a pointer width that fits
  (`DepthAssumption`, `WidthAssumption`, which the Verilog asserts itself):
  `TypeCorrect`, `FlagsCorrect`, `Refinement`, `EnqDeqKeeps`. The inductive invariant is
  TypeOK and RingInv: pointers stay inside the ring, the two flags are exclusive,
  they imply head = tail and its converse, and a ring that is not empty has an
  output word. Types alone are not enough: head = tail means empty or full, and
  only the flags tell which. For the refinement, `ContentsShape` expresses the
  abstract queue as output register followed by the ring from head; three lemmas
  show that a dequeue takes its tail, an enqueue appends and the two together
  rotate it, each by comparing lengths and elements, with the wrap as a case.
- In the same module, of `AxiCtrl`, for every number of addresses, every set of words and
  bursts of every length, in the four versions of the controller: `ReadsRight`, `WritesRight`,
  `ResponsesRight`. CtrlInv: the word of the next beat is at the RAM's output, those of the
  later beats at the addresses behind the address register. They assume a master
  that reads no burst from a read-write controller and sends the two halves of a
  lite write together (`~BurstsReadWrite`, `~SplitLite`), as the properties fail for
  others (section 5).
- `RVController_proofs`, for every word width, FIFO depth of at least 2 and grace
  period of at least 2: `Invariance` (TypeOK and RunInv), `StartResetExclusion`,
  `NoSelfRestartThm`. RunInv is what makes the exclusion hold: the end-of-job rule
  needs a grace period, a grace period needs a running core, the start rule
  needs one in reset. It is inductive only since the interrupt requires the start
  bit and since a bus write has priority over the end of the job.
  With the history of MCRVController also `WritesPaired` and `EndSignalled`. HistInv
  adds PairedInOrder itself (read as: what is accepted and not yet written is the
  image of the request FIFO followed by the half that waits) and that a grace
  period runs only for a job whose interrupt was raised, which a start cannot
  undo as a start never meets a grace period.
  In the same module, as `PEJob` extends the controller, the jobs: `InterruptsExpected`
  and `ArgumentsStable`, for every set of host and PE programs paired, every width,
  FIFO depth, grace period and pace of the host (the value of `Turnaround`, zero
  too). JobInv follows the one write and the one read of the interconnect: each
  is offered, in the controller's FIFO, or performed and to be answered
  (WritePlace, ReadPlace); it is the next step of the program that waits for it,
  to the register of that step (Owned); the core runs only between the start of
  a job and its interrupt, when the host waits, and is silent in reset and in the
  grace period but for the answer to the write that caused the interrupt
  (Control). That a host program never writes while a job runs, and the core
  never when none does, is then a matter of whose next step it is. The proof
  has one lemma for the two buses, one for the registers, one per action, and for
  the clock edge one per part of JobInv.
  On top of it `JobsServed`: the jobs implement `JobService`. ServiceInv says what the
  registers hold for the job under way: the host's operands as soon as it has
  written them, what the core has read of them so far, and, when the program has
  no result left to write, its result or an error code in the return register. JobInv
  is what makes it inductive, as the core's reads and writes take effect cycles
  after they were issued. A launch, an end and a collection then each map to the
  abstract step, by the phase that the host's remaining steps and the pending
  interrupt determine, and every other step to a stutter. The theorem leaves out
  one pairing, `simple_sum` under the host template (`host_template.c` writes no
  arguments, so the program would add what the process before has left), and
  assumes that `None` is no number, transfer or program (`NoneIsNothing`).
- `DMIHandler_proofs`, for every latency of at least 1, every debug module that
  answers within `waitForResponseLatency + 1` edges and every set of requests:
  `Invariance`, `OneAccessPerRequest`, `QueueOfOne`. The invariant joins PulseInv
  (dmi_req is high exactly from the tick that sets it to the next; what is left
  of the module's answer never exceeds what is left of the wait, by clock phase)
  and OneAtATime; neither AccessedOnce nor OneAtATime is inductive alone, as the
  second is what keeps a fetch from happening during an access.
  `SimulatorAccesses` carries both over to the simulators: `main` admits some of the
  handler's behaviours and adds falling edges before the handler exists, which
  keep the invariant because no access is under way then (ScriptInv: `exitAndCleanup`
  is the last step of every command line's script, so the handler is never removed
  while the clock still runs). `TransportKept`: the simulators implement
  `DebugTransport`. AccessInv says that the ports carry the access the handler
  remembers, that the word read is on them when the answer is due, and that what
  the interface queues asks what the request asked. With OneAtATime the transport's
  queue is the FIFO with at most one request before it (Shape), so each of the
  three ways a request leaves it takes its oldest. `DebugTransport` keeps requests
  that are not served in its queue and drops them in their turn.

- `AXIGateSystem_proofs`, for every address range, threshold, base, FIFO depth and
  number of transactions in flight: `ReadsOrdered`, `AcksHonest`, `WindowOnly`. RdInv
  and WrInv say that what the host waits for is the concatenation of the queues it
  passes through (a chain: the gate's input, the slave's, its answers, the gate's
  output), each read through what that stage does to an address. A step moves one
  element to the next queue, which leaves the concatenation as it was (`Moved` of
  SequenceLemmas). All transactions in flight are on one side of the threshold,
  which the model's host keeps to and which the proof needs: a blocked request
  skips the slave's queues. A write has an address chain and a data chain, which
  the acknowledgements it has been given tie together.
- `DebugServers_proofs`, of `OpenOCDServer`, for every set of connections, number of
  requests, served or dropped, and number of failing accepts, receives and writes:
  `AnswersReachAsker`, `NoBrokenPipe`. Both assume `Clients = "alone"`, a client that
  connects when the last connection is closed on both sides; for two at once the run
  `server_overlap` shows the first to be false, for one that follows too soon see
  section 5. Clients leave whenever they like. What the theorems claim ends with the
  first client that leaves while an answer is due to it (LeftEarly); what the code
  does then is in section 5. ServerInv says what holds for as long as nobody has left
  early (Orderly; that leaving early is for good, EarlyForGood, carries it over a step):
  at most one connection is in use; the request whose answer is due is at exactly one
  of seven places (sockets, variables of the threads, queues) or lost; every other
  request, wherever it is, is of the dropped kind; and no response but the one
  due exists, so that a thread whose client has left finds nothing to write.
- In the same module, of `RiscvDebugGenerator`, for every set of registers, addresses and words:
  `EffectOfRequests`, `RequestsMean`. GenInv has, for every kind of request, one
  disjunct per place in its sequence of accesses, with what the accesses before it
  have put into the debug module: nothing a former request or a reset left there
  is used. `RequestsMean` assumes words of one byte, where the system bus write of
  the code is exact (`generator_buswrite` shows a wider one that is not);
  `EffectOfRequests` needs no such assumption and says what is written instead.

- `InstructionCache_proofs`, for every geometry, number of slots, set of requests and
  number of requests in memory: `EverySlotOwed`, from `SlotInvariance`. SlotInv has the
  types, a line memory whose writes replace whole lines (ArrayInv), the slots in
  the order they were reserved, the requests behind them and what the frontend expects
  as one sequence (OrderInv), and where the line of a slot that waits comes from:
  a miss of that token, or the one hit at the line memory (OwedInv, PipeInv).
  Neither OwedInv nor the counters of MissLen are inductive alone: that a returning
  line finds its slot empty needs the one, that the miss queue never overflows
  what the memory owes needs the other.
  `FetchesKeepOrder` and `ValidTagsAgree` add LineInv: the k-th outstanding miss asks
  for the k-th line memory owes, delivered lines are those asked for, and a tag stands
  for its line counted with the writes that still wait for the line memory. They
  assume `~Reload`, a memory that no host rewrites while the cache keeps its lines;
  with it they are false (section 5). All assume requests that
  read whole lines (`RequestsAssumption`) and a `None` that is no line or tag
  (`NoneIsNothing`).
- `DataCache_proofs`, for every geometry of whole beats, set of read and write bursts,
  pace of core and memory, and number of answers to a write from none to one per
  beat: `CleanLinesStay`, from `DataCacheInvariant`. A line with no dirty word is
  thrown away by `start_miss` without a write, so it must hold what memory holds.
  That is not inductive: the fill that makes it true is asked for, queued, read beat
  by beat and shifted into a line long before the array is written, and a write-back
  changes memory meanwhile. DataInv adds Types; ArrayInv (the line memory has one request,
  which is queued, read, written or answered, and only in the states that wait for
  it); and MemInv: memory has one request of the cache, at exactly one place
  (AtCache, AtBackend, InBurst, Answered) with the beats of a burst counted on both
  sides of the bus. A fill's beats and its shifted register are the words of its
  line, and a write under way is Harmless: the line at its address is gone or dirty. The
  proof follows a request from place to place (Onwards), then one step of the cache's
  rules by what they do to tags, dirty words and array (CleanStep). Assumed are
  `~ResetAnytime`, a reset only when nothing is under way, since one between the
  writes of a tag and of its line leaves a clean tag without its line (section 5); at
  most 256 beats per line (`BurstAssumption`), the limit of an AXI burst and of
  the backend's 8-bit count of write responses; and a `None` that is no value (`NoneIsNothing`).
  `NothingStaysBehind` proves NothingLeftBehind: a line or answer left in a queue would
  be taken by the next transaction for its own. The invariant on top of DataInv is
  CountInv, a balance: lines on their way (in the four queues between frontend and
  cache, and one in the cache while it is not idle), plus the lines still to be asked
  for, equal the lines the burst being read and the bursts in `rd_req_fifo` still
  need; in a write there is one on its way exactly while the frontend waits for it.
  The balance needs BurstPlace, where in its burst the frontend is: the two
  state machines count lines independently, one from the first and last address of the
  burst, the other by noticing, beat by beat, that the next word is in another line, and
  both modulo what their counters hold. So it assumes `CountableReads`: bursts
  read start at a word and have 1 to BeatMod - 1 (255) beats in at most LineMod (32)
  lines. Past that the frontend's 8- and 5-bit counters wrap: it asks for fewer lines than
  it waits for. AnswerGiven adds that the backend answers the cache in the cycle in
  which a write completes, so its queue is not empty while it still goes to rest.

TLC checked each of these invariants as an invariant of the component's run
before it was proved. `NoSelfRestart`, the types of `SizedFIFO` and `DMIHandler`,
RunInv, SlotInv, DataInv, CountInv and `EffectsMatch` are proved and have no run of their own.

Only model-checked:

- all liveness, as fairness and ENABLED are outside the prover;
- of `PEJob`: PrintedText, as what is printed is a selection from a sequence, a
  recursion over data;
- of the data cache: ReadsSeeWrites and NothingLost. They compare with the order in
  which the core wrote, so an invariant for them has to follow each beat from the core
  through the frontend's gathering into lines, and each line asked for to the beats it
  is cut into, on top of DataInv and CountInv. CleanLinesStay is the part of them that
  concerns memory, NothingStaysBehind the part that concerns how many lines there are.

## 5. Where the code disagrees with itself

Two disagreements have a run that shows them:

- `server_overlap`: `dm_interface.cpp:267` says "only 1 connection at a time"; two
  clients are accepted and answers go to whichever connection pops first.
- `generator_buswrite`: `riscv_debug_generator.rs:332`, "Everything at default",
  writes 0 to sbcs, which selects 8-bit accesses: a system bus write stores a byte.

Others met while modelling; the constants named make the models show them:

- A host that launches within 120 cycles of the interrupt loses the job: the
  start bit is still set, and `resetAll` (`mkRVController.v:515`) then clears it.
  With `Turnaround = 0` in `PEJob.cfg`, `LaunchedJobEnds` is violated. A host
  that reacts through a driver takes longer than 120 cycles.
- `readargs` prints without `initPrint`. `out_buf` and `out_idx` are in `.bss`, which
  is not loaded and not cleared by `startup.s`, so its text goes behind that of the
  last job that printed, in that job's buffer (`rv_pe.h:101`): with
  `<<"cpp", "readargs">>` among the jobs, `PrintedText` is violated. A program that
  prints and is run by a host program that passes no buffer writes to the last
  buffer's address, which stays in ARG3.
- `print` reads the buffer's address as an `int`; on a 64-bit core an address with
  bit 31 set is widened with ones, and `axi_offset` clears 16 bits only
  (`rv_pe.h:113`): with such an address in `Buf`, `PrintedText` is violated.
- `rv_template.c` returns whatever RETL held, and `simple_sum_host.cpp:82` shows RETH,
  which no program writes, as the first bytes of the program.
- `setIntr` writes the interrupt register right after the stores of `print`, without
  a fence (`rv_pe.h:59`). The stores go to another bus; the model lets them take
  effect in order, as the in-order cores do that wait for a store's answer.
- `dm_testbench_interface.cpp:58` says a request "will eventually push something
  onto the DMI request queue"; halt, step and reset, most DTM addresses and all
  direct requests push nothing and are not answered. The requests are part of the
  `simulator` run; `ImplementsTransport` has them dropped, without effect and answer.
- `push_dmi_response` copies a status of which SUCCESS is 0 into the field
  `success`; an access that worked is reported with `success = 0`
  (`dm_testbench_interface.cpp:80`, against `dm_interface.hpp:103`).
- `process_control` queues a resume with the byte offset 0x40 as converter address,
  which `DMI_Handler` rejects (`dm_interface.cpp:146`): action `HandleInvalid`.
- The cycles of `-n` never end by themselves: the handler waits for a request
  before the server listens (`sim_ariane_custom_tb_top.cpp:169`).
- A client that leaves while an answer is due to it makes the simulator write to a
  closed socket and die of SIGPIPE (`dm_interface.cpp:246`), or, when its threads
  ended first, its answer stays in the FIFO and the next connection sends it to
  its own client (`dm_interface.cpp:229`): without the condition `NobodyLeftEarly`,
  `SurvivesDisconnect` and `AnswersGoHome` are violated.
- An `accept` that fails ends the listening while `run_server` stays true
  (`dm_interface.cpp:276`): connections are served on and no new one is accepted.
- Of the requests one `recv` returns the first is decoded and the others are lost
  (`dm_interface.cpp:192`); `RequestAnswered` names that case (`behind`).
- A client that reconnects within a second may have its answer taken by the old
  connection's thread, whose write raises SIGPIPE (`dm_interface.cpp:246`): with
  `Clients = "sequential"`, `SurvivesDisconnect` is violated.
- A client silent for a second, a reset connection or a message that cannot be
  decoded ends the debug server and leaves its socket file, so the next
  `enable_debug` cannot bind (`riscv_debug_generator.rs:127`); a request of an unknown
  type panics (line 169) and leaves the file too.
- A read burst of the read-write AXI4 `axi_ctrl` repeats its first word, since
  `bram_en` (`axi_ctrl.v:226`) lacks the term the read-only version has: with
  `BurstsReadWrite = TRUE`, `ReadsReturnMemory` is violated.
- `axi_ctrl.v:158` lets a lite write's data follow its address and says it "should
  still use same address"; it goes to the read address: with `SplitLite = TRUE`,
  `WritesLand` is violated.
- The cache's backend waits for an answer per beat of a write burst
  (`mkCacheSystem.v:6487`) and its frontend gives one per beat; AXI has one per
  burst, and `common/place_local_memory.tcl:88` declares bursts of one beat. With
  `AnswersPerBurst = 1`, `Served` is violated.
- `RST_N` of the cache is the core's reset (`common/connect_common_ports.tcl:20`).
  It clears registers and FIFOs, not tags, dirty words or lines. A reset during
  a transfer finds a tag whose line never arrived: with `ResetAnytime = TRUE`,
  `NothingLost` is violated. A reset at rest keeps lines valid that
  the host may have changed in memory between two jobs; the model's host does not.
  The same holds for the instruction cache: with `Reload = TRUE` the host loads
  another program during the reset, and `TagsAgree` and `FetchesInOrder` are
  violated.
- A write on the instruction port is taken by `RL_i_cache_core_req` and never
  answered (`mkCacheSystem.v:3195`, `3429`), so the frontend waits for ever.
  Cores do not write there, and the modelled frontend does not.
- Read addresses that are no multiple of four can ask for a second line that is not
  consumed (`mkCacheSystem.v:6781`); a write whose straddling word has no strobe
  shifts the beats after it, as `count` is not cleared then; a burst over more than
  31 lines overflows the line count. The modelled core issues none of these.

## 6. Not modelled

- Tcl block design, packaging scripts and patches of third-party cores, the
  generated Cap'n Proto code, linker scripts and the start-up code of single cores:
  no state machine of the repository's own. Parameters were read from the Tcl.
- In the simulators: tracing. In the server: message contents, failing socket
  creation, and a request that a `recv` returns in two parts.
- The second copy of the AXI frontend and backend, before and behind the
  instruction cache: the data side has the same rules, and a composition of
  all three is beyond the states TLC can visit here.
- The command line wrapper `riscv_debug_generator_example`.
- In the debug server: debug modules whose abstract commands outlast an access (the
  code does not poll). In `axi_ctrl`: a read that starts inside a burst.
- Protection bits, ids and the value of byte strobes on the buses. In the cache,
  strobes of single bytes.

## 7. Plan

Done, in this order: SizedFIFO and its refinement, RVController, the job
protocol, the gate, the debug path of the simulators, the debug server,
`axi_ctrl`, the data side of the cache, the example programs and their printing with
`axi_offset`, the simulators' main programs, the instruction cache. Next:

1. Theorems: on top of DataInv and CountInv, the order of reads and writes through the data cache's
   frontend (ReadsSeeWrites, NothingLost).
2. `AXIGate` composed with `RVController` and the host, one threshold apart.
