------------------------------- MODULE PEJob --------------------------------
(***************************************************************************)
(* Jobs on a processing element: a host program, the core with the program *)
(* it was given, and the controller between them, clock cycle by clock     *)
(* cycle.  Host and core issue one access at a time and wait for its       *)
(* answer; the interconnect (a Xilinx IP) carries one write and one read   *)
(* at a time to the controller, presenting the address and the data of a   *)
(* write in whatever cycles it likes.  The host's accesses are all below   *)
(* the gate's threshold, so AXIGate only delays them.                      *)
(***************************************************************************)
EXTENDS RVController, PEPrograms

CONSTANTS Args,         \* pairs of arguments
          Job,          \* pairs <<host program, PE program>>
          Buf,          \* addresses of output buffers in the board's memory
          TextBound,    \* units of text a buffer holds
          Turnaround    \* cycles from an interrupt to the host's next launch

\* What the interconnect carries.
WTransfer == [owner : {"host", "pe"}, addr : Nat, data : Nat,
              awDone : BOOLEAN, wDone : BOOLEAN]
RTransfer == [owner : {"host", "pe"}, addr : Nat, arDone : BOOLEAN]

ASSUME JobAssumption ==
    /\ Turnaround \in Nat
    /\ Job \subseteq (DOMAIN HostScript) \X (DOMAIN Program)
    /\ {1, TrapCode, PanicCode, RomWord} \cup Buf \subseteq Data
    /\ Args \subseteq Data \X Data
    /\ WordSize = 2 ^ WordBits
    /\ \A job \in Job, x \in Args :
          Returns(job[2]) =>
             ReturnValue(job[2], x[1], x[2]) \in Data \ {TrapCode, PanicCode}

ASSUME NoneIsNothing ==
    None \notin Nat \cup [data : Nat, strb : BOOLEAN] \cup WTransfer \cup RTransfer
                    \cup DOMAIN Program \cup DOMAIN HostScript

VARIABLES host,        \* the host program: its next steps, the job, the result
          pe,          \* the core: its next steps, the arguments read
          loaded,      \* the program in the local memory
          out,         \* out_buf (0 when null) and out_idx
          dram,        \* the output buffers
          wbus, rbus,  \* the interconnect's write and read
          irq,         \* the interrupt latched for the host
          sinceIrq     \* cycles since the last interrupt, at most Turnaround

memvars == <<loaded, out, dram>>
envvars == <<host, pe, memvars, wbus, rbus, irq, sinceIrq>>
jobvars == <<vars, envvars>>

NoJob == [todo |-> << >>, kind |-> None, prog |-> None, a |-> None, b |-> None,
          buf |-> None, ret |-> None]
Halted == [todo |-> << >>, a |-> 0, b |-> 0]

JobInit ==
    /\ Init
    /\ host = NoJob
    /\ pe = Halted
    /\ loaded = None
    /\ out = [buf |-> 0, idx |-> 1]
    /\ dram = [b \in Buf |-> [i \in 1 .. TextBound |-> "old"]]
    /\ wbus = None
    /\ rbus = None
    /\ irq = FALSE
    /\ sinceIrq = Turnaround

-----------------------------------------------------------------------------
(* Accesses.                                                               *)

Write(owner, reg, value) ==
    /\ wbus = None
    /\ wbus' = [owner |-> owner, addr |-> reg, data |-> value,
                awDone |-> FALSE, wDone |-> FALSE]
    /\ UNCHANGED rbus

Read(owner, reg) ==
    /\ rbus = None
    /\ rbus' = [owner |-> owner, addr |-> reg, arDone |-> FALSE]
    /\ UNCHANGED wbus

Waits(owner) ==
    \/ wbus # None /\ wbus.owner = owner
    \/ rbus # None /\ rbus.owner = owner

-----------------------------------------------------------------------------
(* The host program.                                                       *)

HostAt(step) == host.todo # << >> /\ Head(host.todo) = step
HostDone == host.todo = << >> /\ host.ret # None

\* A job is run by one process; the next one is another.
NewJob ==
    /\ host.todo = << >>
    /\ \E job \in Job, x \in Args, buf \in Buf :
          host' = [todo |-> HostScript[job[1]], kind |-> job[1],
                   prog |-> job[2],
                   a |-> IF job[1] = "template" THEN None ELSE x[1],
                   b |-> IF job[1] = "template" THEN None ELSE x[2],
                   buf |-> IF job[1] = "cpp" THEN buf ELSE None,
                   ret |-> None]
    /\ UNCHANGED <<vars, pe, memvars, wbus, rbus, irq, sinceIrq>>

\* The program goes to the local memory; .bss keeps what it held.
LoadProgram ==
    /\ HostAt("load")
    /\ loaded' = host.prog
    /\ host' = [host EXCEPT !.todo = Tail(@)]
    /\ UNCHANGED <<vars, pe, out, dram, wbus, rbus, irq, sinceIrq>>

\* check_tapasco, a file that cannot be read, a program that does not fit:
\* the process exits, whatever it has set up so far stays.
HostExits ==
    /\ ~Waits("host")
    /\ \E step \in {"load", "arg1", "arg2", "arg3", "start", "getret"} : HostAt(step)
    /\ host' = NoJob
    /\ UNCHANGED <<vars, pe, memvars, wbus, rbus, irq, sinceIrq>>

HostAccess ==
    /\ ~Waits("host")
    /\ \/ HostAt("arg1") /\ Write("host", ArgReg[1], host.a)
       \/ HostAt("arg2") /\ Write("host", ArgReg[2], host.b)
       \/ HostAt("arg3") /\ Write("host", ArgReg[3], host.buf)
       \/ HostAt("start") /\ sinceIrq >= Turnaround /\ Write("host", CTRL, 1)
       \/ HostAt("getret") /\ Read("host", RETL)
    /\ UNCHANGED <<vars, host, pe, memvars, irq, sinceIrq>>

\* The blocking launch returns when the interrupt has been raised.
TakeInterrupt ==
    /\ HostAt("wait")
    /\ irq
    /\ irq' = FALSE
    /\ host' = [host EXCEPT !.todo = Tail(@)]
    /\ UNCHANGED <<vars, pe, memvars, wbus, rbus, sinceIrq>>

HostNext(answer) ==
    [host EXCEPT !.todo = Tail(@),
                 !.ret = IF HostAt("getret") THEN answer ELSE @]

-----------------------------------------------------------------------------
(* The program on the core.                                                *)

PEAt(step) == ~Waits("pe") /\ pe.todo # << >> /\ Head(pe.todo) = step
Prints == PEAt("text") \/ PEAt("hex")

PEAccess ==
    /\ \/ PEAt("arg1") /\ Read("pe", ArgReg[1])
       \/ PEAt("arg2") /\ Read("pe", ArgReg[2])
       \/ Prints /\ out.buf = 0 /\ Read("pe", ArgReg[3])
       \/ PEAt("ret") /\ Write("pe", RETL, ReturnValue(loaded, pe.a, pe.b))
       \/ PEAt("trap") /\ Write("pe", RETL, TrapCode)
       \/ PEAt("panic") /\ Write("pe", RETL, PanicCode)
       \/ PEAt("intr") /\ Write("pe", IAR, 1)
    /\ UNCHANGED <<vars, host, pe, memvars, irq, sinceIrq>>

PEContinues(todo) ==
    /\ pe' = [pe EXCEPT !.todo = todo]
    /\ UNCHANGED <<vars, host, loaded, wbus, rbus, irq, sinceIrq>>

fallbackDefaultIRQ == <<"trap", "intr">>

\* On a core whose mtvec cannot be written the job ends here.
initInterrupts ==
    /\ PEAt("init")
    /\ \E todo \in {Tail(pe.todo), <<"panic", "intr">>} : PEContinues(todo)
    /\ UNCHANGED <<out, dram>>

\* Mutant: only the position is reset.
initPrint_KeepsBuf ==
    /\ PEAt("initPrint")
    /\ out' = [out EXCEPT !.idx = 1]
    /\ PEContinues(Tail(pe.todo))
    /\ UNCHANGED dram

initPrint ==
    /\ PEAt("initPrint")
    /\ out' = [buf |-> 0, idx |-> 1]
    /\ PEContinues(Tail(pe.todo))
    /\ UNCHANGED dram

print ==
    /\ Prints
    /\ out.buf # 0
    /\ LET target == axi_offset(out.buf)
       IN  dram' = IF out.buf >= RAM_OFFSET /\ target \in Buf
                     THEN [dram EXCEPT ![target] =
                             Put(@, out.idx, Head(pe.todo))]
                     ELSE dram
    /\ out' = [out EXCEPT !.idx = IF @ < TextBound THEN @ + 1 ELSE @]
    /\ PEContinues(Tail(pe.todo))

\* An access beyond the local memory or to a debug module: it traps on some
\* cores.
RiskyAccess ==
    /\ PEAt("store") \/ PEAt("rom")
    /\ \E todo \in {Tail(pe.todo), fallbackDefaultIRQ} : PEContinues(todo)
    /\ UNCHANGED <<out, dram>>

PELocal == initInterrupts \/ initPrint \/ print \/ RiskyAccess

\* Mutant: setIntr returns instead of spinning until the reset.
setIntr_Returns == Program[loaded]

\* The core spins until it is reset.
setIntr == << >>

\* The core has the answer to its access.
PENext(answer) ==
    LET step == Head(pe.todo)
    IN  CASE step = "arg1" -> [pe EXCEPT !.todo = Tail(@), !.a = answer]
          [] step = "arg2" -> [pe EXCEPT !.todo = Tail(@), !.b = answer]
          [] step = "intr" -> [pe EXCEPT !.todo = setIntr]
          [] step \in {"ret", "trap", "panic"} -> [pe EXCEPT !.todo = Tail(@)]
          [] step \in {"text", "hex"} -> pe

OutNext(answer) ==
    IF Head(pe.todo) \in {"text", "hex"}
      THEN [out EXCEPT !.buf = OutBuf(answer)] ELSE out

\* Out of reset the start-up code clears the registers and calls main.  A
\* core without a program makes no access.
Booted == [todo |-> IF loaded = None THEN << >> ELSE Program[loaded],
           a |-> 0, b |-> 0]

-----------------------------------------------------------------------------
(* One clock cycle of the controller, the interconnect and the core.       *)

\* The reset server of the core takes a request at once.
Tick(awNow, wNow, arNow) ==
    LET aw == IF wbus # None /\ awNow /\ ~wbus.awDone THEN wbus.addr ELSE None
        w == IF wbus # None /\ wNow /\ ~wbus.wDone
               THEN [data |-> wbus.data, strb |-> TRUE] ELSE None
        ar == IF rbus # None /\ arNow /\ ~rbus.arDone THEN rbus.addr ELSE None
        bvalid == wr_s_out > 0
        rvalid == rd_s_out # << >>
        answered(owner) == \/ bvalid /\ wbus.owner = owner
                           \/ rvalid /\ rbus.owner = owner
        rdata == IF rvalid THEN Head(rd_s_out) ELSE 0
        running == rstn /\ rstn'
    IN  /\ Cycle(aw, w, TRUE, ar, TRUE, TRUE)
        /\ wbus' = IF wbus = None \/ bvalid THEN None
                   ELSE [wbus EXCEPT
                           !.awDone = @ \/ (aw # None /\ wr_s_addrIn = None),
                           !.wDone = @ \/ (w # None /\ wr_s_dataIn = None)]
        /\ rbus' = IF rbus = None \/ rvalid THEN None
                   ELSE [rbus EXCEPT !.arDone =
                           @ \/ (ar # None /\ Len(rd_s_in) < FifoDepth)]
        /\ host' = IF answered("host") THEN HostNext(rdata) ELSE host
        /\ pe' = IF ~rstn' THEN Halted
                 ELSE IF ~rstn THEN Booted
                 ELSE IF answered("pe") THEN PENext(rdata) ELSE pe
        /\ out' = IF running /\ answered("pe") THEN OutNext(rdata) ELSE out
        /\ irq' = (irq \/ SetsIntr)
        /\ sinceIrq' = IF SetsIntr THEN 0
                       ELSE IF sinceIrq < Turnaround THEN sinceIrq + 1
                       ELSE sinceIrq
        /\ UNCHANGED <<loaded, dram>>

Clock == \E awNow, wNow, arNow \in BOOLEAN : Tick(awNow, wNow, arNow)

\* A cycle in which the interconnect presents whatever it holds.
PromptClock == Tick(TRUE, TRUE, TRUE)

Host == NewJob \/ LoadProgram \/ HostAccess \/ TakeInterrupt
Core == PEAccess \/ PELocal

JobNext == Host \/ HostExits \/ Core \/ Clock

(***************************************************************************)
(* Fairness: the clock runs and the interconnect does not hold back an     *)
(* access for ever; the host program and the core keep executing.          *)
(***************************************************************************)
JobSpec ==
    /\ JobInit /\ [][JobNext]_jobvars
    /\ WF_jobvars(PromptClock)
    /\ WF_jobvars(Host)
    /\ WF_jobvars(Core)

-----------------------------------------------------------------------------
(***************************************************************************)
(* The system implements JobService: the host sees one end per launch, and *)
(* from the interrupt until it is collected the return register holds the  *)
(* result of this job's program and arguments, or the code of a program    *)
(* that trapped, whatever earlier jobs and processes that exited half way  *)
(* have left in the registers.                                             *)
(***************************************************************************)
Phase ==
    IF HostAt("wait") THEN IF irq THEN "ended" ELSE "running"
    ELSE IF HostAt("getret") THEN "ended" ELSE "idle"

Results(x) ==
    (IF Returns(x.prog) THEN {ReturnValue(x.prog, x.a, x.b)} ELSE Data)
        \cup (IF MayFail(x.prog) THEN {TrapCode, PanicCode} ELSE {})

Service == INSTANCE JobService WITH
    Inputs <- [prog : {j[2] : j \in Job},
               a : {x[1] : x \in Args} \cup {None},
               b : {x[2] : x \in Args} \cup {None}],
    Results <- Results,
    phase <- Phase,
    input <- IF Phase = "idle" THEN None
             ELSE [prog |-> host.prog, a |-> host.a, b |-> host.b],
    output <- IF Phase = "ended" THEN ret[1] ELSE None

ImplementsService == Service!Spec

(***************************************************************************)
(* An interrupt is raised only while the host waits for one.               *)
(***************************************************************************)
NoSpuriousInterrupt == SetsIntr => HostAt("wait") /\ ~irq

(***************************************************************************)
(* What the host finds in its output buffer is what the program printed,   *)
(* when the program came to its end: in this job's buffer and not in that  *)
(* of an earlier one, from its first position, and nothing after it,       *)
(* although the program's pointer and index outlive the job.               *)
(***************************************************************************)
PrintedText ==
    (/\ HostDone
     /\ host.kind = "cpp"
     /\ Printed(host.prog) # << >>
     /\ host.ret \notin {TrapCode, PanicCode})
        => Visible(dram[host.buf]) = Printed(host.prog)

(***************************************************************************)
(* The arguments a running program reads do not change under it.           *)
(***************************************************************************)
ArgsStable == [][rstn /\ grace = 0 => args' = args]_jobvars

(***************************************************************************)
(* Every launched job ends: once the host has written the start bit it     *)
(* gets an interrupt, also from a program that traps.                      *)
(***************************************************************************)
LaunchedJobEnds == HostAt("wait") ~> HostAt("getret")
=============================================================================
