------------------------------ MODULE SimMain ------------------------------
(***************************************************************************)
(* The main programs of the SCR1 and CVA6 simulators.  What main does with *)
(* its options is a script: the calls of run() that drive the clock and    *)
(* the steps between them.  The handler ticks at every falling edge from   *)
(* the moment reset() has created it; requests come in while the server    *)
(* listens.  The designs do not call $finish, so the stop condition is the *)
(* flag that SIGINT clears.                                                *)
(***************************************************************************)
EXTENDS DMIHandler

CONSTANTS ResetCycles,    \* cycles in reset: 100
          BootCycles,     \* cycles of CVA6 before its handler exists: 1000
          Options         \* command lines

ASSUME OptionsAssumption ==
    /\ ResetCycles \in Nat \ {0} /\ BootCycles \in Nat \ {0}
    /\ Options \subseteq [sim : {"scr1", "cva6"}, s : Nat, n : Nat,
                          o : BOOLEAN, bad : BOOLEAN]

VARIABLES main,        \* the steps that are left, the current one first
          limit,       \* cycles left of the current run(); 0 after a wrap
          stop,        \* the stop condition sampled at the top of its loop
          dmiHandler,  \* reset() has created the handler
          server       \* "none", "bound", "listening" or "stopped"

mainvars == <<main, limit, stop, dmiHandler, server>>
simvars == <<vars, mainvars>>

-----------------------------------------------------------------------------
(* The scripts.                                                            *)

Do(op) == <<[op |-> op]>>
Run(cycles, check) == <<[op |-> "run", limit |-> cycles, check |-> check]>>
When(given, steps) == IF given THEN steps ELSE << >>

reset_scr1 == Run(ResetCycles, FALSE) \o Do("newHandler")
reset_cva6 == Run(ResetCycles, FALSE) \o Run(BootCycles, FALSE) \o Do("newHandler")

\* run(0) wraps its limit and ends by the stop condition.
untilStopped(withServer) ==
    When(withServer, Do("start_listening"))
        \o Run(0, TRUE)
        \o When(withServer, Do("stop_listening"))

main_scr1(opt) ==
    reset_scr1 \o When(opt.s > 0, Run(opt.s, TRUE))
               \o When(opt.n > 0, Run(opt.n, TRUE))
               \o untilStopped(opt.o)

main_cva6(opt) ==
    reset_cva6 \o When(opt.s > 0, Run(opt.s, TRUE))
               \o When(opt.n > 0, Run(opt.n, FALSE))
               \o untilStopped(opt.o)

\* An option that is unknown or lacks its value goes to the cleanup at once.
Script(opt) ==
    (IF opt.bad THEN << >>
     ELSE IF opt.sim = "scr1" THEN main_scr1(opt) ELSE main_cva6(opt))
        \o Do("exitAndCleanup")

SimInit ==
    /\ Init
    /\ \E opt \in Options :
          /\ main = Script(opt)
          /\ limit = IF opt.bad THEN 0 ELSE ResetCycles
          /\ server = IF opt.o THEN "bound" ELSE "none"
    /\ stop = FALSE
    /\ dmiHandler = FALSE

-----------------------------------------------------------------------------
At(op) == main # << >> /\ Head(main).op = op

NextStep ==
    /\ main' = Tail(main)
    /\ limit' = IF Len(main) > 1 /\ main[2].op = "run" THEN main[2].limit ELSE 0
    /\ stop' = FALSE

\* Top of the loop of run(): the stop condition, then the rising edge.
Rise ==
    /\ At("run")
    /\ RisingEdge
    /\ stop' = (Head(main).check /\ ~run)
    /\ UNCHANGED <<main, limit, dmiHandler, server>>

\* Bottom of the loop: while (--limit && !stop).
EndOfCycle ==
    IF limit = 1 \/ stop THEN NextStep
    ELSE /\ limit' = IF limit = 0 THEN 0 ELSE limit - 1
         /\ UNCHANGED <<main, stop>>

\* The falling edge, with the handler's tick when there is a handler.  The
\* cycle ends when tick() returns.
Fall ==
    /\ At("run")
    /\ IF dmiHandler THEN Tick
       ELSE clk = "fall" /\ EndTick
              /\ UNCHANGED <<fifo, dmi_request_queue, handler, ports, module, run>>
    /\ IF clk' = clk THEN UNCHANGED <<main, limit, stop>> ELSE EndOfCycle
    /\ UNCHANGED <<dmiHandler, server>>

NewHandler ==
    /\ At("newHandler")
    /\ dmiHandler' = TRUE
    /\ NextStep
    /\ UNCHANGED <<vars, server>>

start_listening ==
    /\ At("start_listening")
    /\ server' = "listening"
    /\ NextStep
    /\ UNCHANGED <<vars, dmiHandler>>

\* Returns when the server's threads have ended (OpenOCDServer, StopEnds).
stop_listening ==
    /\ At("stop_listening")
    /\ server' = "stopped"
    /\ NextStep
    /\ UNCHANGED <<vars, dmiHandler>>

\* The destructor of the server closes its socket and removes the file.
exitAndCleanup ==
    /\ At("exitAndCleanup")
    /\ server' = "none"
    /\ dmiHandler' = FALSE
    /\ NextStep
    /\ UNCHANGED vars

MainStep ==
    \/ Rise \/ Fall \/ NewHandler \/ start_listening \/ stop_listening
    \/ exitAndCleanup

\* The threads of the server, and the signal.
Environment ==
    /\ \/ server = "listening" /\ (PushRequest \/ PopResponse)
       \/ Interrupt
    /\ UNCHANGED mainvars

Exited == main = << >> /\ UNCHANGED simvars

SimNext == MainStep \/ Environment \/ Exited

SimSpec == SimInit /\ [][SimNext]_simvars /\ WF_simvars(MainStep)

-----------------------------------------------------------------------------
(***************************************************************************)
(* SIGINT ends the simulation from every point and with every command      *)
(* line: in the cycles of the reset and of -n, whose loops do not look at  *)
(* it, while tick() blocks the clock waiting for a request nobody sends,   *)
(* and in the middle of an access.                                         *)
(***************************************************************************)
InterruptStops == ~run ~> main = << >>
=============================================================================
