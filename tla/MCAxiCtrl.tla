----------------------------- MODULE MCAxiCtrl -----------------------------
(***************************************************************************)
(* AxiCtrl with a master that keeps the controller's rules, against a      *)
(* memory: the words a write or read should have stored or returned.       *)
(***************************************************************************)
EXTENDS AxiCtrl

CONSTANTS BurstsReadWrite,   \* are bursts read from a read-write controller
          SplitLite          \* does the data of a lite write follow its address

VARIABLES want,      \* the memory as the master's writes should leave it
          pendAw,    \* addresses sent whose data was not yet sent
          expect,    \* the words of the beats still to come, in order
          owed       \* writes not yet acknowledged

mcvars == <<vars, want, pendAw, expect, owed>>

MCInit ==
    /\ Init
    /\ want = mem
    /\ pendAw = << >>
    /\ expect = << >>
    /\ owed = 0

(***************************************************************************)
(* Rules of the master besides the status bits.  It reads and writes in    *)
(* different cycles, also when the data of a write follows later; it does  *)
(* not start a read in the middle of a burst; a lite master acknowledges   *)
(* at once and never bursts; nobody drives a channel a read-only           *)
(* controller ignores.  Two things the read-write and the lite version get *)
(* wrong are done only if a constant says so.                              *)
(***************************************************************************)
Master(in) ==
    /\ Complaints(in) = {}
    /\ ~(in.arvalid /\ (in.awvalid \/ in.wvalid))
    /\ in.arvalid => Len(expect) <= 1
    /\ Lite => in.bready /\ in.arlen = 0
    /\ READ_ONLY => ~in.awvalid /\ ~in.wvalid
    /\ in.wvalid => in.awvalid \/ pendAw # << >>
    /\ in.arlen > 0 => READ_ONLY \/ BurstsReadWrite
    /\ in.awvalid /\ ~in.wvalid => (~Lite \/ SplitLite) /\ pendAw = << >>
    /\ in.awvalid /\ in.wvalid => pendAw = << >>

Burst(in) == [i \in 1 .. in.arlen + 1 |-> want[(in.araddr + i - 1) % AddrSize]]

MCNext ==
    \E in \in Inputs :
        LET target == IF in.awvalid THEN in.awaddr ELSE Head(pendAw)
        IN  /\ Master(in)
            /\ Cycle(in)
            /\ want' = IF in.wvalid THEN [want EXCEPT ![target] = in.wdata] ELSE want
            /\ pendAw' = IF in.wvalid THEN << >>
                         ELSE IF in.awvalid THEN <<in.awaddr>> ELSE pendAw
            /\ expect' = IF in.arvalid THEN Burst(in)
                         ELSE IF expect # << >> THEN Tail(expect) ELSE << >>
            /\ owed' = owed + (IF in.wvalid THEN 1 ELSE 0)
                            - (IF bvalid /\ in.bready THEN 1 ELSE 0)

MCSpec == MCInit /\ [][MCNext]_mcvars

-----------------------------------------------------------------------------
(***************************************************************************)
(* A read gets as many beats as it asked for, the last one marked, each    *)
(* with the word at its address as the completed writes left it.           *)
(***************************************************************************)
ReadsReturnMemory ==
    /\ rvalid <=> expect # << >>
    /\ rvalid => dout = Head(expect)
    /\ rvalid => (rlast <=> Len(expect) = 1)

(***************************************************************************)
(* A write stores its word at its own address and nowhere else, whether    *)
(* its data comes with the address or later.                               *)
(***************************************************************************)
WritesLand == mem = want

(***************************************************************************)
(* A response is offered for exactly as long as a write is unacknowledged. *)
(***************************************************************************)
ResponsesMatchWrites == bvalid <=> owed > 0
=============================================================================
