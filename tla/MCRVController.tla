--------------------------- MODULE MCRVController ---------------------------
(***************************************************************************)
(* Model checking RVController under an arbitrary bus master, with history *)
(* variables: the halves of the writes that were accepted and not yet      *)
(* performed, in the order of their acceptance, and whether the interrupt  *)
(* was raised since the core was last started.                             *)
(***************************************************************************)
EXTENDS RVController

VARIABLES awPend, wPend, signalled

mcvars == <<vars, awPend, wPend, signalled>>

MCInit == Init /\ awPend = << >> /\ wPend = << >> /\ signalled = FALSE

Accepted(q, reg, half) == IF reg = None /\ half # None THEN Append(q, half) ELSE q

MCCycle ==
    \E aw \in WrAddr \cup {None}, w \in WData \cup {None},
       ar \in RdAddr \cup {None}, bready, rready, reqRDY \in BOOLEAN :
        /\ Cycle(aw, w, bready, ar, rready, reqRDY)
        /\ awPend' = Dequeued(Accepted(awPend, wr_s_addrIn, aw), handle_write)
        /\ wPend' = Dequeued(Accepted(wPend, wr_s_dataIn, w), handle_write)
        /\ signalled' = (SetsIntr \/ (signalled /\ ~handle_start))

MCReset ==
    Reset /\ awPend' = << >> /\ wPend' = << >> /\ signalled' = FALSE

MCNext == MCCycle \/ MCReset

MCSpec == MCInit /\ [][MCNext]_mcvars

(***************************************************************************)
(* The n-th address accepted is written with the n-th data accepted,       *)
(* however far apart the two halves arrive and whichever comes first; no   *)
(* half is lost, duplicated or paired with a neighbour's.                  *)
(***************************************************************************)
PairedInOrder ==
    LET n == Len(wr_s_in)
    IN  /\ awPend = [i \in 1 .. n |-> wr_s_in[i].addr]
                      \o (IF wr_s_addrIn = None THEN << >> ELSE <<wr_s_addrIn>>)
        /\ wPend = [i \in 1 .. n |-> [data |-> wr_s_in[i].data,
                                      strb |-> wr_s_in[i].strb]]
                     \o (IF wr_s_dataIn = None THEN << >> ELSE <<wr_s_dataIn>>)

(***************************************************************************)
(* The core is taken back into reset only when the interrupt of the job it *)
(* runs was raised: the host hears of every job the controller ends.       *)
(***************************************************************************)
EndedJobWasSignalled == resetAll => signalled
=============================================================================
