----------------------------- MODULE JobService -----------------------------
(***************************************************************************)
(* What a processing element promises the host: a launched job ends once,  *)
(* and what is collected is the result of the arguments it was launched    *)
(* with, or the error code of a job that trapped.                          *)
(***************************************************************************)
CONSTANTS Inputs,        \* what a job is launched with
          Results(_),    \* what it may return for an input: the result, or
                         \* the code of a program that trapped
          None

VARIABLES phase, input, output

vars == <<phase, input, output>>

Init == phase = "idle" /\ input = None /\ output = None

Launch ==
    /\ phase = "idle"
    /\ phase' = "running"
    /\ input' \in Inputs
    /\ UNCHANGED output

End ==
    /\ phase = "running"
    /\ phase' = "ended"
    /\ output' \in Results(input)
    /\ UNCHANGED input

Collect ==
    /\ phase = "ended"
    /\ phase' = "idle"
    /\ input' = None
    /\ output' = None

Next == Launch \/ End \/ Collect

Spec == Init /\ [][Next]_vars
=============================================================================
