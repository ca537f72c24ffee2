------------------------ MODULE MCInstructionCache -------------------------
(***************************************************************************)
(* The instruction cache with two lines: two requests that share one, and  *)
(* one for the other.                                                      *)
(***************************************************************************)
EXTENDS InstructionCache

Fetch(a) == [NoReq EXCEPT !.addr = a]

\* Bytes 0 to 7 and 16 to 23 share a line of the cache.
Fetches == {Fetch(0), Fetch(16), Fetch(12)}
=============================================================================
