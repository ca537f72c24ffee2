------------------------------ MODULE MCPEJob -------------------------------
(***************************************************************************)
(* The host programs with the programs they can run.                       *)
(***************************************************************************)
EXTENDS PEJob

Jobs == {<<"c", "simple_sum">>, <<"template", "rv_template">>,
         <<"c", "localsum">>, <<"cpp", "read_dm">>}
ArgPairs == {<<42, 1337>>, <<7, 42>>}
=============================================================================
