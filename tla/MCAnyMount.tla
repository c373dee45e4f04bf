------------------------------ MODULE MCAnyMount -----------------------------
(* A directory in the root with one file in it, and a second program that serves *)
(* other bytes under the same numbers.                                           *)
EXTENDS AnyMount, TLC

MCDirs    == (1 :> [d |-> 2]) @@ (2 :> [f |-> 3])
MCParents == (1 :> 1) @@ (2 :> 1)
MCData    == << 3 :> <<"a", "b">>, 3 :> <<"x", "y">> >>
MCSecrets == <<"hex1", "hex2">>
MCPath    == <<"d", "f">>
MCNames   == {<<"n">>, <<"a", "b", "c", "d">>, <<"a", "/", "b">>, <<"/", "ctl", "x">>,
              <<"-", "/", "n">>, <<" ", "a", ".">>, <<".", " ">>, <<"/">>, << >>}
==============================================================================
