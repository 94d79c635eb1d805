-------------------------- MODULE MCNCDInterpreter --------------------------
(***************************************************************************)
(* A process that calls a template in its middle.                          *)
(***************************************************************************)
EXTENDS NCDInterpreter, TLC

CONSTANTS main, templ

MCProgram == main :> <<"nodie", templ, "die">> @@ templ :> <<"die", "nodie">>
=============================================================================
