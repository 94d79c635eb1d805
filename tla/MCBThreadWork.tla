--------------------------- MODULE MCBThreadWork ---------------------------
(***************************************************************************)
(* Values for the model-checking runs of BThreadWork.                      *)
(***************************************************************************)
EXTENDS BThreadWork

\* The programs' default: "a choice will be made automatically".
HintDefault == -1
=============================================================================
