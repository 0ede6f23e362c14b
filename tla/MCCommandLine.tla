--------------------------- MODULE MCCommandLine ---------------------------
(***************************************************************************)
(* The instance of CommandLine on the command lines of MCGetopt.           *)
(***************************************************************************)
EXTENDS CommandLine, MCGetopt
=============================================================================
