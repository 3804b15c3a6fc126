---------------------------- MODULE ProjectFiles ----------------------------
(***************************************************************************)
(* What the files below .agentos/ that commands change have in common.     *)
(* They are read whole and written by write_text: opening truncates the    *)
(* file, then the new content is written from its beginning.  Nothing      *)
(* locks them, so that any step of another process can come in between.    *)
(***************************************************************************)
CONSTANTS
  Proc,    \* processes: commands of the command line, and the MCP server
  NoFile,  \* there is no such file
  Blank    \* a file of length zero

ASSUME FileAssumption == NoFile # Blank
=============================================================================
