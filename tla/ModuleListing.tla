--------------------------- MODULE ModuleListing ---------------------------
(***************************************************************************)
(* The module list as rsync-proxy sends it (listAllModules, after the      *)
(* message of the day) and as it reads the list of an upstream             *)
(* (discoverModulesFromUpstream).  A line is its first field: a name, ""   *)
(* for a blank line, Exit for the line that ends the list.                 *)
(***************************************************************************)
EXTENDS Naturals, Sequences, SequencesExt

Exit == "@RSYNCD: EXIT"
Failed == <<"no end of list">>    \* the connection ends, or a read times out

(* What the proxy answers to an empty request; motd holds the lines of     *)
(* s.Motd + "\n".                                                          *)
listAllModules(motd, modules) ==
  motd \o Append(SetToSeq(modules), Exit)

(* A blank line discards what precedes it: that was a message of the day.  *)
discoverModulesFromUpstream(lines) ==
  IF Exit \notin Range(lines) THEN Failed
  ELSE LET list == SubSeq(lines, 1, SelectInSeq(lines, LAMBDA l : l = Exit) - 1)
       IN  FoldLeft(LAMBDA modules, line : IF line = "" THEN << >> ELSE Append(modules, line), << >>, list)
-----------------------------------------------------------------------------
(* The names between the last blank line and the end of the list. *)
ListReference(lines) ==
  IF Exit \notin Range(lines) THEN Failed
  ELSE LET end == CHOOSE i \in DOMAIN lines : lines[i] = Exit /\ \A j \in 1..(i - 1) : lines[j] # Exit
           start == CHOOSE i \in 0..(end - 1) :
                      /\ i = 0 \/ lines[i] = ""
                      /\ \A j \in (i + 1)..(end - 1) : lines[j] # ""
       IN  SubSeq(lines, start + 1, end - 1)

(* Discovery of a list that a proxy sends finds its modules, if the proxy  *)
(* has no message of the day or one that ends with a newline.              *)
RoundTrip(motd, modules) ==
  motd = << >> \/ Last(motd) = "" =>
    Range(discoverModulesFromUpstream(listAllModules(motd, modules))) = modules
=============================================================================
