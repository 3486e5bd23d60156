---------------------------- MODULE MCSimulator -----------------------------
(***************************************************************************)
(* Command lines and files for the configuration Simulator_runs.cfg: every *)
(* command line of up to four arguments from a menu, and some longer ones. *)
(***************************************************************************)
EXTENDS Simulator

Menu == {"--help", "--dump", "-d", "--step", "--dump_regs", "-r", "-m", "-x",
         "prog", "new", "dir", ""}

Lists(menu, n) == UNION {[1 .. k -> menu] : k \in 0 .. n}

(* Both dumps, to every kind of path, with and without steps.              *)
Paths == {"prog", "new", "other", "dir", "nowhere", "secret", ""}
BothDumps ==
  {<<"-r", r>> \o s \o <<"big", "-m", m>> : r \in Paths, m \in Paths,
                                            s \in {<< >>, <<"-s">>}}
  \cup {<<option, p>> : option \in {"-d", "-p", "-t", "-i"},
                        p \in {"big", "raw", "secret"}}

SomeCommandLines == Lists(Menu, 4) \cup BothDumps

(* Memory has room for prog and raw, but not for big; raw has no end       *)
(* marker; nowhere lies in a directory that there is not, and secret is a  *)
(* file that the user may not read or write.                               *)
SomeFiles ==
  [path \in {"prog", "raw", "big", "new", "other", "dir", "nowhere",
              "secret", ""} |->
     CASE path = "prog" -> "program"
       [] path = "raw"  -> "unmarked"
       [] path = "big"  -> "oversized"
       [] path = "dir"  -> "directory"
       [] path = "secret" -> "locked"
       [] path \in {"nowhere", ""} -> "unwritable"
       [] OTHER -> "absent"]

SomeAnswers == {Enter, Junk, -1, 0, 1, 2}
=============================================================================
