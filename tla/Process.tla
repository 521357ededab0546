------------------------------ MODULE Process ------------------------------
(***************************************************************************)
(* How a call of merlin-link ends: it returns, it throws a std::exception  *)
(* (which the line loop of process_script catches), or it calls errx() and *)
(* the process is gone.  Shared by every component of the linker.          *)
(***************************************************************************)
EXTENDS Integers

VARIABLES
  thrown,   \* message of the exception the last call threw, Quiet if none
  exited    \* status of errx()/exit(), Running while the process lives

processVars == <<thrown, exited>>

Quiet == ""
Running == -1

(* Exit statuses: errx(1), <sysexits.h>.                                   *)
EX_FATAL == 1
EX_DATAERR == 65
EX_OSERR == 71
EX_CANTCREAT == 73
Statuses == {Running, 0, EX_FATAL, EX_DATAERR, EX_OSERR, EX_CANTCREAT}

Returns == thrown' = Quiet /\ UNCHANGED exited
Throws(message) == thrown' = message /\ UNCHANGED exited
Exits(status) == thrown' = Quiet /\ exited' = status

ProcessInit == thrown = Quiet /\ exited = Running
=============================================================================
