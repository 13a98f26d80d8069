---------------------------- MODULE MCServerHttp ----------------------------
(***************************************************************************)
(* ServerHttp for TLC: one data logger, which may come back from the same  *)
(* port, and a request of each kind on one register.                       *)
(***************************************************************************)
EXTENDS ServerHttp

Ask(c, i) == [command |-> c, id |-> i, register |-> "r31"]

\* A read from an inverter, whose value may fail to be decoded, so that the
\* request waits its time out, and the datetime command to a data logger, whose
\* answer createtimecommand deletes.
MCRequests == {Ask("05", "i1"), Ask("18", "l1")}
MCAnswers  == {<<r.command, r.register>> : r \in MCRequests}
=============================================================================
