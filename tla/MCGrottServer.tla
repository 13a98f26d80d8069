---------------------------- MODULE MCGrottServer ----------------------------
(***************************************************************************)
(* GrottServer for TLC.  Socket objects, peers and data loggers are        *)
(* interchangeable.                                                        *)
(***************************************************************************)
EXTENDS GrottServer, TLC

\* The datetime command, whose answer createtimecommand deletes, and a write,
\* which is answered with two entries.
MCTimeAnswers == {<<"18", "r31">>}
MCAnswers     == {<<"06", "r31">>, <<"18", "r31">>}

Symmetry == Permutations(Socket) \cup Permutations(Peer) \cup Permutations(Logger)
=============================================================================
