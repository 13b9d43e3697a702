---------------------------- MODULE MC_RunCommand ----------------------------
(***************************************************************************)
(* Two servers and the user in one workspace: an interpreter, a network    *)
(* client, and a program that is neither.                                  *)
(***************************************************************************)
EXTENDS RunCommand, TLC

CONSTANTS s1, s2, f1, f2, c1, c2

MCServers == {s1, s2}
MCFiles == {f1}
MCContents == {c1, c2}
MCCommands ==
    {[program |-> "interpreter", args |-> {}],
     [program |-> "manager", args |-> {"subcommand"}],
     [program |-> "other", args |-> {"subcommand"}]}

MCThresholds == {40}

MCSymmetry == Permutations(MCServers) \cup Permutations(MCContents)
=============================================================================
