---------------------------- MODULE MCSimulator -----------------------------
(* Simulator for TLC.                                                      *)
EXTENDS Simulator

UpTo(S, len) == UNION {[1 .. m -> S] : m \in 0 .. len}

\* Every short file, and files that start with the overseer and have events.
ShortFiles == UpTo(Lines, 2)
LongFiles  == {<<"overseer">> \o s \o <<"SCENARIO">> \o t :
                    s \in UpTo(InitLines, 3), t \in UpTo(Lines, 1)}
AllFiles   == ShortFiles \cup LongFiles

=============================================================================
