----------------------------- MODULE MCCliFlash -----------------------------
(* An instance of CliFlash for TLC: an image of five bytes in three         *)
(* sectors, the last one short, and the commands with the options that meet *)
(* in one branch of the code.                                               *)
EXTENDS CliFlash, FiniteSets

Stock == [o \in 0 .. 4 |-> 0]

(* One table within two sectors, one in the short sector.                   *)
TwoTables ==
    {[first |-> 1, past |-> 3, safety |-> TRUE,  emissions |-> FALSE],
     [first |-> 4, past |-> 5, safety |-> FALSE, emissions |-> TRUE]}

(* Every image that differs from it in two bytes at most.                   *)
NearTargets == {image \in [0 .. 4 -> {0, 1}] : Cardinality({o \in 0 .. 4 : image[o] = 1}) <= 2}

Run == [verb |-> "apply", inject |-> TRUE, enter |-> TRUE, unlock |-> TRUE, high |-> TRUE,
        follow |-> TRUE]

Gate(profile, reasoned) ==
    [profiled |-> TRUE, profile |-> profile, reasoned |-> reasoned, run |-> Run]

ManyApplies ==
    {Gate(profile, reasoned) : profile \in Profiles, reasoned \in BOOLEAN}
      \cup {[Gate("alberta-ca", FALSE) EXCEPT !.run = [Run EXCEPT !.inject = FALSE]],
            [Gate("alberta-ca", FALSE) EXCEPT !.run = [Run EXCEPT !.unlock = FALSE]],
            [Gate("alberta-ca", FALSE) EXCEPT !.profiled = FALSE]}

OneApply == {[Gate("alberta-ca", FALSE) EXCEPT !.run = [Run EXCEPT !.inject = FALSE]]}

Unblock(sectors, inject, force) ==
    [verb |-> "unblock", sectors |-> sectors, inject |-> inject, unlock |-> TRUE,
     force |-> force]

ManyOthers ==
    {Unblock(<<>>, TRUE, FALSE), Unblock(<<0>>, FALSE, FALSE), Unblock(<<>>, FALSE, TRUE),
     [verb |-> "write", sectors |-> <<1>>, commit |-> TRUE],
     [verb |-> "write", sectors |-> <<0>>, commit |-> FALSE],
     [verb |-> "restore", sectors |-> <<0, 1>>, commit |-> TRUE],
     [verb |-> "commit"], [verb |-> "presence"],
     [verb |-> "try", session |-> "programming"]}
=============================================================================
