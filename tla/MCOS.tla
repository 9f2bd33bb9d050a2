-------------------------------- MODULE MCOS --------------------------------
(* Instances of OS for TLC: the configurations and programs of the runs.   *)
EXTENDS OS, TLC

CONSTANTS p1, p2, p3, c1, c2

MCConfPrio == p1 :> 0 @@ p2 :> 1 @@ p3 :> 1

\* Two processes share a name, so a killall can be of one of its own victims'
\* name, and two killalls can meet.
MCName == p1 :> "a" @@ p2 :> "b" @@ p3 :> "b"
MCPath == <<p1, p2, p3>>

Calc == [op |-> "calc"]
MCOther == {Calc}
MCPrograms == {<<>>, <<Calc, Killall({"b"}), Calc>>}
MCShort == {<<>>, <<Calc, Calc>>, <<Killall({"b"})>>}
=============================================================================
