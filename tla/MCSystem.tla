------------------------------ MODULE MCSystem ------------------------------
(* Three processes on two CPUs, with memory for less than they want.       *)
EXTENDS System, TLC

CONSTANTS p1, p2, p3, c1, c2

MCConfPrio == p1 :> 0 @@ p2 :> 0 @@ p3 :> 0
MCName == p1 :> "a" @@ p2 :> "b" @@ p3 :> "b"
MCPath == <<p1, p2, p3>>
MCOther == {Alloc(1), Alloc(2), Read(1), Write(0, "a"), Write(0, "b")}

\* One writes a name, sends its page to swap if memory is short, and kills by that
\* name; the others may be killed anywhere in their programs.
MCPrograms == {<<Alloc(1), Write(0, "b"), Alloc(1), Killall(Names)>>,
               <<Alloc(2), Write(0, "a"), Read(1)>>}
=============================================================================
