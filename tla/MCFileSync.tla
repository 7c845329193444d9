------------------------------ MODULE MCFileSync ------------------------------
(* One target in one folder without quota; the local file has had two      *)
(* versions of two chunks each, and somebody else writes a third.          *)
EXTENDS FileSync

CONSTANTS p, u1, u2, u3, t1, t2, t3, f

MCFolderOf == [x \in {p, u1, u2, u3, t1, t2, t3} |-> f]
W(d, c, r) == [driver |-> d, policy |-> c, restart |-> r]
MCWays == {W("sync", "replace-to-trash", TRUE), W("sync", "stop", FALSE),
           W("sync", "skip", TRUE),
           W("queue", "stop", FALSE)}
MCSize     == [v \in Versions |-> IF v \in Outsiders THEN 1 ELSE 2]
=============================================================================
