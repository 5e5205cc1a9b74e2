--------------------------------- MODULE MCMcp ---------------------------------
(* Two servers and two tools: t1 has the same alias on both servers, t2      *)
(* requires task execution on the first, and the registry refuses whatever   *)
(* the second exposes.                                                       *)
EXTENDS Mcp

CONSTANTS s1, s2, t1, t2, a1, a2, a3

MCOrder == <<s1, s2>>
MCSelections == {{t1, t2}, Everything}
MCTaskOnly == {<<s1, t2>>}
MCMisshapen == {s2} \X {t1, t2}
MCAlias ==
  [p \in {s1, s2} \X {t1, t2} |->
     IF p[2] = t1 THEN a1 ELSE IF p[1] = s1 THEN a2 ELSE a3]
=============================================================================
