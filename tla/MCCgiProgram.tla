---------------------------- MODULE MCCgiProgram ----------------------------
(* CgiProgram on a small instance: names and passwords of the characters   *)
(* that escapes, fields and numbers are made of, and every text that may   *)
(* stand where a name does.                                                *)
EXTENDS CgiProgram

(* "%", "&", "2" and, in two bytes, a letter beyond ASCII. *)
Names == SeqOf({37, 38, 50}, 2) \cup {<<195, 169>>}
Forms == Names \X {<<>>, <<50>>, <<61>>}

(* "=" and a name of up to four of "%", "0", "4" and "g", texts that are   *)
(* no two fields, and a number with a sign.                                *)
OddTexts == {<<61>> \o n \o <<38>> : n \in SeqOf({37, 48, 52, 103}, 4)}
              \cup {<<>>, <<105, 61, 50>>, <<105, 38, 50>>, <<61, 50, 38, 61, 45, 50>>}
=============================================================================
