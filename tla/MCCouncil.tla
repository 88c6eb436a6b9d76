------------------------------- MODULE MCCouncil -------------------------------
(* Any of the three pages of the council on a small instance.                *)
EXTENDS Council

TwoPages == {1, 2}
Second == {2}
===============================================================================
