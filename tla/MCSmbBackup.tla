----------------------------- MODULE MCSmbBackup -----------------------------
(* Instances of SmbBackup for TLC: all calls with a row want the same base    *)
(* name, and the last two the same collision name too; a call without one     *)
(* draws the names of the first call, or names of its own.                    *)
EXTENDS SmbBackup

Names == {"base", "x", "y", "m", "mx"}
Mtimes == {<<"m", "mx">>, <<"base", "x">>}
CollisionOf == <<"x", "y", "y">>
AllBase == <<"base", "base", "base">>
=============================================================================
