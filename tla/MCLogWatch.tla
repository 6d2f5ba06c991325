----------------------------- MODULE MCLogWatch -----------------------------
(* Small instances of LogWatch for TLC.                                    *)
EXTENDS LogWatch

\* The first of the lines is not UTF-8.
MCGarbled == {1}
=============================================================================
