---------------------------- MODULE MCLogWriter -----------------------------
(* Model-checking instance of LogWriter.                                    *)
EXTENDS LogWriter
=============================================================================
