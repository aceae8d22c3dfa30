----------------------------- MODULE MCExecutor -----------------------------
\* The executor with two identities, two requests and one caller, whose
\* abandoned requests run next to its new ones.  One file is kept, so the
\* second identity removes the file of the first.

EXTENDS Executor
=============================================================================
