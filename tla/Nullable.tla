------------------------------- MODULE Nullable -------------------------------
\* The value of a column that is NULL and of a reference to nothing.

CONSTANT None
=============================================================================
