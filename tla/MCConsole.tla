------------------------------ MODULE MCConsole ------------------------------
EXTENDS Console

\* Three items; the second is found by another filter than the others.
MCItems == <<"a", "b", "a">>
==============================================================================
