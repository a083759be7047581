----------------------------- MODULE MCWorkbench -----------------------------
EXTENDS Workbench

\* Two entries, one of them in a retry.
MCLetters == <<"pending", "retrying">>

\* Two versions of "ab" and a definition whose name is part of that one.
MCVersions == {"a1", "b1", "b2"}
MCNameOf == [d \in MCVersions |-> IF d = "a1" THEN "a" ELSE "ab"]
MCLike == [t \in {"", "a", "ab"} |-> IF t = "ab" THEN {"ab"} ELSE {"a", "ab"}]
==============================================================================
