------------------------------- MODULE Queries -------------------------------
(***************************************************************************)
(* One query of the web client's cache (TanStack Query, as main.tsx        *)
(* configures it: no retry) and what the pages do with it.  A query has at *)
(* most one fetch under way: sent, or read by the server and on its way    *)
(* back with what was read (otherwise read repeats data).                  *)
(***************************************************************************)

NewQuery(none) ==
  [has |-> FALSE, data |-> none, old |-> FALSE, failed |-> FALSE, fetch |-> "no", read |-> none]

\* A fetch begins; one under way is dropped.  An error is kept beside data and cleared without.
Started(q) == [q EXCEPT !.fetch = "sent", !.read = q.data, !.failed = @ /\ q.has]

\* invalidateQueries, refetch(): with data the fetch under way is cancelled and another
\* begins, without data it is joined.
Invalidated(q) == IF q.fetch # "no" /\ ~q.has THEN q ELSE Started(q)

\* The same for a query that nothing on the screen uses: fetched when it is used again,
\* unless a fetch under way answers before, whatever it read.
Outdated(q) == [q EXCEPT !.old = q.has]

\* cancelQueries: the answer will not be looked at.
Cancelled(q) == [q EXCEPT !.fetch = "no", !.read = q.data]

\* A component mounts, the window gets focus: what is missing or stale is fetched, once.
Observed(q, stale) == IF q.fetch = "no" /\ (stale \/ ~q.has \/ q.old \/ q.failed) THEN Started(q) ELSE q

ReadWith(q, data) == [q EXCEPT !.fetch = "read", !.read = data]

Answered(q) == [q EXCEPT !.has = TRUE, !.data = q.read, !.old = FALSE, !.failed = FALSE, !.fetch = "no"]
Refused(q) == [q EXCEPT !.failed = TRUE, !.fetch = "no", !.read = q.data]

\* How a page renders it: isLoading, isError, or its data.
Renders(q) == IF q.failed THEN "failure" ELSE IF q.has THEN "success" ELSE "loading"
==============================================================================
