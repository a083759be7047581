------------------------------ MODULE Workbench ------------------------------
(***************************************************************************)
(* The pages on which an operator works: dead letters, the task inbox, the *)
(* instance board and the page of an instance.  One of them is on the      *)
(* screen at a time; they share the machinery of Queries.                  *)
(***************************************************************************)
EXTENDS Naturals, Sequences

CONSTANTS
  Letters, MaxActions,                \* DeadLetters
  Tasks, Assigned, MaxSends,          \* TaskInbox
  Versions, NameOf, Like, MaxStarts,  \* InstanceBoard
  PageSize, MaxEvents, MaxCancels     \* InstancePage

ASSUME WorkbenchAssumption ==
  /\ Letters \in Seq({"pending", "retrying", "resolved", "discarded"})
  /\ Assigned \subseteq Tasks
  /\ {""} \cup {NameOf[d] : d \in Versions} \subseteq DOMAIN Like
  /\ PageSize \in Nat \ {0} /\ MaxEvents \in Nat

VARIABLES on, srv, ui, q, calls

vars == <<on, srv, ui, q, calls>>

Dlq == INSTANCE DeadLetters
Inbox == INSTANCE TaskInbox
Board == INSTANCE InstanceBoard
Instance == INSTANCE InstancePage

Init ==
  \/ on = "letters" /\ Dlq!LettersInit
  \/ on = "tasks" /\ Inbox!TasksInit
  \/ on = "board" /\ Board!BoardInit
  \/ on = "instance" /\ Instance!PageInit

Next ==
  \/ on = "letters" /\ Dlq!LettersNext /\ UNCHANGED on
  \/ on = "tasks" /\ Inbox!TasksNext /\ UNCHANGED on
  \/ on = "board" /\ Board!BoardNext /\ UNCHANGED on
  \/ on = "instance" /\ Instance!PageNext /\ UNCHANGED on

\* Fetches of the panel are answered, and a handler that was answered goes on.
Fairness ==
  /\ WF_vars(on = "tasks" /\ Inbox!PaneFetch /\ UNCHANGED on)
  /\ WF_vars(on = "board" /\ Board!StartGoesOn /\ UNCHANGED on)

Spec == Init /\ [][Next]_vars /\ Fairness

------------------------------------------------------------------------------
\* Every page keeps the shape of its state.
TypeOK ==
  /\ on = "letters" => Dlq!LettersTypeOK
  /\ on = "tasks" => Inbox!TasksTypeOK
  /\ on = "board" => Board!BoardTypeOK
  /\ on = "instance" => Instance!PageTypeOK

\* What a page shows before it is confirmed (a discarded entry, a cancelled instance) is so or
\* is being asked for, and what it collects from several fetches it shows once and in order.
ShownIsReal ==
  /\ TypeOK
  /\ on = "letters" => Dlq!DiscardShownIsReal
  /\ on = "instance" => Instance!CancelShownIsReal /\ Instance!TimelineInOrder

\* What a page sends belongs to what it is sent for: the values of a form to its task, a
\* version to the definition the dialog names.
SentIsShown ==
  /\ on = "tasks" => Inbox!FormsStayApart
  /\ on = "board" => Board!StartsWhatIsShown

\* What was confirmed has its consequence on the screen.  A completed task is no more offered
\* for completion, unless the fetch that would have said so failed; a started instance is opened
\* wherever the user is.
ConfirmedTakesEffect ==
  /\ \A t \in Tasks :
       (on = "tasks" /\ t \in ui.done) ~> (on = "tasks" => ~Inbox!MayComplete(t) \/ q.detail.failed)
  /\ (on = "board" /\ \E c \in calls : c.at = "first") ~> (on = "board" => ui.at = "instance")

==============================================================================
