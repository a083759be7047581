------------------------------- MODULE Console -------------------------------
(***************************************************************************)
(* The pages on which an administrator works: lists with operations, forms *)
(* of one record, lists read page by page, the registration of a tenant    *)
(* and the roll-out of a column to all companies.  One of them is on the   *)
(* screen at a time.                                                       *)
(***************************************************************************)
EXTENDS Naturals, Sequences

CONSTANTS
  MaxOpenings, MaxCalls,           \* ListPages
  MaxSaves, MaxOthers, MaxTyping,  \* DetailForms
  Items, MaxChanges,               \* Paging
  MaxAsks, MaxPolls, MaxVisits,    \* Onboarding
  Columns, Begun, Companies, MaxRollouts, MaxFaults  \* Rollouts

\* "none" is what the page of the rollout has in place of a column.
ASSUME ConsoleAssumption ==
  /\ {MaxOpenings, MaxCalls, MaxPolls} \subseteq Nat
  /\ Items \in Seq(STRING)
  /\ "none" \notin Columns /\ Begun \subseteq Columns

VARIABLES on, srv, ui, q, calls

vars == <<on, srv, ui, q, calls>>

List == INSTANCE ListPages
Detail == INSTANCE DetailForms
Pager == INSTANCE Paging
Registration == INSTANCE Onboarding
Rolling == INSTANCE Rollouts WITH MaxAsks <- MaxRollouts

Init ==
  \/ on = "list" /\ List!ListInit
  \/ on = "detail" /\ Detail!FormInit
  \/ on = "pager" /\ Pager!PagingInit /\ calls = {}
  \/ on = "registration" /\ Registration!OnboardingInit /\ q = "no query"
  \/ on = "rollout" /\ Rolling!RolloutInit

Next ==
  \/ on = "list" /\ List!ListNext /\ UNCHANGED on
  \/ on = "detail" /\ Detail!FormNext /\ UNCHANGED on
  \/ on = "pager" /\ Pager!PagingNext /\ UNCHANGED <<on, calls>>
  \/ on = "registration" /\ Registration!OnboardingNext /\ UNCHANGED <<on, q>>
  \/ on = "rollout" /\ Rolling!RolloutNext /\ UNCHANGED on

\* A list that is asked for is answered; a poll ticks, is handled, and its handler goes on.
Fairness ==
  /\ WF_vars(on = "list" /\ List!ListFetch /\ UNCHANGED on)
  /\ WF_vars(on = "registration" /\ Registration!Tick /\ UNCHANGED <<on, q>>)
  /\ WF_vars(on = "registration" /\ Registration!HandlePoll /\ UNCHANGED <<on, q>>)
  /\ WF_vars(on = "registration" /\ Registration!PollGoesOn /\ UNCHANGED <<on, q>>)

Spec == Init /\ [][Next]_vars /\ Fairness

------------------------------------------------------------------------------
\* Every page keeps the shape of its state.
TypeOK ==
  /\ on = "list" => List!ListTypeOK
  /\ on = "detail" => Detail!FormTypeOK
  /\ on = "registration" => Registration!OnboardingTypeOK

\* What a page shows and sends belongs together: an error to the form it stands in, what a form
\* of one record sends to what the user typed or its page had read, a cursor to the list that is
\* shown, a result to the registration it is of, an outcome to the company that it is of.  The
\* exceptions are those the code makes, named in the modules.
BelongsTogether ==
  /\ TypeOK
  /\ on = "list" => List!FormsStayApart
  /\ on = "detail" => Detail!SavesWhatWasTyped /\ Detail!TypingStays
  /\ on = "pager" => Pager!CursorsFit
  /\ on = "registration" => Registration!ResultIsReal
  /\ on = "rollout" => Rolling!ShowsItsRollout /\ Rolling!SucceededIsThere

\* An answer closes the form it answers and no other; the forms that the code lets close by an
\* earlier answer are named, and are in danger only if they were left or sent twice.
AnswersCloseTheirForm == [][on = "list" => List!AnswerClosesItsForm]_vars

\* The last change that a page confirmed comes to be in its list, unless the list cannot be
\* fetched or is no longer looked at; and a poll of a registration ends, with its result or with
\* the message that it failed, unless its page is left or hidden.
ConfirmedIsShown ==
  []<>(/\ on = "list" => List!Shows(ui.told)
       /\ on = "registration" => ui.at # "progress" \/ ui.error \/ ui.hidden)
==============================================================================
