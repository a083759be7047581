------------------------------ MODULE PageFacts ------------------------------
(***************************************************************************)
(* What each page of the console does with its operations: the button that *)
(* starts one, the form that asks, and the call that is made.              *)
(***************************************************************************)

\* A button is offered for some states of a row, or by the page itself (none), and may wait for
\* the answer of the last call of its operation.
Button(on, waits) == [on |-> on, waits |-> waits]
OnPage == Button({}, FALSE)

\* A form stands in the page or over it, or there is none and the button makes the call.  Its
\* submit button may wait for the answer, its cancel button too.  An error it shows is withdrawn
\* when it is opened, cancelled or sent.  Some are closed by a click beside them.
Form(kind, waits, holds, clears) ==
  [kind |-> kind, waits |-> waits, holds |-> holds, clears |-> clears, beside |-> FALSE]
NoForm == Form("none", FALSE, FALSE, {})

\* A call closes the form when it is sent, when it succeeds, or never; a refusal is told in the
\* form by whichever call it is, by the last one only, or not at all; a success fetches the
\* list again always, while the form is open, or not; it leads away from the page, if
\* that is still mounted or in any case; and it may make the call again.  The row
\* becomes one of the states, or stays.
Call(closes, tells, fetches, row) ==
  [closes |-> closes, tells |-> tells, fetches |-> fetches, row |-> row, leaves |-> "no", again |-> FALSE]

Op(button, form, call) == [button |-> button, form |-> form, call |-> call]

------------------------------------------------------------------------------
(* API tokens *)

IssueTokenButton == OnPage
IssueTokenForm == Form("inline", FALSE, FALSE, {"open", "cancel"})
IssueTokenCall == Call("done", "each", "always", {})

TokenRevocable == Button({"active"}, FALSE)
RevokeTokenForm == Form("modal", FALSE, FALSE, {})
\* Variant: the list is not fetched again.
RevokeTokenQuietly == Call("sent", "no", "no", {"revoked"})
RevokeTokenCall == Call("sent", "no", "always", {"revoked"})

Tokens == [
  issue |-> Op(IssueTokenButton, IssueTokenForm, IssueTokenCall),
  revoke |-> Op(TokenRevocable, RevokeTokenForm, RevokeTokenCall)]

------------------------------------------------------------------------------
(* Groups *)

CreateGroupForm == Form("inline", FALSE, FALSE, {})
CreateGroupCall == Call("done", "no", "always", {})

GroupButtons == Button({"here"}, FALSE)
MembersPanel == Form("modal", FALSE, FALSE, {})
MembersCall == Call("never", "no", "open", {})
DeleteGroupForm == Form("modal", FALSE, FALSE, {})
DeleteGroupCall == Call("sent", "no", "always", {"gone"})

Groups == [
  create |-> Op(OnPage, CreateGroupForm, CreateGroupCall),
  members |-> Op(GroupButtons, MembersPanel, MembersCall),
  delete |-> Op(GroupButtons, DeleteGroupForm, DeleteGroupCall)]

------------------------------------------------------------------------------
(* Tenants: deactivating and activating share a dialog and a call *)

LifecycleButtons == Button({"here"}, TRUE)
\* Variant: a new dialog keeps the error.
LifecycleDialogKeeps == Form("modal", TRUE, FALSE, {})
LifecycleDialog == Form("modal", TRUE, FALSE, {"open"})
LifecycleCall == Call("done", "each", "always", {})

Tenants == [lifecycle |-> Op(LifecycleButtons, LifecycleDialog, LifecycleCall)]

------------------------------------------------------------------------------
(* Users *)

CreateUserForm == Form("inline", TRUE, FALSE, {"cancel"})
CreateUserCall == [Call("done", "each", "always", {}) EXCEPT !.leaves = "always"]

Users == [create |-> Op(OnPage, CreateUserForm, CreateUserCall)]

------------------------------------------------------------------------------
(* Webhook subscriptions *)

CreateWebhookForm == Form("inline", TRUE, FALSE, {})
CreateWebhookCall == Call("done", "no", "always", {})
ToggleWebhook == Button({"here"}, FALSE)
ToggleWebhookCall == Call("sent", "no", "always", {})
DeleteWebhook == Button({"here"}, TRUE)
DeleteWebhookCall == Call("sent", "no", "always", {"gone"})

Webhooks == [
  create |-> Op(OnPage, CreateWebhookForm, CreateWebhookCall),
  toggle |-> Op(ToggleWebhook, NoForm, ToggleWebhookCall),
  delete |-> Op(DeleteWebhook, NoForm, DeleteWebhookCall)]

------------------------------------------------------------------------------
(* Services: the error of a form is that of its last call *)

ServiceButtons == Button({"published", "retired"}, FALSE)
RetireButton == Button({"published"}, FALSE)

RegisterServiceForm == Form("modal", TRUE, FALSE, {"send"})
ScopeForm == Form("modal", TRUE, FALSE, {"send"})
DeleteServiceForm == Form("modal", TRUE, FALSE, {"send"})
PublishForm == Form("modal", TRUE, FALSE, {"send"})
RetireForm == Form("modal", TRUE, FALSE, {"send"})

RegisterServiceCall == Call("done", "last", "always", {})
ScopeCall == Call("done", "last", "always", {})
DeleteServiceCall == Call("done", "last", "always", {"gone"})
PublishCall == Call("done", "last", "always", {"published"})
RetireCall == Call("done", "last", "always", {"retired"})

Services == [
  create |-> Op(OnPage, RegisterServiceForm, RegisterServiceCall),
  scope |-> Op(ServiceButtons, ScopeForm, ScopeCall),
  delete |-> Op(ServiceButtons, DeleteServiceForm, DeleteServiceCall),
  publish |-> Op(ServiceButtons, PublishForm, PublishCall),
  retire |-> Op(RetireButton, RetireForm, RetireCall)]

------------------------------------------------------------------------------
(* Records of an entity: creating and editing share the form and its error.  Escape closes the *)
(* confirmation, whatever it waits for.                                                        *)

SaveRecordButton == OnPage
SaveRecordForm == Form("modal", TRUE, TRUE, {"open", "cancel"})
SaveRecordCall == Call("done", "each", "always", {})
DeleteRecordButton == Button({"here"}, FALSE)
DeleteRecordForm == Form("modal", TRUE, FALSE, {})
DeleteRecordCall == Call("done", "each", "always", {"gone"})

Records == [
  save |-> Op(SaveRecordButton, SaveRecordForm, SaveRecordCall),
  delete |-> Op(DeleteRecordButton, DeleteRecordForm, DeleteRecordCall)]

------------------------------------------------------------------------------
(* Process definitions; while a search is shown, its results are another list *)

CreateDefinitionForm == [Form("modal", TRUE, FALSE, {"cancel", "send"}) EXCEPT !.beside = TRUE]
CreateDefinitionCall == [Call("done", "each", "always", {}) EXCEPT !.leaves = "mounted"]
ImportCall == [Call("sent", "no", "always", {}) EXCEPT !.leaves = "always"]
ActivateButton == Button({"draft"}, TRUE)
ActivateCall == Call("sent", "no", "always", {"active"})
ArchiveButton == Button({"active", "deprecated"}, TRUE)
ArchiveCall == Call("sent", "no", "always", {"archived"})

Definitions == [
  create |-> Op(OnPage, CreateDefinitionForm, CreateDefinitionCall),
  import |-> Op(OnPage, NoForm, ImportCall),
  activate |-> Op(ActivateButton, NoForm, ActivateCall),
  archive |-> Op(ArchiveButton, NoForm, ArchiveCall)]

Found == [
  activate |-> Op(ActivateButton, NoForm, [ActivateCall EXCEPT !.fetches = "no"]),
  archive |-> Op(ArchiveButton, NoForm, [ArchiveCall EXCEPT !.fetches = "no"])]

------------------------------------------------------------------------------
(* Rolling back a definition: its versions are what is listed *)

\* Variant: the panel can be cancelled while its call is under way.
RollbackPanelLetsGo == Form("inline", TRUE, FALSE, {"open", "cancel", "send"})
RollbackPanel == Form("inline", TRUE, TRUE, {"open", "cancel", "send"})
RollbackButton == OnPage
RollbackCall == Call("done", "each", "always", {})

Rollback == [rollback |-> Op(RollbackButton, RollbackPanel, RollbackCall)]

------------------------------------------------------------------------------
(* Modules, and the shares of the one whose drawer is open.  A revocation that succeeds is made *)
(* again by the page, and whatever comes of that closes the dialog.                             *)

PublishModuleButton == Button({"draft"}, TRUE)
PublishModuleCall == Call("sent", "no", "always", {"active"})
GrantDialog == [Form("modal", TRUE, FALSE, {"send"}) EXCEPT !.beside = TRUE]
GrantCall == Call("done", "each", "always", {})
RevokeShareButton == Button({"shared"}, FALSE)
RevokeShareDialog == [Form("modal", TRUE, FALSE, {}) EXCEPT !.beside = TRUE]
RevokeShareCall == [Call("done", "no", "always", {"gone"}) EXCEPT !.again = TRUE]

Modules == [publish |-> Op(PublishModuleButton, NoForm, PublishModuleCall)]
Shares == [
  grant |-> Op(OnPage, GrantDialog, GrantCall),
  revoke |-> Op(RevokeShareButton, RevokeShareDialog, RevokeShareCall)]

------------------------------------------------------------------------------
\* A CASE, for only the page that is asked for need be evaluated.
OpsOf(page) ==
  CASE page = "tokens" -> Tokens [] page = "groups" -> Groups [] page = "tenants" -> Tenants
    [] page = "users" -> Users [] page = "webhooks" -> Webhooks [] page = "services" -> Services
    [] page = "records" -> Records [] page = "definitions" -> Definitions [] page = "found" -> Found
    [] page = "rollback" -> Rollback [] page = "modules" -> Modules [] page = "shares" -> Shares

\* The state of the row a page starts with, as far as its buttons tell states apart.
FirstRow == [
  tokens |-> "active", groups |-> "here", tenants |-> "here", users |-> "here",
  webhooks |-> "here", services |-> "published", records |-> "here",
  definitions |-> "draft", found |-> "draft", rollback |-> "here",
  modules |-> "draft", shares |-> "shared"]
==============================================================================
