----------------------------- MODULE ConsoleProofs -----------------------------
(***************************************************************************)
(* What the web client's console and the session it runs in keep, for any  *)
(* bounds.  The console has one invariant for each kind of page            *)
(* (ConsoleInv):                                                           *)
(*   - a list: the opening every error, answer and call of a form belongs  *)
(*     to, the calls being numbered in the order they were sent;           *)
(*   - a form of one record: a field nobody typed into is what was read;   *)
(*   - a list read by cursors: the cursors kept are the trail of the page  *)
(*     shown, under its filter;                                            *)
(*   - a registration: what the page says is so, and its requests and      *)
(*     polls are those of this visit;                                      *)
(*   - a roll-out: at each of its statements what a request has read still *)
(*     holds, and a column completed by one request alone stays complete.  *)
(* Then the session: while no two switches overlap, the one under way      *)
(* leaves the tenant of the session, and the rows cached and asked for are *)
(* of that tenant or of none; the callback page starts with nothing.       *)
(***************************************************************************)
EXTENDS Session, Console, SequenceTheorems, FiniteSetTheorems, WellFoundedInduction, TLAPS

Fetched == {"has", "data", "old", "failed", "fetch", "read"}
IsQuery(x) == DOMAIN x = Fetched /\ x.fetch \in {"no", "sent", "read"}

\* What a page does with a query leaves it a query, of what it had or of what it had read.
Derived(y, x) ==
  /\ IsQuery(y) /\ y.data \in {x.data, x.read} /\ y.read \in {x.data, x.read}
  /\ y.fetch = "read" => x.fetch = "read" /\ y.read = x.read

-----------------------------------------------------------------------------
(* Lists with operations: what each page does (PageFacts) *)

\* A form that is closed neither while its call is under way nor opened again before the answer.
HeldForm(op) == op.form.waits /\ ~op.form.beside /\ (op.button.waits \/ op.form.holds)

\* Only a form tells of a refusal, and such a form is closed by its success.  It is cleared when it opens or
\* whenever it is closed, unless it is one in which an old error may stand; it waits for its answer, unless it may
\* be sent twice; and an answer closes it as it is, or leads away, unless an earlier one may close it.
OpSound(op, stale, double, stray) ==
  /\ op.call.tells \in {"no", "each", "last"}
  /\ op.call.again \in BOOLEAN /\ (op.call.again => op.call.closes = "done")
  /\ op.form.kind = "none" => op.call.closes # "done"
  /\ op.call.tells # "no" => op.call.closes = "done" /\ ~op.call.again
  /\ op.call.tells = "last" => stale
  /\ op.call.tells # "no" /\ ~stale =>
       "open" \in op.form.clears \/ ("cancel" \in op.form.clears /\ ~op.form.beside)
  /\ op.form.kind # "none" /\ ~double => op.form.waits \/ op.call.closes = "sent"
  /\ op.call.closes = "done" /\ ~stray =>
       ~op.call.again /\ (op.call.leaves \in {"always", "mounted"} \/ HeldForm(op))

LEMMA OpFacts ==
  ASSUME ui.page \in DOMAIN List!FirstRow, DOMAIN ui.forms = DOMAIN List!OpsOf(ui.page), NEW o \in List!Ops
  PROVE  OpSound(List!Of(o), o \in List!StaleErrors, o \in List!Doubles, o \in List!Strays)
  <1>0. ui.page \in {"tokens", "groups", "tenants", "users", "webhooks", "services", "records", "definitions",
                    "found", "rollback", "modules", "shares"}
    BY DEF List!FirstRow
  <1> USE DEF OpSound, HeldForm, List!Op, List!Button, List!Form, List!Call, List!OnPage, List!NoForm
  <1>1. CASE ui.page = "tokens"
    <2>1. List!OpsOf(ui.page) = List!Tokens /\ List!Ops = {"issue", "revoke"}
      BY <1>1 DEF List!OpsOf, List!Tokens, List!Ops
    <2>2. List!StaleErrors = {} /\ List!Doubles = {"issue"} /\ List!Strays = {"issue"}
      BY <1>1, <2>1 DEF List!StaleErrors, List!Doubles, List!Strays
    <2>3. OpSound(List!Tokens.issue, FALSE, TRUE, TRUE)
      BY DEF List!Tokens, List!IssueTokenButton, List!IssueTokenForm, List!IssueTokenCall
    <2>4. OpSound(List!Tokens.revoke, FALSE, FALSE, FALSE)
      BY DEF List!Tokens, List!TokenRevocable, List!RevokeTokenForm, List!RevokeTokenCall
    <2> QED
      BY <2>1, <2>2, <2>3, <2>4 DEF List!Of
  <1>2. CASE ui.page = "groups"
    <2>1. List!OpsOf(ui.page) = List!Groups /\ List!Ops = {"create", "delete", "members"}
      BY <1>2 DEF List!OpsOf, List!Groups, List!Ops
    <2>2. List!StaleErrors = {} /\ List!Doubles = {"create", "members"} /\ List!Strays = {"create"}
      BY <1>2, <2>1 DEF List!StaleErrors, List!Doubles, List!Strays
    <2>3. OpSound(List!Groups.create, FALSE, TRUE, TRUE)
      BY DEF List!Groups, List!CreateGroupForm, List!CreateGroupCall
    <2>4. OpSound(List!Groups.members, FALSE, TRUE, FALSE)
      BY DEF List!Groups, List!GroupButtons, List!MembersPanel, List!MembersCall
    <2>5. OpSound(List!Groups.delete, FALSE, FALSE, FALSE)
      BY DEF List!Groups, List!GroupButtons, List!DeleteGroupForm, List!DeleteGroupCall
    <2> QED
      BY <2>1, <2>2, <2>3, <2>4, <2>5 DEF List!Of
  <1>3. CASE ui.page = "tenants"
    <2>1. List!OpsOf(ui.page) = List!Tenants /\ List!Ops = {"lifecycle"}
      BY <1>3 DEF List!OpsOf, List!Tenants, List!Ops
    <2>2. List!StaleErrors = {} /\ List!Doubles = {} /\ List!Strays = {}
      BY <1>3, <2>1 DEF List!StaleErrors, List!Doubles, List!Strays
    <2>3. OpSound(List!Tenants.lifecycle, FALSE, FALSE, FALSE)
      BY DEF List!Tenants, List!LifecycleButtons, List!LifecycleDialog, List!LifecycleCall
    <2> QED
      BY <2>1, <2>2, <2>3 DEF List!Of
  <1>4. CASE ui.page = "users"
    <2>1. List!OpsOf(ui.page) = List!Users /\ List!Ops = {"create"}
      BY <1>4 DEF List!OpsOf, List!Users, List!Ops
    <2>2. List!StaleErrors = {} /\ List!Doubles = {} /\ List!Strays = {}
      BY <1>4, <2>1 DEF List!StaleErrors, List!Doubles, List!Strays
    <2>3. OpSound(List!Users.create, FALSE, FALSE, FALSE)
      BY DEF List!Users, List!CreateUserForm, List!CreateUserCall
    <2> QED
      BY <2>1, <2>2, <2>3 DEF List!Of
  <1>5. CASE ui.page = "webhooks"
    <2>1. List!OpsOf(ui.page) = List!Webhooks /\ List!Ops = {"create", "delete", "toggle"}
      BY <1>5 DEF List!OpsOf, List!Webhooks, List!Ops
    <2>2. List!StaleErrors = {} /\ List!Doubles = {} /\ List!Strays = {"create"}
      BY <1>5, <2>1 DEF List!StaleErrors, List!Doubles, List!Strays
    <2>3. OpSound(List!Webhooks.create, FALSE, FALSE, TRUE)
      BY DEF List!Webhooks, List!CreateWebhookForm, List!CreateWebhookCall
    <2>4. OpSound(List!Webhooks.toggle, FALSE, FALSE, FALSE)
      BY DEF List!Webhooks, List!ToggleWebhook, List!ToggleWebhookCall
    <2>5. OpSound(List!Webhooks.delete, FALSE, FALSE, FALSE)
      BY DEF List!Webhooks, List!DeleteWebhook, List!DeleteWebhookCall
    <2> QED
      BY <2>1, <2>2, <2>3, <2>4, <2>5 DEF List!Of
  <1>6. CASE ui.page = "services"
    <2>1. List!OpsOf(ui.page) = List!Services /\ List!Ops = {"create", "delete", "publish", "retire", "scope"}
      BY <1>6 DEF List!OpsOf, List!Services, List!Ops
    <2>2. List!StaleErrors = {"create", "delete", "publish", "retire", "scope"} /\ List!Doubles = {} /\ List!Strays = {"create", "delete", "publish", "retire", "scope"}
      BY <1>6, <2>1 DEF List!StaleErrors, List!Doubles, List!Strays
    <2>3. OpSound(List!Services.create, TRUE, FALSE, TRUE)
      BY DEF List!Services, List!RegisterServiceForm, List!RegisterServiceCall
    <2>4. OpSound(List!Services.scope, TRUE, FALSE, TRUE)
      BY DEF List!Services, List!ServiceButtons, List!ScopeForm, List!ScopeCall
    <2>5. OpSound(List!Services.delete, TRUE, FALSE, TRUE)
      BY DEF List!Services, List!ServiceButtons, List!DeleteServiceForm, List!DeleteServiceCall
    <2>6. OpSound(List!Services.publish, TRUE, FALSE, TRUE)
      BY DEF List!Services, List!ServiceButtons, List!PublishForm, List!PublishCall
    <2>7. OpSound(List!Services.retire, TRUE, FALSE, TRUE)
      BY DEF List!Services, List!RetireButton, List!RetireForm, List!RetireCall
    <2> QED
      BY <2>1, <2>2, <2>3, <2>4, <2>5, <2>6, <2>7 DEF List!Of
  <1>7. CASE ui.page = "records"
    <2>1. List!OpsOf(ui.page) = List!Records /\ List!Ops = {"delete", "save"}
      BY <1>7 DEF List!OpsOf, List!Records, List!Ops
    <2>2. List!StaleErrors = {"delete"} /\ List!Doubles = {} /\ List!Strays = {"delete"}
      BY <1>7, <2>1 DEF List!StaleErrors, List!Doubles, List!Strays
    <2>3. OpSound(List!Records.save, FALSE, FALSE, FALSE)
      BY DEF List!Records, List!SaveRecordButton, List!SaveRecordForm, List!SaveRecordCall
    <2>4. OpSound(List!Records.delete, TRUE, FALSE, TRUE)
      BY DEF List!Records, List!DeleteRecordButton, List!DeleteRecordForm, List!DeleteRecordCall
    <2> QED
      BY <2>1, <2>2, <2>3, <2>4 DEF List!Of
  <1>8. CASE ui.page = "definitions"
    <2>1. List!OpsOf(ui.page) = List!Definitions /\ List!Ops = {"activate", "archive", "create", "import"}
      BY <1>8 DEF List!OpsOf, List!Definitions, List!Ops
    <2>2. List!StaleErrors = {"create"} /\ List!Doubles = {} /\ List!Strays = {}
      BY <1>8, <2>1 DEF List!StaleErrors, List!Doubles, List!Strays
    <2>3. OpSound(List!Definitions.create, TRUE, FALSE, FALSE)
      BY DEF List!Definitions, List!CreateDefinitionForm, List!CreateDefinitionCall
    <2>4. OpSound(List!Definitions.import, FALSE, FALSE, FALSE)
      BY DEF List!Definitions, List!ImportCall
    <2>5. OpSound(List!Definitions.activate, FALSE, FALSE, FALSE)
      BY DEF List!Definitions, List!ActivateButton, List!ActivateCall
    <2>6. OpSound(List!Definitions.archive, FALSE, FALSE, FALSE)
      BY DEF List!Definitions, List!ArchiveButton, List!ArchiveCall
    <2> QED
      BY <2>1, <2>2, <2>3, <2>4, <2>5, <2>6 DEF List!Of
  <1>9. CASE ui.page = "found"
    <2>1. List!OpsOf(ui.page) = List!Found /\ List!Ops = {"activate", "archive"}
      BY <1>9 DEF List!OpsOf, List!Found, List!Ops
    <2>2. List!StaleErrors = {} /\ List!Doubles = {} /\ List!Strays = {}
      BY <1>9, <2>1 DEF List!StaleErrors, List!Doubles, List!Strays
    <2>3. OpSound(List!Found.activate, FALSE, FALSE, FALSE)
      BY DEF List!Found, List!ActivateButton, List!ActivateCall
    <2>4. OpSound(List!Found.archive, FALSE, FALSE, FALSE)
      BY DEF List!Found, List!ArchiveButton, List!ArchiveCall
    <2> QED
      BY <2>1, <2>2, <2>3, <2>4 DEF List!Of
  <1>10. CASE ui.page = "rollback"
    <2>1. List!OpsOf(ui.page) = List!Rollback /\ List!Ops = {"rollback"}
      BY <1>10 DEF List!OpsOf, List!Rollback, List!Ops
    <2>2. List!StaleErrors = {} /\ List!Doubles = {} /\ List!Strays = {}
      BY <1>10, <2>1 DEF List!StaleErrors, List!Doubles, List!Strays
    <2>3. OpSound(List!Rollback.rollback, FALSE, FALSE, FALSE)
      BY DEF List!Rollback, List!RollbackPanel, List!RollbackButton, List!RollbackCall
    <2> QED
      BY <2>1, <2>2, <2>3 DEF List!Of
  <1>11. CASE ui.page = "modules"
    <2>1. List!OpsOf(ui.page) = List!Modules /\ List!Ops = {"publish"}
      BY <1>11 DEF List!OpsOf, List!Modules, List!Ops
    <2>2. List!StaleErrors = {} /\ List!Doubles = {} /\ List!Strays = {}
      BY <1>11, <2>1 DEF List!StaleErrors, List!Doubles, List!Strays
    <2>3. OpSound(List!Modules.publish, FALSE, FALSE, FALSE)
      BY DEF List!Modules, List!PublishModuleButton, List!PublishModuleCall
    <2> QED
      BY <2>1, <2>2, <2>3 DEF List!Of
  <1>12. CASE ui.page = "shares"
    <2>1. List!OpsOf(ui.page) = List!Shares /\ List!Ops = {"grant", "revoke"}
      BY <1>12 DEF List!OpsOf, List!Shares, List!Ops
    <2>2. List!StaleErrors = {"grant"} /\ List!Doubles = {} /\ List!Strays = {"grant", "revoke"}
      BY <1>12, <2>1 DEF List!StaleErrors, List!Doubles, List!Strays
    <2>3. OpSound(List!Shares.grant, TRUE, FALSE, TRUE)
      BY DEF List!Shares, List!GrantDialog, List!GrantCall
    <2>4. OpSound(List!Shares.revoke, FALSE, FALSE, TRUE)
      BY DEF List!Shares, List!RevokeShareButton, List!RevokeShareDialog, List!RevokeShareCall
    <2> QED
      BY <2>1, <2>2, <2>3, <2>4 DEF List!Of
  <1> HIDE DEF OpSound, HeldForm, List!Op, List!Button, List!Form, List!Call, List!OnPage, List!NoForm
  <1> QED
    BY <1>0, <1>1, <1>2, <1>3, <1>4, <1>5, <1>6, <1>7, <1>8, <1>9, <1>10, <1>11, <1>12

-----------------------------------------------------------------------------
(* Lists with operations: the forms and the calls *)

Forms == [open : Nat, error : Nat, last : Nat]
Current(c) == c.mount = ui.mount
HasForm(o) == List!Of(o).form.kind # "none"
ClosesByAnswer(o) == List!Of(o).call.closes = "done"

ListCalls == [n : Nat, op : List!Ops, opening : Nat, mount : Nat, at : {"sent", "handled"}, ok : BOOLEAN,
              change : Nat, again : BOOLEAN]

ListShape ==
  /\ DOMAIN ui = {"page", "mount", "here", "forms", "openings", "made", "told", "hurried"}
  /\ ui.page \in DOMAIN List!FirstRow /\ ui.forms \in [DOMAIN List!OpsOf(ui.page) -> Forms]
  /\ ui.mount \in Nat /\ ui.openings \in 0 .. MaxOpenings /\ ui.made \in 0 .. MaxCalls /\ ui.told \in Nat
  /\ ui.here \in BOOLEAN /\ ui.hurried \in BOOLEAN
  /\ calls \subseteq ListCalls
  /\ DOMAIN srv = {"row", "changes"} /\ srv.changes \in Nat

\* A form shows an error of its own, if any; what never tells of a refusal shows none.
FormFits(o) ==
  /\ ui.forms[o].open <= ui.openings /\ ui.forms[o].error <= ui.openings /\ ui.forms[o].last <= ui.made
  /\ ~ui.here \/ ~HasForm(o) => ui.forms[o].open = 0
  /\ List!Of(o).call.tells = "no" => ui.forms[o].error = 0
  /\ ~ui.hurried /\ o \notin List!StaleErrors =>
       /\ ui.forms[o].open # 0 => ui.forms[o].error \in {0, ui.forms[o].open}
       /\ ui.forms[o].open = 0 /\ "open" \notin List!Of(o).form.clears => ui.forms[o].error = 0

\* A call of the page as it is mounted is the last one of the opening it was made in, if that waits; and the form
\* it will close is the one it was made in, if that is held or nothing was hurried.
CallFits(c) ==
  /\ c.n <= ui.made /\ c.opening <= ui.openings /\ c.mount <= ui.mount /\ (~ui.here => c.mount < ui.mount)
  /\ c.again => List!Of(c.op).call.again /\ (Current(c) => ui.hurried)
  /\ Current(c) /\ c.opening # 0 /\ c.opening = ui.forms[c.op].open /\ c.op \notin List!Doubles =>
       List!Of(c.op).form.waits /\ c.n = ui.forms[c.op].last /\ ~c.again
  /\ Current(c) /\ HasForm(c.op) /\ ClosesByAnswer(c.op) /\ HeldForm(List!Of(c.op)) /\ ~List!Of(c.op).call.again =>
       /\ c.n = ui.forms[c.op].last
       /\ ui.forms[c.op].open # 0 => c.opening = ui.forms[c.op].open
       /\ List!Of(c.op).form.holds => ui.forms[c.op].open # 0
  /\ Current(c) /\ HasForm(c.op) /\ ClosesByAnswer(c.op) /\ ~ui.hurried =>
       c.opening = ui.forms[c.op].open /\ c.opening # 0

Numbered == \A c, d \in calls : c.n = d.n => c = d
Single ==
  ~ui.hurried => \A c, d \in calls :
    Current(c) /\ Current(d) /\ c.op = d.op /\ HasForm(c.op) /\ ClosesByAnswer(c.op) => c = d

FormsInv == (\A o \in List!Ops : FormFits(o)) /\ (\A c \in calls : CallFits(c)) /\ Numbered /\ Single

\* What was read, confirmed or told happened.
QueryInv ==
  /\ IsQuery(q) /\ q.data.changes \in 0 .. srv.changes /\ q.read.changes \in 0 .. srv.changes
  /\ ui.told <= srv.changes /\ \A c \in calls : c.change <= srv.changes

ListInv == ListShape /\ FormsInv /\ QueryInv

\* The operations are those of the page.
LEMMA SamePage ==
  ASSUME ui'.page = ui.page, DOMAIN ui'.forms = DOMAIN ui.forms
  PROVE  /\ List!Ops' = List!Ops /\ List!StaleErrors' = List!StaleErrors
         /\ List!Doubles' = List!Doubles /\ List!Strays' = List!Strays
         /\ \A o : List!Of(o)' = List!Of(o) /\ HasForm(o)' = HasForm(o) /\ ClosesByAnswer(o)' = ClosesByAnswer(o)
  <1>1. List!Ops' = List!Ops
    BY DEF List!Ops
  <1>2. \A o : List!Of(o)' = List!Of(o)
    BY DEF List!Of
  <1> QED
    BY <1>1, <1>2 DEF List!StaleErrors, List!Doubles, List!Strays, HasForm, ClosesByAnswer

\* Only one form changes.
OnlyForm(o) ==
  /\ ui'.page = ui.page /\ DOMAIN ui'.forms = DOMAIN ui.forms /\ ui'.mount = ui.mount /\ ui'.here = ui.here
  /\ \A p \in List!Ops \ {o} : ui'.forms[p] = ui.forms[p]
  /\ ui'.openings \in Nat /\ ui'.made \in Nat /\ ui.openings <= ui'.openings /\ ui.made <= ui'.made
  /\ ui.hurried => ui'.hurried

\* That leaves the others, and their calls, as they were.
LEMMA OthersKeep ==
  ASSUME ListInv, NEW o, OnlyForm(o)
  PROVE  /\ \A p \in List!Ops \ {o} : FormFits(p)'
         /\ \A c \in calls : c.op # o => CallFits(c)'
  <1>0. /\ ui.openings \in Nat /\ ui.made \in Nat /\ \A p \in List!Ops : ui.forms[p] \in Forms
        /\ \A c \in calls : c.op \in List!Ops /\ c.n \in Nat /\ c.opening \in Nat
    BY DEF ListInv, ListShape, ListCalls, List!Ops
  <1>a. /\ ui'.page = ui.page /\ DOMAIN ui'.forms = DOMAIN ui.forms /\ ui'.mount = ui.mount /\ ui'.here = ui.here
        /\ ui'.openings \in Nat /\ ui'.made \in Nat /\ ui.openings <= ui'.openings /\ ui.made <= ui'.made
        /\ ui.hurried => ui'.hurried
    BY DEF OnlyForm
  <1>1. ASSUME NEW p \in List!Ops \ {o} PROVE FormFits(p)'
    <2>1. FormFits(p) /\ ui.forms[p] \in Forms /\ ui'.forms[p] = ui.forms[p]
      BY <1>0, <1>1 DEF ListInv, FormsInv, OnlyForm
    <2> QED
      BY <1>0, <2>1, <1>a, SamePage DEF FormFits, Forms
  <1>2. ASSUME NEW c \in calls, c.op # o PROVE CallFits(c)'
    <2>1. CallFits(c) /\ ui'.forms[c.op] = ui.forms[c.op]
      BY <1>0, <1>2 DEF ListInv, FormsInv, OnlyForm
    <2> QED
      BY <1>0, <2>1, <1>a, SamePage DEF CallFits, Current
  <1> QED
    BY <1>1, <1>2

\* What ListInv says of one form.
LEMMA FormFacts ==
  ASSUME ListInv
  PROVE  /\ ui.page \in DOMAIN List!FirstRow /\ ui.mount \in Nat /\ ui.here \in BOOLEAN /\ ui.hurried \in BOOLEAN
         /\ ui.openings \in Nat /\ ui.made \in Nat /\ ui.told \in Nat
         /\ DOMAIN ui = {"page", "mount", "here", "forms", "openings", "made", "told", "hurried"}
         /\ DOMAIN ui.forms = List!Ops /\ DOMAIN ui.forms = DOMAIN List!OpsOf(ui.page) /\ ui.forms \in [List!Ops -> Forms]
         /\ \A o \in List!Ops : /\ OpSound(List!Of(o), o \in List!StaleErrors, o \in List!Doubles, o \in List!Strays)
                                /\ ui.forms[o] \in Forms /\ FormFits(o)
         /\ \A c \in calls : /\ c.op \in List!Ops /\ c.n \in Nat /\ c.opening \in Nat /\ c.mount \in Nat /\ CallFits(c)
                             /\ DOMAIN c = {"n", "op", "opening", "mount", "at", "ok", "change", "again"}
                             /\ c.again \in BOOLEAN
  <1>1. /\ ui.page \in DOMAIN List!FirstRow /\ DOMAIN ui.forms = DOMAIN List!OpsOf(ui.page)
        /\ ui.forms \in [List!Ops -> Forms]
    BY DEF ListInv, ListShape, ListCalls, List!Ops
  <1>2. \A o \in List!Ops : OpSound(List!Of(o), o \in List!StaleErrors, o \in List!Doubles, o \in List!Strays)
    BY <1>1, OpFacts
  <1> QED
    BY <1>1, <1>2 DEF ListInv, ListShape, ListCalls, FormsInv

\* A form opens.
LEMMA OpensKeep ==
  ASSUME ListInv, NEW o \in List!Ops, List!Press(o), List!OpenForm(o), HasForm(o)
  PROVE  ListInv'
  <1> DEFINE n == ui.openings + 1
             e == List!Withdrawn(o, "open", ui.forms[o].error)
             f == [ui.forms[o] EXCEPT !.open = n, !.error = e]
  <1>0. /\ ui.forms[o] \in Forms /\ ui.forms \in [List!Ops -> Forms] /\ DOMAIN ui.forms = List!Ops
        /\ ui.openings \in Nat /\ ui.made \in Nat /\ FormFits(o) /\ ui.hurried \in BOOLEAN
        /\ DOMAIN ui = {"page", "mount", "here", "forms", "openings", "made", "told", "hurried"}
        /\ OpSound(List!Of(o), o \in List!StaleErrors, o \in List!Doubles, o \in List!Strays)
    BY FormFacts
  <1>1. /\ ui.here /\ ui.forms[o].open = 0 /\ ui.openings < MaxOpenings
        /\ ~(List!Of(o).button.waits /\ List!Pending(o))
        /\ ui' = [ui EXCEPT !.openings = ui.openings + 1, !.forms[o] = f] /\ UNCHANGED <<srv, q, calls>>
    BY <1>0 DEF List!Press, List!OpenForm, List!Form_
  <1>a. /\ List!Withdrawn(o, "open", ui.forms[o].error) \in {0, ui.forms[o].error}
        /\ "open" \in List!Of(o).form.clears => List!Withdrawn(o, "open", ui.forms[o].error) = 0
    BY DEF List!Withdrawn
  <1>b. ui.openings + 1 \in Nat /\ List!Withdrawn(o, "open", ui.forms[o].error) \in Nat
    BY <1>0, <1>a DEF Forms
  <1>2. f \in Forms /\ f.error = e /\ f.open = n /\ f.last = ui.forms[o].last
    <2>1. ui.forms[o] \in Forms /\ n \in Nat /\ e \in Nat
      BY <1>0, <1>b
    <2> HIDE DEF n, e
    <2> QED
      BY <2>1 DEF Forms
  <1> HIDE DEF f
  <1>4. /\ ui'.page = ui.page /\ ui'.mount = ui.mount /\ ui'.here = ui.here /\ ui'.openings = ui.openings + 1
        /\ ui'.made = ui.made /\ ui'.told = ui.told /\ ui'.hurried = ui.hurried /\ ui'.forms = [ui.forms EXCEPT ![o] = f]
        /\ DOMAIN ui' = DOMAIN ui
    BY <1>0, <1>1
  <1>5. ui'.forms[o] = f /\ DOMAIN ui'.forms = DOMAIN ui.forms /\ \A p \in List!Ops \ {o} : ui'.forms[p] = ui.forms[p]
    BY <1>0, <1>4
  <1>6. ListShape'
    <2>1. ui'.forms \in [DOMAIN List!OpsOf(ui'.page) -> Forms]
      BY <1>0, <1>2, <1>4, FormFacts
    <2>2. ui'.openings \in 0 .. MaxOpenings
      BY <1>0, <1>1, <1>4, ConsoleAssumption
    <2> QED
      BY <1>1, <1>4, <1>5, <2>1, <2>2, SamePage DEF ListInv, ListShape, ListCalls
  <1>7. /\ \A p \in List!Ops \ {o} : FormFits(p)'
        /\ \A c \in calls : c.op # o => CallFits(c)'
    <2>1. OnlyForm(o)
      BY <1>0, <1>4, <1>5 DEF OnlyForm
    <2> QED
      BY <2>1, OthersKeep
  <1>8. FormFits(o)'
    BY <1>0, <1>1, <1>a, <1>2, <1>4, <1>5, SamePage DEF FormFits, OpSound, Forms
  <1>9. ASSUME NEW c \in calls, c.op = o PROVE CallFits(c)'
    <2>1. CallFits(c) /\ c.n \in Nat /\ c.opening \in Nat /\ c.opening <= ui.openings /\ c.again \in BOOLEAN
      BY FormFacts DEF CallFits
    <2>2. ~(Current(c) /\ ClosesByAnswer(o) /\ HeldForm(List!Of(o)) /\ ~List!Of(o).call.again)
      <3> SUFFICES ASSUME Current(c), ClosesByAnswer(o), HeldForm(List!Of(o)), ~List!Of(o).call.again PROVE FALSE
        OBVIOUS
      <3>1. c.n = ui.forms[o].last /\ ~c.again /\ ~List!Of(o).form.holds
        BY <1>1, <1>9, <2>1 DEF CallFits
      <3>2. List!Pending(o)
        BY <3>1 DEF List!Pending, List!Form_
      <3> QED
        BY <1>1, <3>1, <3>2 DEF HeldForm
    <2>3. ~(Current(c) /\ ClosesByAnswer(o) /\ ~ui.hurried)
      BY <1>1, <1>9, <2>1 DEF CallFits
    <2> QED
      BY <1>0, <1>1, <1>2, <1>4, <1>5, <1>9, <2>1, <2>2, <2>3, SamePage DEF CallFits, Current
  <1>10. Numbered' /\ Single'
    <2>1. Numbered /\ Single
      BY DEF ListInv, FormsInv
    <2> QED
      BY <1>1, <1>4, <1>5, <2>1, SamePage DEF Numbered, Single, Current
  <1>11. QueryInv'
    BY <1>1, <1>4 DEF ListInv, QueryInv, IsQuery
  <1> QED
    BY <1>1, <1>4, <1>5, <1>6, <1>7, <1>8, <1>9, <1>10, <1>11, SamePage DEF ListInv, FormsInv

\* A form is sent, or a button makes a call.
LEMMA MakesKeep ==
  ASSUME ListInv, NEW o \in List!Ops, List!Make(o), ui.here,
         HasForm(o) => ui.forms[o].open # 0 /\ ~(List!Of(o).form.waits /\ List!Pending(o))
  PROVE  ListInv'
  <1> DEFINE n == ui.made + 1
             e == List!Withdrawn(o, "send", ui.forms[o].error)
             k == IF ClosesByAnswer(o) \/ List!Of(o).call.closes # "sent" THEN ui.forms[o].open ELSE 0
             f == [open |-> k, error |-> e, last |-> n]
  <1>p. PICK x : x = List!NewCall(o, n)
    OBVIOUS
  <1>0. /\ ui.forms[o] \in Forms /\ ui.forms \in [List!Ops -> Forms] /\ DOMAIN ui.forms = List!Ops
        /\ ui.openings \in Nat /\ ui.made \in Nat /\ ui.mount \in Nat /\ FormFits(o) /\ ui.hurried \in BOOLEAN
        /\ DOMAIN ui = {"page", "mount", "here", "forms", "openings", "made", "told", "hurried"}
        /\ OpSound(List!Of(o), o \in List!StaleErrors, o \in List!Doubles, o \in List!Strays)
    BY FormFacts
  <1>1. /\ ui.made + ui.mount < MaxCalls /\ calls' = calls \cup {x} /\ UNCHANGED <<srv, q>>
        /\ ui' = [ui EXCEPT !.made = n, !.hurried = ui.hurried \/ List!UnderWay(o), !.forms[o] = f]
    BY <1>0, <1>p DEF List!Make, List!Form_, ClosesByAnswer
  <1>a. e \in {0, ui.forms[o].error} /\ k \in {0, ui.forms[o].open} /\ n \in Nat /\ e \in Nat /\ k \in Nat
    BY <1>0 DEF List!Withdrawn, Forms
  <1>b. (ClosesByAnswer(o) => k = ui.forms[o].open) /\ (k # ui.forms[o].open => List!Of(o).call.closes = "sent")
        /\ (List!Of(o).call.closes = "sent" => k = 0)
    BY DEF ClosesByAnswer
  <1>c. x = [n |-> n, op |-> o, opening |-> ui.forms[o].open, mount |-> ui.mount, at |-> "sent", ok |-> FALSE,
             change |-> 0, again |-> FALSE]
    BY <1>p DEF List!NewCall, List!Form_
  <1>d. List!UnderWay(o) \in BOOLEAN /\ (List!UnderWay(o) <=>
          \E c \in calls : c.op = o /\ Current(c) /\ c.opening = ui.forms[o].open)
    BY DEF List!UnderWay, Current, List!Form_
  <1>2. f \in Forms /\ f.error = e /\ f.open = k /\ f.last = n
    <2> HIDE DEF n, e, k
    <2> QED
      BY <1>a DEF Forms
  <1>3. /\ x.n = n /\ x.op = o /\ x.opening = ui.forms[o].open /\ x.mount = ui.mount /\ x.again = FALSE /\ x.change = 0
        /\ x \in ListCalls
    <2>1. ui.forms[o].open \in Nat
      BY <1>0 DEF Forms
    <2> HIDE DEF n
    <2> QED
      BY <1>0, <1>a, <1>c, <2>1 DEF ListCalls
  <1>e. n = ui.made + 1
    OBVIOUS
  <1> HIDE DEF f, k, e, n
  <1>4. /\ ui'.page = ui.page /\ ui'.mount = ui.mount /\ ui'.here = ui.here /\ ui'.openings = ui.openings
        /\ ui'.made = n /\ ui'.told = ui.told /\ ui'.hurried = (ui.hurried \/ List!UnderWay(o))
        /\ ui'.forms = [ui.forms EXCEPT ![o] = f] /\ DOMAIN ui' = DOMAIN ui
    BY <1>0, <1>1
  <1>5. ui'.forms[o] = f /\ DOMAIN ui'.forms = DOMAIN ui.forms /\ \A p \in List!Ops \ {o} : ui'.forms[p] = ui.forms[p]
    BY <1>0, <1>4
  <1>6. ListShape'
    <2>1. ui'.forms \in [DOMAIN List!OpsOf(ui'.page) -> Forms]
      BY <1>0, <1>2, <1>4, FormFacts
    <2>2. ui'.made \in 0 .. MaxCalls
      BY <1>0, <1>1, <1>4, <1>e, ConsoleAssumption
    <2>3. ui'.hurried \in BOOLEAN
      BY <1>0, <1>4, <1>d
    <2> QED
      BY <1>1, <1>3, <1>4, <1>5, <2>1, <2>2, <2>3, SamePage DEF ListInv, ListShape, ListCalls
  <1>7. /\ \A p \in List!Ops \ {o} : FormFits(p)'
        /\ \A c \in calls : c.op # o => CallFits(c)'
    <2>1. OnlyForm(o)
      BY <1>0, <1>a, <1>e, <1>4, <1>5 DEF OnlyForm
    <2> QED
      BY <2>1, OthersKeep
  <1>8. FormFits(o)'
    <2>1. List!Of(o).call.closes = "sent" => List!Of(o).call.tells = "no"
      BY <1>0 DEF OpSound
    <2> QED
      BY <1>0, <1>a, <1>b, <1>e, <1>2, <1>4, <1>5, <2>1, SamePage DEF FormFits, Forms
  <1>9. ASSUME NEW c \in calls, c.op = o PROVE CallFits(c)' /\ ~(c.n = n)
    <2>1. CallFits(c) /\ c.n \in Nat /\ c.opening \in Nat /\ c.n <= ui.made /\ c.again \in BOOLEAN
      BY FormFacts DEF CallFits
    <2>2. c.n # n
      BY <1>0, <1>e, <2>1
    <2>3. ~(c.n = ui.forms[o].last /\ ~c.again /\ HasForm(o) /\ List!Of(o).form.waits)
      BY <1>9 DEF List!Pending, List!Form_
    <2>4. ~(Current(c) /\ HasForm(o) /\ ClosesByAnswer(o) /\ HeldForm(List!Of(o)) /\ ~List!Of(o).call.again)
      BY <1>9, <2>1, <2>3 DEF CallFits, HeldForm
    <2>5. ~(Current(c) /\ HasForm(o) /\ ClosesByAnswer(o) /\ ~ui'.hurried)
      BY <1>4, <1>9, <1>d, <2>1 DEF CallFits
    <2>6. ~(Current(c) /\ c.opening # 0 /\ c.opening = k /\ o \notin List!Doubles)
      <3>1. c.opening # 0 /\ c.opening = k => HasForm(o) /\ k = ui.forms[o].open
        BY <1>0, <1>a DEF FormFits
      <3> QED
        BY <1>9, <2>1, <2>3, <3>1 DEF CallFits
    <2> QED
      BY <1>0, <1>e, <1>2, <1>4, <1>5, <1>9, <2>1, <2>2, <2>4, <2>5, <2>6, SamePage DEF CallFits, Current
  <1>10. CallFits(x)'
    <2>1. ui.forms[o].open \in Nat /\ ui.forms[o].open <= ui.openings /\ (~HasForm(o) => ui.forms[o].open = 0)
      BY <1>0 DEF FormFits, Forms
    <2>2. k # 0 /\ o \notin List!Doubles => List!Of(o).form.waits
      BY <1>0, <1>b, <1>a, <2>1 DEF OpSound, HasForm
    <2> QED
      BY <1>0, <1>a, <1>b, <1>e, <1>2, <1>3, <1>4, <1>5, <2>1, <2>2, SamePage DEF CallFits, Current
  <1>11. Numbered'
    <2>1. \A c \in calls : c.n # n
      BY <1>0, <1>e, FormFacts DEF CallFits
    <2> QED
      BY <1>1, <1>3, <2>1 DEF ListInv, FormsInv, Numbered
  <1>12. Single'
    <2>1. \A c \in calls : ~(c.op = o /\ Current(c) /\ HasForm(o) /\ ClosesByAnswer(o) /\ ~ui'.hurried)
      <3> SUFFICES ASSUME NEW c \in calls, c.op = o, Current(c), HasForm(o), ClosesByAnswer(o), ~ui'.hurried PROVE FALSE
        OBVIOUS
      <3>1. CallFits(c) /\ ~ui.hurried
        BY <1>4, FormFacts
      <3> QED
        BY <1>4, <1>d, <3>1 DEF CallFits
    <2>2. ~ui'.hurried => ~ui.hurried
      BY <1>4
    <2> QED
      BY <1>1, <1>3, <1>4, <1>5, <2>1, <2>2, SamePage DEF ListInv, FormsInv, Single, Current
  <1>13. QueryInv'
    BY <1>1, <1>3, <1>4 DEF ListInv, ListShape, ListCalls, QueryInv, IsQuery
  <1> QED
    BY <1>1, <1>4, <1>5, <1>6, <1>7, <1>8, <1>9, <1>10, <1>11, <1>12, <1>13, SamePage DEF ListInv, FormsInv

\* A form is left: by its cancel button, or by a click beside it.
LEMMA ClosesKeep ==
  ASSUME ListInv, NEW o \in List!Ops, List!Cancel(o) \/ List!ClickBeside(o)
  PROVE  ListInv'
  <1>0. /\ ui.forms[o] \in Forms /\ ui.forms \in [List!Ops -> Forms] /\ DOMAIN ui.forms = List!Ops
        /\ ui.openings \in Nat /\ ui.made \in Nat /\ ui.mount \in Nat /\ FormFits(o) /\ ui.hurried \in BOOLEAN
        /\ DOMAIN ui = {"page", "mount", "here", "forms", "openings", "made", "told", "hurried"}
        /\ OpSound(List!Of(o), o \in List!StaleErrors, o \in List!Doubles, o \in List!Strays)
    BY FormFacts
  <1>1. \E e \in {0, ui.forms[o].error} :
          /\ ui' = [ui EXCEPT !.forms[o].open = 0, !.forms[o].error = e, !.hurried = ui.hurried \/ List!UnderWay(o)]
          /\ "cancel" \in List!Of(o).form.clears /\ ~List!Of(o).form.beside => e = 0
    BY DEF List!Cancel, List!ClickBeside, List!CloseForm, List!Form_, List!Withdrawn
  <1>2. /\ ui.here /\ ui.forms[o].open # 0 /\ UNCHANGED <<srv, q, calls>>
        /\ List!Of(o).form.beside \/ ~(List!Of(o).form.holds /\ List!Pending(o))
    BY DEF List!Cancel, List!ClickBeside, List!CloseForm, List!Form_
  <1>3. PICK e \in {0, ui.forms[o].error} :
          /\ ui' = [ui EXCEPT !.forms[o].open = 0, !.forms[o].error = e, !.hurried = ui.hurried \/ List!UnderWay(o)]
          /\ "cancel" \in List!Of(o).form.clears /\ ~List!Of(o).form.beside => e = 0
    BY <1>1
  <1> DEFINE f == [ui.forms[o] EXCEPT !.open = 0, !.error = e]
  <1>4. f \in Forms /\ f.error = e /\ f.open = 0 /\ f.last = ui.forms[o].last
    <2>1. ui.forms[o] \in Forms /\ e \in Nat
      BY <1>0 DEF Forms
    <2> QED
      BY <2>1 DEF Forms
  <1>d. List!UnderWay(o) \in BOOLEAN /\ (List!UnderWay(o) <=>
          \E c \in calls : c.op = o /\ Current(c) /\ c.opening = ui.forms[o].open)
    BY DEF List!UnderWay, Current, List!Form_
  <1>5. /\ ui'.page = ui.page /\ ui'.mount = ui.mount /\ ui'.here = ui.here /\ ui'.openings = ui.openings
        /\ ui'.made = ui.made /\ ui'.told = ui.told /\ ui'.hurried = (ui.hurried \/ List!UnderWay(o))
        /\ DOMAIN ui' = DOMAIN ui
    BY <1>0, <1>3
  <1>6. ui'.forms = [ui.forms EXCEPT ![o] = f]
    BY <1>0, <1>3
  <1> HIDE DEF f
  <1>7. ui'.forms[o] = f /\ DOMAIN ui'.forms = DOMAIN ui.forms /\ \A p \in List!Ops \ {o} : ui'.forms[p] = ui.forms[p]
    BY <1>0, <1>6
  <1>8. ListShape'
    <2>1. ui'.forms \in [DOMAIN List!OpsOf(ui'.page) -> Forms]
      BY <1>0, <1>4, <1>5, <1>6, FormFacts
    <2>2. ui'.hurried \in BOOLEAN
      BY <1>0, <1>5, <1>d
    <2> QED
      BY <1>2, <1>5, <1>7, <2>1, <2>2, SamePage DEF ListInv, ListShape, ListCalls
  <1>9. /\ \A p \in List!Ops \ {o} : FormFits(p)'
        /\ \A c \in calls : c.op # o => CallFits(c)'
    <2>1. OnlyForm(o)
      BY <1>0, <1>5, <1>7 DEF OnlyForm
    <2> QED
      BY <2>1, OthersKeep
  <1>10. FormFits(o)'
    BY <1>0, <1>2, <1>3, <1>4, <1>5, <1>7, SamePage DEF FormFits, OpSound, Forms
  <1>11. ASSUME NEW c \in calls, c.op = o PROVE CallFits(c)'
    <2>1. CallFits(c) /\ c.n \in Nat /\ c.opening \in Nat /\ c.again \in BOOLEAN
      BY FormFacts
    <2>2. ~(/\ Current(c) /\ HasForm(o) /\ ClosesByAnswer(o) /\ HeldForm(List!Of(o)) /\ ~List!Of(o).call.again
            /\ List!Of(o).form.holds)
      <3>1. ~(c.n = ui.forms[o].last /\ ~c.again /\ List!Of(o).form.holds /\ ~List!Of(o).form.beside)
        BY <1>2 DEF List!Pending, List!Form_
      <3> QED
        BY <1>11, <2>1, <3>1 DEF CallFits, HeldForm
    <2>3. ~(Current(c) /\ HasForm(o) /\ ClosesByAnswer(o) /\ ~ui'.hurried)
      BY <1>5, <1>11, <1>d, <2>1 DEF CallFits
    <2> QED
      BY <1>0, <1>4, <1>5, <1>7, <1>11, <2>1, <2>2, <2>3, SamePage DEF CallFits, Current
  <1>12. Numbered' /\ Single'
    <2>1. ~ui'.hurried => ~ui.hurried
      BY <1>5
    <2> QED
      BY <1>2, <1>5, <1>7, <2>1, SamePage DEF ListInv, FormsInv, Numbered, Single, Current
  <1>13. QueryInv'
    BY <1>2, <1>5 DEF ListInv, QueryInv, IsQuery
  <1> QED
    BY <1>2, <1>5, <1>7, <1>8, <1>9, <1>10, <1>11, <1>12, <1>13, SamePage DEF ListInv, FormsInv

-----------------------------------------------------------------------------
(* Lists with operations: answers *)

\* The same call, further on.
Echo(d, c) == d.n = c.n /\ d.op = c.op /\ d.opening = c.opening /\ d.mount = c.mount

\* One call went on, or is over.
WentOn(c, d) == Echo(d, c) /\ d \in ListCalls /\ calls' \subseteq (calls \ {c}) \cup {d}

LEMMA EchoesKeep ==
  ASSUME ListInv, NEW c \in calls, NEW d, WentOn(c, d)
  PROVE  /\ Numbered' /\ calls' \subseteq ListCalls
         /\ \A x \in calls' : \E y \in calls : Echo(x, y) /\ (x = y \/ (x = d /\ y = c))
  <1>1. calls \subseteq ListCalls /\ Numbered
    BY DEF ListInv, ListShape, FormsInv
  <1>2. \A x \in calls' : \E y \in calls : Echo(x, y) /\ (x = y \/ (x = d /\ y = c))
    BY DEF WentOn, Echo
  <1>3. Numbered'
    BY <1>1 DEF WentOn, Echo, Numbered
  <1> QED
    BY <1>1, <1>2, <1>3 DEF WentOn

\* The forms stay; a call is made again only if the page it was made from was left.
LEMMA StillKeeps ==
  ASSUME ListInv, ListShape', QueryInv', NEW c \in calls, NEW d, WentOn(c, d),
         d.again = c.again \/ (d.again = TRUE /\ List!Of(c.op).call.again /\ ~Current(c)),
         ui'.page = ui.page, ui'.mount = ui.mount, ui'.here = ui.here, ui'.forms = ui.forms,
         ui'.openings = ui.openings, ui'.made = ui.made, ui'.hurried = ui.hurried
  PROVE  ListInv'
  <1>1. Numbered' /\ \A x \in calls' : \E y \in calls : Echo(x, y) /\ (x = y \/ (x = d /\ y = c))
    BY EchoesKeep
  <1>2. /\ List!Ops' = List!Ops /\ List!StaleErrors' = List!StaleErrors
        /\ List!Doubles' = List!Doubles
        /\ \A o : List!Of(o)' = List!Of(o) /\ HasForm(o)' = HasForm(o) /\ ClosesByAnswer(o)' = ClosesByAnswer(o)
    BY SamePage
  <1>3. \A o \in List!Ops : FormFits(o)'
    BY <1>2 DEF ListInv, FormsInv, FormFits
  <1>4. ASSUME NEW x \in calls' PROVE CallFits(x)'
    <2>1. PICK y \in calls : Echo(x, y) /\ (x = y \/ (x = d /\ y = c))
      BY <1>1
    <2>2. CallFits(y)
      BY DEF ListInv, FormsInv
    <2>3. x.again = y.again \/ (x.again = TRUE /\ List!Of(y.op).call.again /\ ~Current(y))
      BY <2>1
    <2> QED
      BY <1>2, <2>1, <2>2, <2>3 DEF Echo, CallFits, Current
  <1>5. Single'
    <2> SUFFICES ASSUME ~ui'.hurried, NEW x \in calls', NEW z \in calls', x.mount = ui.mount, z.mount = ui.mount,
                        x.op = z.op, HasForm(x.op), ClosesByAnswer(x.op)
                 PROVE  x = z
      BY <1>2 DEF Single, Current
    <2>1. PICK y \in calls : Echo(x, y) /\ (x = y \/ (x = d /\ y = c))
      BY <1>1
    <2>2. PICK w \in calls : Echo(z, w) /\ (z = w \/ (z = d /\ w = c))
      BY <1>1
    <2>3. y = w
      BY <2>1, <2>2 DEF Echo, ListInv, FormsInv, Single, Current
    <2>4. x.n = z.n
      BY <2>1, <2>2, <2>3 DEF Echo
    <2> QED
      BY <1>1, <2>4 DEF Numbered
  <1> QED
    BY <1>1, <1>2, <1>3, <1>4, <1>5 DEF ListInv, FormsInv

\* The page is left: by its user, or because an answer leads away.
LEMMA GoneKeeps ==
  ASSUME ListInv, ListShape', QueryInv',
         Numbered', \A x \in calls' : \E y \in calls : Echo(x, y) /\ (x.again = y.again \/ List!Of(y.op).call.again),
         ui'.page = ui.page, ui'.mount = ui.mount + 1, ui'.here = FALSE, ui'.forms = [o \in List!Ops |-> List!Free],
         ui'.openings = ui.openings, ui'.made = ui.made, ui'.hurried = ui.hurried
  PROVE  ListInv'
  <1>1. ui.openings \in Nat /\ ui.made \in Nat /\ ui.mount \in Nat /\ DOMAIN ui.forms = List!Ops
        /\ \A y \in calls : CallFits(y) /\ y.mount \in Nat
    BY FormFacts
  <1>2. /\ List!Ops' = List!Ops /\ List!StaleErrors' = List!StaleErrors
        /\ List!Doubles' = List!Doubles
        /\ \A o : List!Of(o)' = List!Of(o) /\ HasForm(o)' = HasForm(o) /\ ClosesByAnswer(o)' = ClosesByAnswer(o)
    BY <1>1, SamePage
  <1>3. \A o \in List!Ops : FormFits(o)'
    BY <1>1, <1>2 DEF FormFits, List!Free
  <1>4. ASSUME NEW x \in calls' PROVE CallFits(x)' /\ ~Current(x)'
    <2>1. PICK y \in calls : Echo(x, y) /\ (x.again = y.again \/ List!Of(y.op).call.again)
      OBVIOUS
    <2>2. x.mount <= ui.mount /\ x.mount \in Nat
      BY <1>1, <2>1 DEF CallFits, Echo
    <2>3. x.mount < ui'.mount
      BY <1>1, <2>2
    <2>4. x.mount # ui'.mount
      BY <1>1, <2>2
    <2> QED
      BY <1>1, <1>2, <2>1, <2>2, <2>3, <2>4 DEF Echo, CallFits, Current
  <1>5. Single'
    BY <1>4 DEF Single
  <1> QED
    BY <1>2, <1>3, <1>4, <1>5 DEF ListInv, FormsInv

\* An answer closes its form.
LEMMA ClosedKeeps ==
  ASSUME ListInv, ListShape', QueryInv', NEW c \in calls, NEW d, WentOn(c, d), ui.here, Current(c),
         ClosesByAnswer(c.op), d \in calls' => d.again /\ List!Of(c.op).call.again /\ ui'.hurried,
         NEW e \in {0, ui.forms[c.op].error}, e = 0 \/ List!Of(c.op).call.again,
         ui'.page = ui.page, ui'.mount = ui.mount, ui'.here = ui.here, ui'.openings = ui.openings, ui'.made = ui.made,
         \A p \in List!Ops \ {c.op} : ui'.forms[p] = ui.forms[p], DOMAIN ui'.forms = List!Ops, ui'.forms[c.op].open = 0,
         ui'.forms[c.op].error = e, ui'.forms[c.op].last = ui.forms[c.op].last, ui.hurried => ui'.hurried
  PROVE  ListInv'
  <1> DEFINE o == c.op
  <1>0. /\ o \in List!Ops /\ ui.forms[o] \in Forms /\ DOMAIN ui.forms = List!Ops
        /\ ui.openings \in Nat /\ ui.made \in Nat /\ FormFits(o) /\ CallFits(c)
        /\ OpSound(List!Of(o), o \in List!StaleErrors, o \in List!Doubles, o \in List!Strays)
    BY FormFacts
  <1>1. Numbered' /\ \A x \in calls' : \E y \in calls : Echo(x, y) /\ (x = y \/ (x = d /\ y = c))
    BY EchoesKeep
  <1>2. /\ ui'.forms[o].open = 0 /\ ui'.forms[o].error = e /\ ui'.forms[o].last = ui.forms[o].last
        /\ DOMAIN ui'.forms = DOMAIN ui.forms /\ \A p \in List!Ops \ {o} : ui'.forms[p] = ui.forms[p]
    BY <1>0
  <1>3. /\ List!Ops' = List!Ops /\ List!StaleErrors' = List!StaleErrors
        /\ List!Doubles' = List!Doubles
        /\ \A p : List!Of(p)' = List!Of(p) /\ HasForm(p)' = HasForm(p) /\ ClosesByAnswer(p)' = ClosesByAnswer(p)
    BY <1>2, SamePage
  <1>4. /\ \A p \in List!Ops \ {o} : FormFits(p)'
        /\ \A x \in calls : x.op # o => CallFits(x)'
    <2>1. OnlyForm(o)
      BY <1>0, <1>2 DEF OnlyForm
    <2> QED
      BY <2>1, OthersKeep
  <1>5. FormFits(o)'
    <2>1. e = 0 \/ ui.forms[o].error = 0
      BY <1>0 DEF OpSound, FormFits
    <2>2. e = 0
      BY <2>1
    <2> QED
      BY <1>0, <1>2, <1>3, <2>2 DEF FormFits, Forms
  <1>6. HasForm(o)
    BY <1>0 DEF OpSound, HasForm, ClosesByAnswer
  <1>7. ASSUME NEW x \in calls', x.op = o PROVE CallFits(x)'
    <2>1. PICK y \in calls : Echo(x, y) /\ (x = y \/ (x = d /\ y = c))
      BY <1>1
    <2>2. y.op = o /\ CallFits(y) /\ (x.again => List!Of(o).call.again)
      <3>1. CallFits(y) /\ (y.again => List!Of(y.op).call.again)
        BY FormFacts DEF CallFits
      <3> QED
        BY <1>7, <2>1, <3>1 DEF Echo
    <2>3. CASE x = d
      BY <1>0, <1>2, <1>3, <1>7, <2>1, <2>2, <2>3 DEF Echo, CallFits, Current
    <2>4. CASE x # d
      <3>1. x = y /\ x # c
        BY <2>1, <2>4 DEF WentOn
      <3>2. ~(Current(x) /\ ~List!Of(o).call.again /\ HeldForm(List!Of(o)))
        <4> SUFFICES ASSUME Current(x), ~List!Of(o).call.again, HeldForm(List!Of(o)) PROVE FALSE
          OBVIOUS
        <4>1. x.n = ui.forms[o].last /\ c.n = ui.forms[o].last
          BY <1>0, <1>6, <2>2, <3>1 DEF CallFits
        <4> QED
          BY <3>1, <4>1 DEF ListInv, FormsInv, Numbered
      <3>3. ~(Current(x) /\ ~ui.hurried)
        BY <1>6, <2>2, <3>1 DEF ListInv, FormsInv, Single
      <3> QED
        BY <1>0, <1>2, <1>3, <2>2, <3>1, <3>2, <3>3 DEF CallFits, Current
    <2> QED
      BY <2>3, <2>4
  <1>8. \A x \in calls' : CallFits(x)'
    <2> SUFFICES ASSUME NEW x \in calls', x.op # o PROVE CallFits(x)'
      BY <1>7
    <2>1. x \in calls
      BY DEF WentOn, Echo
    <2> QED
      BY <1>4, <2>1
  <1>9. Single'
    <2> SUFFICES ASSUME ~ui'.hurried, NEW x \in calls', NEW z \in calls', x.mount = ui.mount, z.mount = ui.mount,
                        x.op = z.op, HasForm(x.op), ClosesByAnswer(x.op)
                 PROVE  x = z
      BY <1>3 DEF Single, Current
    <2>1. x \in calls /\ z \in calls
      BY DEF WentOn
    <2> QED
      BY <2>1 DEF ListInv, FormsInv, Single, Current
  <1> QED
    BY <1>1, <1>3, <1>4, <1>5, <1>8, <1>9 DEF ListInv, FormsInv

\* A refusal is told in its form, or nowhere.
LEMMA FailedKeeps ==
  ASSUME ListInv, ListShape', QueryInv', NEW c \in calls, calls' = calls \ {c}, Current(c), ui.here,
         NEW e \in {c.opening, ui.forms[c.op].error},
         e = ui.forms[c.op].error \/ List!Of(c.op).call.tells \in {"each", "last"},
         ui'.page = ui.page, ui'.mount = ui.mount, ui'.here = ui.here, ui'.openings = ui.openings, ui'.made = ui.made,
         ui'.forms = [ui.forms EXCEPT ![c.op].error = e], ui'.hurried = ui.hurried
  PROVE  ListInv'
  <1> DEFINE o == c.op
  <1>0. /\ o \in List!Ops /\ ui.forms[o] \in Forms /\ DOMAIN ui.forms = List!Ops
        /\ ui.openings \in Nat /\ ui.made \in Nat /\ FormFits(o) /\ CallFits(c) /\ c.opening \in Nat
        /\ OpSound(List!Of(o), o \in List!StaleErrors, o \in List!Doubles, o \in List!Strays)
    BY FormFacts
  <1>2. /\ ui'.forms[o].open = ui.forms[o].open /\ ui'.forms[o].error = e /\ ui'.forms[o].last = ui.forms[o].last
        /\ DOMAIN ui'.forms = DOMAIN ui.forms /\ \A p \in List!Ops \ {o} : ui'.forms[p] = ui.forms[p]
    BY <1>0 DEF Forms
  <1>3. /\ List!Ops' = List!Ops /\ List!StaleErrors' = List!StaleErrors
        /\ List!Doubles' = List!Doubles
        /\ \A p : List!Of(p)' = List!Of(p) /\ HasForm(p)' = HasForm(p) /\ ClosesByAnswer(p)' = ClosesByAnswer(p)
    BY <1>2, SamePage
  <1>4. /\ \A p \in List!Ops \ {o} : FormFits(p)'
        /\ \A x \in calls : x.op # o => CallFits(x)'
    <2>1. OnlyForm(o)
      BY <1>0, <1>2 DEF OnlyForm
    <2> QED
      BY <2>1, OthersKeep
  <1>5. FormFits(o)'
    <2>1. CASE e = ui.forms[o].error
      BY <1>0, <1>2, <1>3, <2>1 DEF FormFits, Forms
    <2>2. CASE e = c.opening /\ List!Of(o).call.tells \in {"each", "last"}
      <3>1. HasForm(o) /\ ClosesByAnswer(o) /\ List!Of(o).call.tells # "no"
        BY <1>0, <2>2 DEF OpSound, HasForm, ClosesByAnswer
      <3>2. ~ui.hurried => e = ui.forms[o].open /\ e # 0
        BY <1>0, <2>2, <3>1 DEF CallFits
      <3>3. e <= ui.openings
        BY <1>0, <2>2 DEF CallFits
      <3> QED
        BY <1>0, <1>2, <1>3, <3>1, <3>2, <3>3 DEF FormFits, Forms
    <2> QED
      BY <2>1, <2>2
  <1>6. ASSUME NEW x \in calls, x.op = o PROVE CallFits(x)'
    <2>1. CallFits(x)
      BY FormFacts
    <2> QED
      BY <1>0, <1>2, <1>3, <1>6, <2>1 DEF CallFits, Current
  <1>7. Numbered' /\ Single'
    BY <1>3 DEF ListInv, FormsInv, Numbered, Single, Current
  <1> QED
    BY <1>3, <1>4, <1>5, <1>6, <1>7 DEF ListInv, FormsInv

\* What the page does with its query.
LEMMA ListQueries ==
  ASSUME NEW x, IsQuery(x), NEW data
  PROVE  /\ \A y \in {List!Started(x), List!Invalidated(x), List!Outdated(x), List!Observed(x, TRUE),
                      List!Observed(x, FALSE), List!Answered(x), List!Refused(x)} : Derived(y, x)
         /\ IsQuery(List!ReadWith(x, data)) /\ List!ReadWith(x, data).data = x.data /\ List!ReadWith(x, data).read = data
  BY DEF IsQuery, Derived, Fetched, List!Started, List!Invalidated, List!Outdated, List!Observed, List!Answered,
         List!Refused, List!ReadWith

\* The list stays one that was read.
LEMMA ListQueryKeeps ==
  ASSUME QueryInv, srv' = srv, q' = q \/ Derived(q', q), ui'.told \in 0 .. srv.changes,
         \A x \in calls' : x.change <= srv.changes
  PROVE  QueryInv'
  BY DEF QueryInv, Derived, IsQuery

\* The second call of a pair, an answer, or a refusal.
LEMMA SettlesKeep ==
  ASSUME ListInv, NEW c \in calls, List!Settle(c)
  PROVE  ListInv'
  <1>0. /\ c \in ListCalls /\ c.op \in List!Ops /\ ui.forms[c.op] \in Forms /\ CallFits(c) /\ srv.changes \in Nat
        /\ ui.forms \in [List!Ops -> Forms] /\ DOMAIN ui.forms = List!Ops
        /\ FormFits(c.op) /\ ui.mount \in Nat /\ ui.told \in Nat /\ ui.here \in BOOLEAN /\ ui.hurried \in BOOLEAN
        /\ DOMAIN ui = {"page", "mount", "here", "forms", "openings", "made", "told", "hurried"}
        /\ OpSound(List!Of(c.op), c.op \in List!StaleErrors, c.op \in List!Doubles, c.op \in List!Strays)
        /\ IsQuery(q) /\ QueryInv /\ calls \subseteq ListCalls /\ DOMAIN srv = {"row", "changes"}
        /\ ui.page \in DOMAIN List!FirstRow /\ ui.forms \in [DOMAIN List!OpsOf(ui.page) -> Forms]
        /\ ui.openings \in 0 .. MaxOpenings /\ ui.made \in 0 .. MaxCalls
    BY FormFacts DEF ListInv, ListShape, QueryInv
  <1>1. c.at = "handled" /\ srv' = srv
    BY DEF List!Settle
  <1>2. List!Mounted(c) <=> ui.here /\ Current(c)
    BY DEF List!Mounted, Current
  <1>3. ~List!Mounted(c) => ~Current(c)
    BY <1>0, <1>2 DEF CallFits, Current
  <1>4. ASSUME calls' \subseteq ListCalls, \A x \in calls' : x.change \in Nat /\ x.change <= srv.changes,
               DOMAIN ui' = DOMAIN ui, ui'.page = ui.page, ui'.forms \in [List!Ops -> Forms], ui'.mount \in Nat,
               ui'.here \in BOOLEAN, ui'.hurried \in BOOLEAN, ui'.openings = ui.openings, ui'.made = ui.made,
               ui'.told \in 0 .. srv.changes, q' = q \/ Derived(q', q)
        PROVE  ListShape' /\ QueryInv'
    <2>1. QueryInv'
      BY <1>0, <1>1, <1>4, ListQueryKeeps
    <2>2. DOMAIN ui'.forms = DOMAIN ui.forms
      BY <1>0, <1>4
    <2>3. ListCalls' = ListCalls
      BY <1>4, <2>2, SamePage DEF ListCalls
    <2>4. ui'.told \in Nat
      BY <1>0, <1>4
    <2> QED
      BY <1>0, <1>1, <1>4, <2>1, <2>2, <2>3, <2>4 DEF ListShape
  <1>5. ui.told \in 0 .. srv.changes /\ c.change \in 0 .. srv.changes /\ \A x \in calls : x.change \in Nat /\ x.change <= srv.changes
    BY <1>0 DEF QueryInv, ListCalls
  <1>6. WentOn(c, c) \/ calls' # calls \ {c}
    BY <1>0 DEF WentOn, Echo
  <1>q. Derived(List!Invalidated(q), q) /\ Derived(List!Outdated(q), q)
    <2>1. IsQuery(q)
      BY <1>0
    <2> QED
      BY ONLY <2>1, ListQueries
  <1>7. CASE c.again
    <2>1. /\ calls' = calls \ {c} /\ (q' = q \/ q' \in {List!Invalidated(q), List!Outdated(q)})
          /\ ui' = IF List!Mounted(c) THEN [ui EXCEPT !.forms[c.op].open = 0] ELSE ui
      BY <1>7 DEF List!Settle, List!SucceededAgain
    <2>2. q' = q \/ Derived(q', q)
      BY <1>q, <2>1
    <2>3. CASE ~List!Mounted(c)
      <3>1. ui' = ui
        BY <2>1, <2>3
      <3>2. ListShape' /\ QueryInv'
        BY <1>0, <1>4, <1>5, <2>1, <2>2, <3>1
      <3> QED
        BY <1>6, <2>1, <3>1, <3>2, StillKeeps
    <2>4. CASE List!Mounted(c)
      <3>1. ui' = [ui EXCEPT !.forms[c.op].open = 0]
        BY <2>1, <2>4
      <3>2. /\ DOMAIN ui' = DOMAIN ui /\ ui'.page = ui.page /\ ui'.mount = ui.mount /\ ui'.here = ui.here
            /\ ui'.openings = ui.openings /\ ui'.made = ui.made /\ ui'.hurried = ui.hurried /\ ui'.told = ui.told
            /\ ui'.forms = [ui.forms EXCEPT ![c.op].open = 0]
        BY <1>0, <3>1
      <3>3. /\ \A p \in List!Ops \ {c.op} : ui'.forms[p] = ui.forms[p]
            /\ DOMAIN ui'.forms = List!Ops /\ ui'.forms[c.op].open = 0 /\ ui'.forms[c.op].error = ui.forms[c.op].error
            /\ ui'.forms[c.op].last = ui.forms[c.op].last /\ ui'.forms \in [List!Ops -> Forms]
        BY <1>0, <3>2 DEF Forms
      <3>4. ListShape' /\ QueryInv'
        BY <1>0, <1>4, <1>5, <2>1, <2>2, <3>2, <3>3
      <3>5. ClosesByAnswer(c.op) /\ List!Of(c.op).call.again
        BY <1>0, <1>7 DEF CallFits, OpSound, ClosesByAnswer
      <3> QED
        BY <1>2, <1>6, <2>1, <2>4, <3>2, <3>3, <3>4, <3>5, ClosedKeeps
    <2> QED
      BY <2>3, <2>4
  <1>8. CASE ~c.again /\ c.ok
    <2>0. PICK d : d = [c EXCEPT !.at = "sent", !.ok = FALSE, !.again = TRUE]
      OBVIOUS
    <2>1. d \in ListCalls /\ Echo(d, c) /\ d.again = TRUE /\ d.change = c.change
      BY <1>0, <2>0 DEF ListCalls, Echo
    <2>2. PICK t : t = IF List!Confirmed(c) > ui.told THEN List!Confirmed(c) ELSE ui.told
      OBVIOUS
    <2>3. t \in 0 .. srv.changes /\ t \in Nat
      BY <1>0, <1>5, <2>2 DEF List!Confirmed
    <2>4. /\ q' = q \/ q' \in {List!Invalidated(q), List!Outdated(q)}
          /\ \/ List!Of(c.op).call.again /\ calls' = (calls \ {c}) \cup {d}
             \/ ~List!Of(c.op).call.again /\ calls' = calls \ {c}
          /\ \/ ui.here /\ ui' = [List!Gone EXCEPT !.told = t]
             \/ /\ List!Mounted(c) /\ ClosesByAnswer(c.op)
                /\ ui' = [ui EXCEPT !.told = t, !.forms[c.op].open = 0, !.forms[c.op].error = 0,
                                    !.hurried = ui.hurried \/ List!Of(c.op).call.again]
             \/ ~(List!Mounted(c) /\ ClosesByAnswer(c.op)) /\ ui' = [ui EXCEPT !.told = t]
      <3>1. /\ q' = IF ~List!Fetches(c) THEN q ELSE IF ui.here THEN List!Invalidated(q) ELSE List!Outdated(q)
            /\ calls' = IF List!Of(c.op).call.again THEN (calls \ {c}) \cup {d} ELSE calls \ {c}
        BY <1>8, <2>0 DEF List!Settle, List!Succeeded
      <3>2. PICK told : told = [ui EXCEPT !.told = t]
        OBVIOUS
      <3>3. told.told = t /\ told.hurried = ui.hurried
        BY <1>0, <3>2
      <3>4. ui' = IF ui.here /\ List!Leads(c) THEN [List!Gone EXCEPT !.told = told.told]
                  ELSE IF List!Mounted(c) /\ List!Of(c.op).call.closes = "done"
                  THEN [told EXCEPT !.forms[c.op].open = 0, !.forms[c.op].error = 0,
                                    !.hurried = told.hurried \/ List!Of(c.op).call.again]
                  ELSE told
        BY <1>8, <2>2, <3>2 DEF List!Settle, List!Succeeded
      <3>5. CASE ui.here /\ List!Leads(c)
        BY <3>1, <3>3, <3>4, <3>5
      <3>6. CASE ~(ui.here /\ List!Leads(c)) /\ List!Mounted(c) /\ ClosesByAnswer(c.op)
        <4>1. ui' = [told EXCEPT !.forms[c.op].open = 0, !.forms[c.op].error = 0,
                                 !.hurried = ui.hurried \/ List!Of(c.op).call.again]
          BY <3>3, <3>4, <3>6 DEF ClosesByAnswer
        <4>2. ui' = [ui EXCEPT !.told = t, !.forms[c.op].open = 0, !.forms[c.op].error = 0,
                               !.hurried = ui.hurried \/ List!Of(c.op).call.again]
          BY <1>0, <3>2, <4>1
        <4> QED
          BY <3>1, <3>6, <4>2
      <3>7. CASE ~(ui.here /\ List!Leads(c)) /\ ~(List!Mounted(c) /\ ClosesByAnswer(c.op))
        BY <3>1, <3>2, <3>4, <3>7 DEF ClosesByAnswer
      <3> QED
        BY <3>5, <3>6, <3>7
    <2>5. q' = q \/ Derived(q', q)
      BY <1>q, <2>4
    <2>6. calls' \subseteq ListCalls /\ \A x \in calls' : x.change \in Nat /\ x.change <= srv.changes
      BY <1>0, <1>5, <2>1, <2>4
    <2>7. WentOn(c, d) /\ (d \in calls' => d.again /\ List!Of(c.op).call.again)
      <3>1. d \notin calls
        BY <1>8, <2>1, FormFacts DEF ListInv, FormsInv, Numbered, Echo
      <3> QED
        BY <2>1, <2>4, <3>1 DEF WentOn
    <2>8. CASE ui.here /\ ui' = [List!Gone EXCEPT !.told = t]
      <3>1. /\ DOMAIN ui' = DOMAIN ui /\ ui'.page = ui.page /\ ui'.mount = ui.mount + 1 /\ ui'.here = FALSE
            /\ ui'.openings = ui.openings /\ ui'.made = ui.made /\ ui'.hurried = ui.hurried /\ ui'.told = t
            /\ ui'.forms = [o \in List!Ops |-> List!Free]
        BY <1>0, <2>8 DEF List!Gone
      <3>2. ui'.forms \in [List!Ops -> Forms]
        BY <3>1 DEF List!Free, Forms
      <3>c. ui.mount \in Nat /\ ui.hurried \in BOOLEAN /\ ui'.mount = ui.mount + 1 /\ ui'.here = FALSE
            /\ ui'.hurried = ui.hurried
        BY FormFacts, <3>1
      <3>7. ui'.mount \in Nat /\ ui'.here \in BOOLEAN /\ ui'.hurried \in BOOLEAN
        <4>1. ui'.mount \in Nat
          BY <3>c
        <4>2. ui'.here \in BOOLEAN
          BY <3>c
        <4>3. ui'.hurried \in BOOLEAN
          BY <3>c
        <4> QED
          BY <4>1, <4>2, <4>3
      <3>8. ui'.told \in 0 .. srv.changes
        BY <2>3, <3>1
      <3>3. ListShape' /\ QueryInv'
        BY <1>4, <2>5, <2>6, <3>1, <3>2, <3>7, <3>8
      <3>4. Numbered' /\ \A x \in calls' : \E y \in calls : Echo(x, y) /\ (x = y \/ (x = d /\ y = c))
        BY <2>7, EchoesKeep
      <3>5. \A x \in calls' : \E y \in calls : Echo(x, y) /\ (x.again = y.again \/ List!Of(y.op).call.again)
        BY <2>7, <3>4
      <3> QED
        BY <3>1, <3>3, <3>4, <3>5, GoneKeeps
    <2>9. CASE /\ List!Mounted(c) /\ ClosesByAnswer(c.op)
               /\ ui' = [ui EXCEPT !.told = t, !.forms[c.op].open = 0, !.forms[c.op].error = 0,
                                   !.hurried = ui.hurried \/ List!Of(c.op).call.again]
      <3>1. /\ DOMAIN ui' = DOMAIN ui /\ ui'.page = ui.page /\ ui'.mount = ui.mount /\ ui'.here = ui.here
            /\ ui'.openings = ui.openings /\ ui'.made = ui.made /\ ui'.told = t
            /\ ui'.hurried = (ui.hurried \/ List!Of(c.op).call.again)
            /\ ui'.forms = [ui.forms EXCEPT ![c.op] = [ui.forms[c.op] EXCEPT !.open = 0, !.error = 0]]
        BY <1>0, <2>9
      <3>2. /\ \A p \in List!Ops \ {c.op} : ui'.forms[p] = ui.forms[p]
            /\ DOMAIN ui'.forms = List!Ops /\ ui'.forms[c.op].open = 0 /\ ui'.forms[c.op].error = 0
            /\ ui'.forms[c.op].last = ui.forms[c.op].last /\ ui'.forms \in [List!Ops -> Forms]
        <4>1. PICK f : f = [ui.forms[c.op] EXCEPT !.open = 0, !.error = 0]
          OBVIOUS
        <4>2. f \in Forms /\ f.open = 0 /\ f.error = 0 /\ f.last = ui.forms[c.op].last
          BY <1>0, <4>1 DEF Forms
        <4> QED
          BY <1>0, <3>1, <4>1, <4>2
      <3>5. ui'.hurried \in BOOLEAN
        BY <1>0, <3>1 DEF OpSound
      <3>3. ListShape' /\ QueryInv'
        BY <1>0, <1>4, <2>3, <2>5, <2>6, <3>1, <3>2, <3>5
      <3>4. d \in calls' => d.again /\ List!Of(c.op).call.again /\ ui'.hurried
        BY <2>7, <3>1
      <3> QED
        BY <1>2, <2>7, <2>9, <3>1, <3>2, <3>3, <3>4, ClosedKeeps
    <2>10. CASE ~(List!Mounted(c) /\ ClosesByAnswer(c.op)) /\ ui' = [ui EXCEPT !.told = t]
      <3>1. /\ DOMAIN ui' = DOMAIN ui /\ ui'.page = ui.page /\ ui'.mount = ui.mount /\ ui'.here = ui.here
            /\ ui'.openings = ui.openings /\ ui'.made = ui.made /\ ui'.hurried = ui.hurried /\ ui'.told = t
            /\ ui'.forms = ui.forms
        BY <1>0, <2>10
      <3>2. ListShape' /\ QueryInv'
        BY <1>0, <1>4, <2>3, <2>5, <2>6, <3>1
      <3>3. CASE List!Of(c.op).call.again
        <4>1. ~Current(c)
          BY <1>0, <1>3, <2>10, <3>3 DEF OpSound, ClosesByAnswer
        <4> QED
          BY <2>1, <2>7, <3>1, <3>2, <3>3, <4>1, StillKeeps
      <3>4. CASE ~List!Of(c.op).call.again
        BY <1>6, <2>4, <3>1, <3>2, <3>4, StillKeeps
      <3> QED
        BY <3>3, <3>4
    <2> QED
      BY <2>4, <2>8, <2>9, <2>10
  <1>9. CASE ~c.again /\ ~c.ok
    <2>1. q' = q /\ calls' = calls \ {c}
      BY <1>9 DEF List!Settle, List!Failed
    <2>2. CASE ~List!Mounted(c)
      <3>1. ui' = ui
        BY <1>9, <2>2 DEF List!Settle, List!Failed
      <3>2. ListShape' /\ QueryInv'
        BY <1>0, <1>4, <1>5, <2>1, <3>1
      <3> QED
        BY <1>6, <2>1, <3>1, <3>2, StillKeeps
    <2>3. CASE List!Mounted(c)
      <3>1. PICK e \in {c.opening, ui.forms[c.op].error} :
              /\ ui' = [ui EXCEPT !.forms[c.op].error = e]
              /\ e = ui.forms[c.op].error \/ List!Of(c.op).call.tells \in {"each", "last"}
        BY <1>0, <1>9, <2>3 DEF List!Settle, List!Failed, List!Form_, OpSound
      <3>2. /\ DOMAIN ui' = DOMAIN ui /\ ui'.page = ui.page /\ ui'.mount = ui.mount /\ ui'.here = ui.here
            /\ ui'.openings = ui.openings /\ ui'.made = ui.made /\ ui'.hurried = ui.hurried /\ ui'.told = ui.told
            /\ ui'.forms = [ui.forms EXCEPT ![c.op].error = e]
        BY <1>0, <3>1
      <3>3. ui'.forms \in [List!Ops -> Forms]
        BY <1>0, <3>1, <3>2 DEF Forms, ListCalls
      <3>4. ListShape' /\ QueryInv'
        BY <1>0, <1>4, <1>5, <2>1, <3>2, <3>3
      <3> QED
        BY <1>2, <2>1, <2>3, <3>1, <3>2, <3>4, FailedKeeps
    <2> QED
      BY <2>2, <2>3
  <1> QED
    BY <1>0, <1>7, <1>8, <1>9 DEF ListCalls

\* The server accepts a call or refuses it.
LEMMA HandledKeeps ==
  ASSUME ListInv, NEW c \in calls, NEW does \in BOOLEAN, NEW arrives \in BOOLEAN, List!HandleCall(c, does, arrives)
  PROVE  ListInv'
  <1>0. /\ c \in ListCalls /\ calls \subseteq ListCalls /\ srv.changes \in Nat /\ DOMAIN srv = {"row", "changes"}
        /\ ListShape /\ QueryInv
    BY DEF ListInv, ListShape
  <1>1. PICK d : d = [c EXCEPT !.at = "handled", !.ok = does /\ arrives, !.change = IF does /\ arrives THEN srv'.changes ELSE 0]
    OBVIOUS
  <1>2. /\ calls' = (calls \ {c}) \cup {d} /\ ui' = ui /\ q' = q
        /\ (srv' = srv \/ (\E r : srv' = [row |-> r, changes |-> srv.changes + 1]))
    BY <1>1 DEF List!HandleCall
  <1>3. DOMAIN srv' = {"row", "changes"} /\ srv'.changes \in Nat /\ srv.changes <= srv'.changes
    BY <1>0, <1>2
  <1>4. /\ d \in ListCalls /\ Echo(d, c) /\ d.again = c.again /\ d.change <= srv'.changes
    <2>1. PICK k : k = IF does /\ arrives THEN srv'.changes ELSE 0
      OBVIOUS
    <2>2. k \in Nat /\ k <= srv'.changes
      BY <1>3, <2>1
    <2>3. d = [c EXCEPT !.at = "handled", !.ok = does /\ arrives, !.change = k]
      BY <1>1, <2>1
    <2>4. (does /\ arrives) \in BOOLEAN
      OBVIOUS
    <2> QED
      BY <1>0, <2>2, <2>3, <2>4 DEF ListCalls, Echo
  <1>5. ListShape'
    <2>1. calls' \subseteq ListCalls
      BY <1>0, <1>2, <1>4
    <2>2. ListCalls' = ListCalls
      BY <1>2 DEF ListCalls, List!Ops
    <2> QED
      BY <1>0, <1>2, <1>3, <2>1, <2>2 DEF ListShape
  <1>6. QueryInv'
    <2>1. \A x \in calls' : x.change <= srv'.changes
      <3>1. \A x \in calls : x.change \in Nat /\ x.change <= srv.changes
        BY <1>0 DEF QueryInv, ListCalls
      <3> QED
        BY <1>0, <1>2, <1>3, <1>4, <3>1
    <2>2. /\ q.data.changes \in 0 .. srv'.changes /\ q.read.changes \in 0 .. srv'.changes /\ ui.told <= srv'.changes
      BY <1>0, <1>3 DEF QueryInv, ListShape
    <2> QED
      BY <1>0, <1>2, <2>1, <2>2 DEF QueryInv, IsQuery
  <1>7. WentOn(c, d)
    BY <1>2, <1>4 DEF WentOn
  <1> QED
    BY <1>2, <1>4, <1>5, <1>6, <1>7, StillKeeps

\* The page is left.
LEMMA LeaveKeeps == ASSUME ListInv, List!Leave PROVE ListInv'
  <1>0. ListShape /\ QueryInv /\ Numbered /\ DOMAIN ui.forms = List!Ops /\ srv' = srv /\ q' = q /\ calls' = calls
    BY DEF ListInv, FormsInv, List!Ops, List!Leave
  <1>1. /\ DOMAIN ui' = DOMAIN ui /\ ui'.page = ui.page /\ ui'.mount = ui.mount + 1 /\ ui'.here = FALSE
        /\ ui'.openings = ui.openings /\ ui'.made = ui.made /\ ui'.hurried = ui.hurried /\ ui'.told = ui.told
        /\ ui'.forms = [o \in List!Ops |-> List!Free]
    BY <1>0 DEF List!Leave, List!Gone, ListShape
  <1>2. ui'.forms \in [List!Ops -> Forms] /\ DOMAIN ui'.forms = DOMAIN ui.forms
    BY <1>0, <1>1 DEF List!Free, Forms
  <1>3. ListShape'
    <2>1. ListCalls' = ListCalls
      BY <1>1, <1>2, SamePage DEF ListCalls
    <2>2. ui'.mount \in Nat
      BY <1>0, <1>1 DEF ListShape
    <2>3. ui'.forms \in [DOMAIN List!OpsOf(ui'.page) -> Forms]
      BY <1>0, <1>1, <1>2 DEF ListShape
    <2> QED
      BY <1>0, <1>1, <2>1, <2>2, <2>3 DEF ListShape
  <1>4. QueryInv' /\ Numbered'
    BY <1>0, <1>1 DEF QueryInv, IsQuery, Numbered
  <1> QED
    BY <1>0, <1>1, <1>3, <1>4, GoneKeeps DEF Echo

\* A step of the query: the page and its calls stay as they are.
LEMMA FetchKeeps ==
  ASSUME ListInv, UNCHANGED <<srv, calls>>, QueryInv', ui' = ui \/ (~ui.here /\ ui' = [ui EXCEPT !.here = TRUE])
  PROVE  ListInv'
  <1>1. CASE ui' = ui
    BY <1>1 DEF ListInv, ListShape, FormsInv, ListCalls, FormFits, CallFits, Numbered, Single, Current, HasForm,
                ClosesByAnswer, List!Ops, List!Of, List!StaleErrors, List!Doubles
  <1>2. CASE ~ui.here /\ ui' = [ui EXCEPT !.here = TRUE]
    <2>1. /\ DOMAIN ui' = DOMAIN ui /\ ui'.page = ui.page /\ ui'.mount = ui.mount /\ ui'.here = TRUE
          /\ ui'.openings = ui.openings /\ ui'.made = ui.made /\ ui'.hurried = ui.hurried /\ ui'.told = ui.told
          /\ ui'.forms = ui.forms
      BY <1>2, FormFacts
    <2>2. /\ List!Ops' = List!Ops /\ List!StaleErrors' = List!StaleErrors
          /\ List!Doubles' = List!Doubles /\ ListCalls' = ListCalls
          /\ \A o : List!Of(o)' = List!Of(o) /\ HasForm(o)' = HasForm(o) /\ ClosesByAnswer(o)' = ClosesByAnswer(o)
      BY <2>1, SamePage DEF ListCalls
    <2>3. ListShape'
      BY <2>1, <2>2 DEF ListInv, ListShape
    <2>4. ASSUME NEW o \in List!Ops PROVE FormFits(o)'
      BY <1>2, <2>1, <2>2, FormFacts DEF FormFits
    <2>5. ASSUME NEW c \in calls PROVE CallFits(c)'
      <3>1. CallFits(c) /\ c.mount \in Nat /\ ui.mount \in Nat /\ ~Current(c)
        BY <1>2, FormFacts DEF CallFits, Current
      <3> QED
        BY <1>2, <2>1, <2>2, <3>1 DEF CallFits, Current
    <2>6. Numbered' /\ Single'
      BY <2>1, <2>2 DEF ListInv, FormsInv, Numbered, Single, Current
    <2> QED
      BY <2>2, <2>3, <2>4, <2>5, <2>6 DEF ListInv, FormsInv
  <1> QED
    BY <1>1, <1>2

LEMMA RequeryKeeps ==
  ASSUME ListInv, List!RefetchList \/ List!ListFetch \/ (\E b \in BOOLEAN : List!Return(b))
  PROVE  ListInv'
  <1>0. IsQuery(q) /\ QueryInv /\ ui.told \in Nat /\ srv.changes \in Nat
    BY DEF ListInv, ListShape, QueryInv
  <1>1. UNCHANGED <<srv, calls>> /\ (ui' = ui \/ (~ui.here /\ ui' = [ui EXCEPT !.here = TRUE]))
    BY DEF List!RefetchList, List!ListFetch, List!ReadList, List!ListAnswer, List!ListFail, List!Return
  <1>2. \/ q' \in {List!Invalidated(q), List!Observed(q, TRUE), List!Observed(q, FALSE), List!Answered(q), List!Refused(q)}
        \/ q' = List!ReadWith(q, srv)
    BY DEF List!RefetchList, List!ListFetch, List!ReadList, List!ListAnswer, List!ListFail, List!Return
  <1>3. ui'.told = ui.told
    BY <1>1, FormFacts
  <1>4. QueryInv'
    <2>0. ui'.told \in 0 .. srv.changes /\ \A x \in calls' : x.change <= srv.changes
      BY <1>0, <1>1, <1>3 DEF QueryInv
    <2>1. CASE Derived(q', q)
      BY <1>0, <1>1, <2>0, <2>1, ListQueryKeeps
    <2>2. CASE IsQuery(q') /\ q'.data = q.data /\ q'.read = srv
      BY <1>0, <1>1, <2>0, <2>2 DEF QueryInv, IsQuery
    <2>3. IsQuery(q)
      BY <1>0
    <2>4. Derived(q', q) \/ (IsQuery(q') /\ q'.data = q.data /\ q'.read = srv)
      BY ONLY <1>2, <2>3, ListQueries
    <2> QED
      BY <2>1, <2>2, <2>4
  <1> QED
    BY <1>1, <1>4, FetchKeeps

\* Every step keeps ListInv.
LEMMA ListStep == ASSUME ListInv, List!ListNext PROVE ListInv'
  <1>1. ASSUME NEW o \in List!Ops, List!Press(o) \/ List!Submit(o) PROVE ListInv'
    <2>0. FormFits(o) /\ ui.forms[o].open \in Nat
      BY FormFacts DEF Forms
    <2>1. CASE List!Press(o) /\ List!OpenForm(o) /\ HasForm(o)
      BY <2>1, OpensKeep
    <2>2. CASE List!Press(o) /\ ~(List!OpenForm(o) /\ HasForm(o))
      BY <2>2, MakesKeep DEF List!Press, HasForm
    <2>3. CASE List!Submit(o)
      BY <2>3, MakesKeep DEF List!Submit, List!Form_
    <2> QED
      BY <1>1, <2>1, <2>2, <2>3
  <1> QED
    BY <1>1, ClosesKeep, SettlesKeep, HandledKeeps, LeaveKeeps, RequeryKeeps DEF List!ListNext

LEMMA ListFirst == ASSUME List!ListInit PROVE ListInv
  <1>1. PICK p \in DOMAIN List!FirstRow :
          /\ srv = [row |-> List!FirstRow[p], changes |-> 0]
          /\ ui = [page |-> p, mount |-> 0, here |-> TRUE, forms |-> [o \in DOMAIN List!OpsOf(p) |-> List!Free],
                   openings |-> 0, made |-> 0, told |-> 0, hurried |-> FALSE]
          /\ q = List!Started(List!NewQuery(List!NoList)) /\ calls = {}
    BY DEF List!ListInit
  <1>2. /\ DOMAIN ui = {"page", "mount", "here", "forms", "openings", "made", "told", "hurried"}
        /\ ui.page = p /\ ui.mount = 0 /\ ui.here = TRUE /\ ui.forms = [o \in DOMAIN List!OpsOf(p) |-> List!Free]
        /\ ui.openings = 0 /\ ui.made = 0 /\ ui.told = 0 /\ ui.hurried = FALSE
    BY <1>1
  <1>3. List!Free \in Forms /\ List!Free.open = 0 /\ List!Free.error = 0 /\ List!Free.last = 0
    BY DEF List!Free, Forms
  <1>4. ListShape
    <2>1. ui.forms \in [DOMAIN List!OpsOf(ui.page) -> Forms]
      BY <1>2, <1>3
    <2>2. DOMAIN srv = {"row", "changes"} /\ srv.changes \in Nat
      BY <1>1
    <2>3. ui.openings \in 0 .. MaxOpenings /\ ui.made \in 0 .. MaxCalls
      BY <1>2, ConsoleAssumption
    <2> QED
      BY <1>1, <1>2, <2>1, <2>2, <2>3 DEF ListShape
  <1>5. FormsInv
    BY <1>1, <1>2, <1>3 DEF FormsInv, FormFits, Numbered, Single, List!Ops
  <1>6. QueryInv
    BY <1>1, <1>2 DEF QueryInv, IsQuery, Fetched, List!Started, List!NewQuery, List!NoList
  <1> QED
    BY <1>4, <1>5, <1>6 DEF ListInv

\* The invariant gives what the run checks.
LEMMA ListFits == ASSUME ListInv PROVE List!ListTypeOK /\ List!FormsStayApart
  <1>1. List!ListTypeOK
    <2>1. ASSUME NEW o \in List!Ops PROVE List!Form_(o).open \in 0 .. ui.openings /\ List!Form_(o).error \in 0 .. ui.openings
      <3>1. FormFits(o) /\ ui.forms[o] \in Forms /\ ui.openings \in Nat
        BY FormFacts
      <3> QED
        BY <3>1 DEF List!Form_, FormFits, Forms
    <2> QED
      BY <2>1 DEF ListInv, ListShape, QueryInv, List!ListTypeOK
  <1>2. ASSUME NEW o \in List!Ops, ui.forms[o].open # 0, ui.forms[o].error \notin {0, ui.forms[o].open}
        PROVE  ui.hurried \/ o \in List!StaleErrors
    BY <1>2, FormFacts DEF FormFits
  <1>3. ASSUME NEW c \in calls, NEW d \in calls, c # d, c.op = d.op, Current(c), Current(d), c.opening # 0,
               c.opening = ui.forms[c.op].open, d.opening = ui.forms[c.op].open
        PROVE  c.op \in List!Doubles
    <2>1. CallFits(c) /\ CallFits(d) /\ Numbered
      BY DEF ListInv, FormsInv
    <2> QED
      BY <1>3, <2>1 DEF CallFits, Numbered
  <1> QED
    BY <1>1, <1>2, <1>3 DEF List!FormsStayApart, List!Form_, Current

\* A call that is over was answered, and its answer closes no form but its own.
LEMMA ListCloses == ASSUME ListInv, List!ListNext PROVE List!AnswerClosesItsForm
  <1> SUFFICES ASSUME NEW c \in calls \ calls', NEW o \in List!Ops, ui'.here, ui.forms[o].open # 0,
                      ui'.forms[o].open = 0, c.at = "handled"
               PROVE  c.op = o /\ (c.opening = ui.forms[o].open \/ (ui.hurried /\ o \in List!Strays))
    BY DEF List!AnswerClosesItsForm, List!Form_
  <1>1. List!Settle(c)
    <2>1. PICK x \in calls : calls' = calls \/ List!Settle(x) \/ \E d, b \in BOOLEAN : List!HandleCall(x, d, b)
      BY DEF List!ListNext, List!Press, List!Submit, List!Cancel, List!ClickBeside, List!Make, List!OpenForm, List!CloseForm,
             List!Leave, List!Return, List!RefetchList, List!ListFetch, List!ReadList, List!ListAnswer, List!ListFail
    <2>2. CASE List!Settle(x)
      BY <2>2 DEF List!Settle, List!SucceededAgain, List!Succeeded, List!Failed
    <2>3. CASE \E d, b \in BOOLEAN : List!HandleCall(x, d, b)
      BY <2>3 DEF List!HandleCall
    <2> QED
      BY <2>1, <2>2, <2>3
  <1>2. /\ CallFits(c) /\ c.op \in List!Ops /\ ui.forms \in [List!Ops -> Forms] /\ DOMAIN ui.forms = List!Ops
        /\ OpSound(List!Of(c.op), c.op \in List!StaleErrors, c.op \in List!Doubles, c.op \in List!Strays)
        /\ DOMAIN ui = {"page", "mount", "here", "forms", "openings", "made", "told", "hurried"}
    BY FormFacts
  <1>3. ui'.forms # ui.forms
    OBVIOUS
  <1>4. CASE c.again
    <2>1. List!Mounted(c) /\ ui' = [ui EXCEPT !.forms[c.op].open = 0]
      BY <1>1, <1>3, <1>4 DEF List!Settle, List!SucceededAgain
    <2>2. ui'.forms = [ui.forms EXCEPT ![c.op].open = 0]
      BY <1>2, <2>1
    <2>3. c.op = o
      BY <1>2, <2>2
    <2> QED
      BY <1>2, <1>4, <2>1, <2>3 DEF CallFits, OpSound, Current, List!Mounted
  <1>5. CASE ~c.again /\ c.ok
    <2>1. PICK t : /\ t = [ui EXCEPT !.told = IF List!Confirmed(c) > ui.told THEN List!Confirmed(c) ELSE ui.told]
                   /\ ui' = IF ui.here /\ List!Leads(c) THEN [List!Gone EXCEPT !.told = t.told]
                            ELSE IF List!Mounted(c) /\ List!Of(c.op).call.closes = "done"
                            THEN [t EXCEPT !.forms[c.op].open = 0, !.forms[c.op].error = 0,
                                           !.hurried = t.hurried \/ List!Of(c.op).call.again]
                            ELSE t
      BY <1>1, <1>5 DEF List!Settle, List!Succeeded
    <2>2. DOMAIN t = DOMAIN ui /\ t.forms = ui.forms /\ t.here = ui.here
      BY <1>2, <2>1
    <2>3. ~(ui.here /\ List!Leads(c))
      <3> SUFFICES ASSUME ui.here /\ List!Leads(c) PROVE ~ui'.here
        OBVIOUS
      <3> QED
        BY <1>2, <2>1 DEF List!Gone
    <2>4. /\ List!Mounted(c) /\ ClosesByAnswer(c.op)
          /\ ui' = [t EXCEPT !.forms[c.op].open = 0, !.forms[c.op].error = 0,
                             !.hurried = t.hurried \/ List!Of(c.op).call.again]
      BY <1>3, <2>1, <2>2, <2>3 DEF ClosesByAnswer
    <2>5. ui'.forms = [t.forms EXCEPT ![c.op].open = 0, ![c.op].error = 0]
      BY <1>2, <2>2, <2>4
    <2>6. c.op = o
      BY <1>2, <2>2, <2>5
    <2>7. ~(List!Of(o).call.leaves \in {"always", "mounted"})
      BY <2>3, <2>4, <2>6 DEF List!Leads, List!Mounted
    <2>8. HasForm(o) /\ Current(c)
      BY <1>2, <2>4, <2>6 DEF OpSound, HasForm, ClosesByAnswer, List!Mounted, Current
    <2> QED
      BY <1>2, <2>4, <2>6, <2>7, <2>8 DEF OpSound, CallFits, ClosesByAnswer
  <1>6. CASE ~c.again /\ ~c.ok
    <2>1. PICK e : ui' = [ui EXCEPT !.forms[c.op].error = e]
      BY <1>1, <1>3, <1>6 DEF List!Settle, List!Failed
    <2>2. ui'.forms = [ui.forms EXCEPT ![c.op].error = e]
      BY <1>2, <2>1
    <2>3. ui'.forms[o].open = ui.forms[o].open
      BY <1>2, <2>2 DEF Forms
    <2> QED
      BY <2>3
  <1> QED
    BY <1>4, <1>5, <1>6 DEF List!Settle

-----------------------------------------------------------------------------
(* Forms of one record *)

Written == [Detail!Fields -> Detail!Values]
Saves == [kind : {"save", "off"}, fields : SUBSET Detail!Fields, at : {"sent", "handled"}, ok : BOOLEAN,
          own : SUBSET Detail!Fields, values : Written, read : Written, others : BOOLEAN]

FormUi == {"page", "here", "filled", "form", "own", "typed", "saves", "others", "leaving", "asking"}

DetailShape ==
  /\ DOMAIN srv = {"stored", "others"} /\ srv.stored \in Written
  /\ DOMAIN ui = FormUi /\ ui.page \in {"tenant", "user"} /\ ui.here \in BOOLEAN /\ ui.filled \in BOOLEAN
  /\ ui.form \in Written /\ ui.own \subseteq Detail!Fields /\ ui.others \in BOOLEAN
  /\ IsQuery(q) /\ q.data \in Written /\ q.read \in Written /\ (q.fetch # "read" => q.read = q.data)

\* One save of a kind is under way, and only a user is deactivated.
SavesInv ==
  /\ ui.asking => ui.page = "user"
  /\ calls \subseteq Saves
  /\ \A c, d \in calls : c.kind = d.kind => c = d
  /\ \A c \in calls : c.kind = "off" => ui.page = "user"

\* What was not typed is what was read.
UserForm ==
  ui.page = "user" /\ ui.here /\ ui.filled => \A f \in Detail!Fields \ ui.own : ui.form[f] = q.data[f]

\* a is as old as b or older.
Older(a, b, f) == a[f] \in {"first", "theirs"} /\ (a[f] = "theirs" => b[f] = "theirs")

\* The form of a tenant differs from what was read only where the user typed, until a change of somebody else is
\* read; and so what is sent is what was typed.
TenantForm ==
  ui.page = "tenant" /\ ~ui.others =>
    /\ \A c \in calls : c.fields \subseteq ui.own
    /\ \A f \in Detail!Fields \ ui.own :
         /\ Older(q.data, q.read, f) /\ Older(q.read, srv.stored, f) /\ srv.stored[f] \in {"first", "theirs"}
         /\ ui.here /\ ui.filled => ui.form[f] = q.data[f]

DetailInv ==
  /\ DetailShape /\ SavesInv /\ UserForm /\ TenantForm /\ Detail!SavesWhatWasTyped /\ Detail!TypingStays
  /\ ui.page = "tenant" /\ ~ui.filled => ui.own = {}

\* A step of the query that brings no data.
Steady(y, x) ==
  /\ IsQuery(y) /\ y.data = x.data /\ y.read \in {x.read, x.data} /\ (y.fetch # "read" => y.read = y.data)

Resting(x) == IsQuery(x) /\ (x.fetch # "read" => x.read = x.data)

LEMMA SteadyQueries ==
  ASSUME NEW x, Resting(x)
  PROVE  \A y \in {Detail!Started(x), Detail!Invalidated(x), Detail!Outdated(x), Detail!Observed(x, TRUE),
                   Detail!Refused(x)} : Steady(y, x)
  <1>1. Steady(x, x) /\ Steady(Detail!Started(x), x)
    BY DEF Resting, IsQuery, Steady, Fetched, Detail!Started
  <1>2. Steady(Detail!Outdated(x), x)
    BY DEF Resting, IsQuery, Steady, Fetched, Detail!Outdated
  <1>3. Steady(Detail!Refused(x), x)
    BY DEF Resting, IsQuery, Steady, Fetched, Detail!Refused
  <1> QED
    BY <1>1, <1>2, <1>3 DEF Detail!Invalidated, Detail!Observed

LEMMA ReadQueries ==
  ASSUME NEW x, IsQuery(x), NEW data
  PROVE  /\ IsQuery(Detail!ReadWith(x, data)) /\ Detail!ReadWith(x, data).data = x.data
         /\ Detail!ReadWith(x, data).read = data /\ Detail!ReadWith(x, data).fetch = "read"
         /\ IsQuery(Detail!Answered(x)) /\ Detail!Answered(x).data = x.read /\ Detail!Answered(x).read = x.read
  BY DEF IsQuery, Fetched, Detail!Answered, Detail!ReadWith

\* The calls stay, or one of them is answered; the form stays, or what changes in it is the user's.
LEMMA SteadyKeeps ==
  ASSUME DetailInv, srv' = srv, Steady(q', q), calls' \subseteq calls, DOMAIN ui' = FormUi, ui'.page = ui.page,
         ui'.here \in BOOLEAN, ui'.here => ui.here, ui'.filled = ui.filled, ui'.others = ui.others,
         ui'.form \in Written, ui'.own \subseteq Detail!Fields, ui.own \subseteq ui'.own,
         \A f \in Detail!Fields \ ui'.own : ui'.form[f] = ui.form[f],
         ui'.own # ui.own => ui.page = "user" \/ ui.filled,
         ui.page = "tenant" => \A f \in ui'.own : ui'.form[f] = "mine", ui'.asking => ui.page = "user"
  PROVE  DetailInv'
  <1>1. DetailShape'
    BY DEF DetailInv, DetailShape, Steady, IsQuery
  <1>2. SavesInv'
    BY DEF DetailInv, SavesInv, Saves, Written
  <1>3. UserForm'
    BY DEF DetailInv, UserForm, Steady
  <1>4. TenantForm'
    <2> SUFFICES ASSUME ui.page = "tenant", ~ui.others PROVE TenantForm'
      BY DEF TenantForm
    <2>1. \A c \in calls' : c.fields \subseteq ui'.own
      BY DEF DetailInv, TenantForm
    <2>2. ASSUME NEW f \in Detail!Fields \ ui'.own
          PROVE  /\ Older(q.data, q'.read, f) /\ Older(q'.read, srv.stored, f) /\ srv.stored[f] \in {"first", "theirs"}
                 /\ ui'.here /\ ui'.filled => ui'.form[f] = q.data[f]
      <3>1. /\ Older(q.data, q.read, f) /\ Older(q.read, srv.stored, f) /\ srv.stored[f] \in {"first", "theirs"}
            /\ ui.here /\ ui.filled => ui.form[f] = q.data[f]
        BY DEF DetailInv, TenantForm
      <3> QED
        BY <3>1 DEF Older, Steady
    <2> QED
      BY <2>1, <2>2 DEF TenantForm, Older, Steady
  <1>5. Detail!SavesWhatWasTyped' /\ Detail!TypingStays'
    BY DEF DetailInv, Detail!SavesWhatWasTyped, Detail!TypingStays
  <1> QED
    BY <1>1, <1>2, <1>3, <1>4, <1>5 DEF DetailInv

\* The page is left, its dialog opened or closed, the user types, or a query is asked again or refused.
LEMMA PageKeepsDetail ==
  ASSUME DetailInv,
         \/ Detail!NavigateLater \/ Detail!Leave \/ Detail!AskDeactivate \/ Detail!CancelDeactivate \/ Detail!RefetchRecord \/ Detail!RecordFail
         \/ \E f \in Detail!Fields : Detail!Type(f)
  PROVE  DetailInv'
  <1>0. /\ IsQuery(q) /\ (q.fetch # "read" => q.read = q.data) /\ DOMAIN ui = FormUi /\ ui.here \in BOOLEAN
        /\ ui.form \in Written /\ ui.own \subseteq Detail!Fields
        /\ ui.page = "tenant" => \A f \in ui.own : ui.form[f] = "mine"
        /\ ui.asking => ui.page = "user"
    BY DEF DetailInv, DetailShape, SavesInv, Detail!TypingStays
  <1>q. Resting(q)
    BY <1>0 DEF Resting
  <1>1. Steady(q, q)
    BY <1>0 DEF Steady
  <1>2. CASE Detail!NavigateLater \/ Detail!Leave \/ Detail!AskDeactivate \/ Detail!CancelDeactivate
    <2>1. /\ DOMAIN ui' = FormUi /\ ui'.page = ui.page /\ ui'.here \in {ui.here, FALSE} /\ ui'.filled = ui.filled
          /\ ui'.others = ui.others /\ ui'.form = ui.form /\ ui'.own = ui.own /\ srv' = srv /\ q' = q /\ calls' = calls
          /\ ui'.asking => ui.page = "user"
      BY <1>0, <1>2 DEF Detail!NavigateLater, Detail!Leave, Detail!AskDeactivate, Detail!CancelDeactivate, FormUi
    <2> QED
      BY <1>0, <1>1, <2>1, SteadyKeeps
  <1>3. CASE Detail!RefetchRecord \/ Detail!RecordFail
    <2>1. q' \in {Detail!Invalidated(q), Detail!Observed(q, TRUE), Detail!Refused(q)}
      BY <1>3 DEF Detail!RefetchRecord, Detail!RecordFail
    <2>2. Steady(q', q)
      BY ONLY <1>q, <2>1, SteadyQueries
    <2>3. srv' = srv /\ ui' = ui /\ calls' = calls
      BY <1>3 DEF Detail!RefetchRecord, Detail!RecordFail
    <2> QED
      BY <1>0, <2>2, <2>3, SteadyKeeps
  <1>4. CASE \E f \in Detail!Fields : Detail!Type(f)
    <2>1. PICK f \in Detail!Fields : Detail!Type(f)
      BY <1>4
    <2>2. PICK form : form = [ui.form EXCEPT ![f] = "mine"]
      OBVIOUS
    <2>3. /\ DOMAIN ui' = FormUi /\ ui'.page = ui.page /\ ui'.here = ui.here /\ ui'.filled = ui.filled
          /\ ui'.others = ui.others /\ ui'.form = form /\ ui'.own = ui.own \cup {f}
          /\ srv' = srv /\ q' = q /\ calls' = calls /\ ui.filled /\ ui'.asking = ui.asking
      BY <1>0, <2>1, <2>2 DEF Detail!Type, Detail!Shown, FormUi
    <2>4. form \in Written /\ form[f] = "mine" /\ \A g \in Detail!Fields \ {f} : form[g] = ui.form[g]
      BY <1>0, <2>2 DEF Written, Detail!Values
    <2> QED
      BY <1>0, <1>1, <2>3, <2>4, SteadyKeeps
  <1> QED
    BY <1>2, <1>3, <1>4

\* A save is sent.
LEMMA SendKeeps ==
  ASSUME DetailInv, Detail!Save \/ Detail!Deactivate
  PROVE  DetailInv'
  <1>0. /\ DOMAIN ui = FormUi /\ ui.form \in Written /\ ui.own \subseteq Detail!Fields /\ q.data \in Written
        /\ ui.others \in BOOLEAN /\ ui.here /\ ui.page \in {"tenant", "user"} /\ (ui.asking => ui.page = "user")
    BY DEF DetailInv, DetailShape, SavesInv, Detail!Save, Detail!Deactivate, Detail!Shown
  <1>1. PICK kind \in {"save", "off"}, fields \in SUBSET Detail!Fields, own \in SUBSET Detail!Fields :
          /\ Detail!Send(kind, fields, own) /\ (kind = "off" => ui.page = "user" /\ fields \subseteq own)
          /\ kind = "save" => own = ui.own /\ fields = Detail!Body /\ ui.filled
    BY <1>0 DEF Detail!Save, Detail!Deactivate, Detail!Body, Detail!Differing, Detail!Fields, Detail!Shown
  <1>2. PICK values : values = IF kind = "save" THEN ui.form ELSE [f \in Detail!Fields |-> "off"]
    OBVIOUS
  <1>3. values \in Written
    BY <1>0, <1>2 DEF Written, Detail!Values
  <1>4. PICK d : d = [kind |-> kind, fields |-> fields, at |-> "sent", ok |-> FALSE, own |-> own, values |-> values,
                      read |-> q.data, others |-> ui.others]
    OBVIOUS
  <1>5. d \in Saves
    BY <1>0, <1>3, <1>4 DEF Saves
  <1>6. /\ calls' = calls \cup {d} /\ srv' = srv /\ q' = q /\ \A c \in calls : c.kind # kind
        /\ DOMAIN ui' = DOMAIN ui /\ ui'.page = ui.page /\ ui'.here = ui.here /\ ui'.filled = ui.filled
        /\ ui'.others = ui.others /\ ui'.form = ui.form /\ ui'.own = ui.own /\ ui'.asking = ui.asking
    BY <1>0, <1>1, <1>2, <1>4 DEF Detail!Send, Detail!Pending, FormUi
  <1>7. SavesInv'
    <2>1. SavesInv /\ d.kind = kind
      BY <1>4 DEF DetailInv
    <2>2. calls' \subseteq Saves /\ \A c \in calls' : c.kind = "off" => ui'.page = "user"
      BY <1>1, <1>5, <1>6, <2>1 DEF SavesInv
    <2>3. \A x, y \in calls' : x.kind = y.kind => x = y
      BY <1>6, <2>1 DEF SavesInv
    <2>4. ui'.asking => ui'.page = "user"
      BY <1>6, <2>1 DEF SavesInv
    <2> QED
      BY <2>2, <2>3, <2>4 DEF SavesInv, Saves, Written
  <1>8. ASSUME kind = "save", NEW f \in Detail!Fields, f \in fields, f \notin ui.own
        PROVE  IF ui.page = "user" THEN values[f] = q.data[f] ELSE ui.others
    BY <1>0, <1>1, <1>2, <1>8 DEF DetailInv, UserForm, TenantForm, Detail!Body, Detail!Differing
  <1>9. Detail!SavesWhatWasTyped'
    BY <1>1, <1>4, <1>6, <1>8 DEF DetailInv, Detail!SavesWhatWasTyped
  <1>10. TenantForm'
    <2>1. ui.page = "tenant" /\ ~ui.others => d.fields \subseteq ui.own
      BY <1>1, <1>4, <1>8
    <2> QED
      BY <1>6, <2>1 DEF DetailInv, TenantForm, Older
  <1> QED
    BY <1>6, <1>7, <1>9, <1>10 DEF DetailInv, DetailShape, UserForm, Detail!TypingStays, IsQuery, FormUi

\* The server writes, for the page or for somebody else.
LEMMA StoredKeeps ==
  ASSUME DetailInv, NEW stored \in Written, DOMAIN srv' = {"stored", "others"}, srv'.stored = stored, ui' = ui, q' = q,
         ui.page = "tenant" /\ ~ui.others => \A f \in Detail!Fields \ ui.own : stored[f] \in {srv.stored[f], "theirs"},
         calls' \subseteq Saves, \A x \in calls' : \E y \in calls : /\ x.kind = y.kind /\ x.fields = y.fields /\ x.own = y.own
                                              /\ x.values = y.values /\ x.read = y.read /\ x.others = y.others,
         \A x, y \in calls' : x.kind = y.kind => x = y
  PROVE  DetailInv'
  <1>1. SavesInv' /\ Detail!SavesWhatWasTyped'
    BY DEF DetailInv, SavesInv, Detail!SavesWhatWasTyped, Saves, Written
  <1>2. TenantForm'
    BY DEF DetailInv, TenantForm, Older
  <1> QED
    BY <1>1, <1>2 DEF DetailInv, DetailShape, UserForm, Detail!TypingStays, IsQuery

LEMMA ServerKeeps ==
  ASSUME DetailInv,
         \/ \E f \in Detail!Fields : Detail!OtherSaves(f)
         \/ \E c \in calls : \E d, b \in BOOLEAN : Detail!HandleSave(c, d, b)
  PROVE  DetailInv'
  <1>0. srv.stored \in Written /\ DOMAIN srv = {"stored", "others"} /\ SavesInv
    BY DEF DetailInv, DetailShape
  <1>1. CASE \E f \in Detail!Fields : Detail!OtherSaves(f)
    <2>1. PICK f \in Detail!Fields : Detail!OtherSaves(f)
      BY <1>1
    <2>2. PICK stored : stored = [srv.stored EXCEPT ![f] = "theirs"]
      OBVIOUS
    <2>3. stored \in Written /\ \A g \in Detail!Fields : stored[g] \in {srv.stored[g], "theirs"}
      BY <1>0, <2>2 DEF Written, Detail!Values
    <2>4. DOMAIN srv' = {"stored", "others"} /\ srv'.stored = stored /\ ui' = ui /\ q' = q /\ calls' = calls
      BY <2>1, <2>2 DEF Detail!OtherSaves
    <2> QED
      BY <1>0, <2>3, <2>4, StoredKeeps DEF SavesInv
  <1>2. CASE \E c \in calls : \E d, b \in BOOLEAN : Detail!HandleSave(c, d, b)
    <2>1. PICK c \in calls, does \in BOOLEAN, b \in BOOLEAN : Detail!HandleSave(c, does, b)
      BY <1>2
    <2>2. PICK stored : stored = IF does THEN [f \in Detail!Fields |-> IF f \in c.fields THEN c.values[f] ELSE srv.stored[f]]
                                 ELSE srv.stored
      OBVIOUS
    <2>3. PICK d : d = [c EXCEPT !.at = "handled", !.ok = does /\ b]
      OBVIOUS
    <2>4. c \in Saves /\ c.values \in Written
      BY <1>0 DEF SavesInv, Saves
    <2>5. stored \in Written
      BY <1>0, <2>2, <2>4 DEF Written
    <2>6. /\ d \in Saves /\ d.kind = c.kind /\ d.fields = c.fields /\ d.own = c.own /\ d.values = c.values
          /\ d.read = c.read /\ d.others = c.others
      <3>1. (does /\ b) \in BOOLEAN
        OBVIOUS
      <3> QED
        BY <2>3, <2>4, <3>1 DEF Saves
    <2>7. DOMAIN srv' = {"stored", "others"} /\ srv'.stored = stored /\ ui' = ui /\ q' = q /\ calls' = (calls \ {c}) \cup {d}
      BY <1>0, <2>1, <2>2, <2>3 DEF Detail!HandleSave
    <2>8. /\ calls' \subseteq Saves /\ \A x, y \in calls' : x.kind = y.kind => x = y
          /\ \A x \in calls' : \E y \in calls : /\ x.kind = y.kind /\ x.fields = y.fields /\ x.own = y.own
                                      /\ x.values = y.values /\ x.read = y.read /\ x.others = y.others
      BY <1>0, <2>6, <2>7 DEF SavesInv
    <2>9. ui.page = "tenant" /\ ~ui.others => \A f \in Detail!Fields \ ui.own : stored[f] \in {srv.stored[f], "theirs"}
      <3>1. ui.page = "tenant" /\ ~ui.others => c.fields \subseteq ui.own
        BY DEF DetailInv, TenantForm
      <3> QED
        BY <2>2, <3>1
    <2> QED
      BY <2>5, <2>7, <2>8, <2>9, StoredKeeps
  <1> QED
    BY <1>1, <1>2

\* A save is answered: only a deactivation shows in the form.
LEMMA AnsweredKeeps ==
  ASSUME DetailInv, NEW c \in calls, Detail!CallAnswered(c)
  PROVE  DetailInv'
  <1>0. /\ IsQuery(q) /\ (q.fetch # "read" => q.read = q.data) /\ DOMAIN ui = FormUi /\ ui.here \in BOOLEAN
        /\ ui.form \in Written /\ ui.own \subseteq Detail!Fields /\ (c.kind = "off" => ui.page = "user")
        /\ ui.page = "tenant" => \A f \in ui.own : ui.form[f] = "mine"
        /\ ui.asking => ui.page = "user"
    BY DEF DetailInv, DetailShape, SavesInv, Detail!TypingStays
  <1>q. Resting(q)
    BY <1>0 DEF Resting
  <1>1. Steady(q, q)
    BY <1>0 DEF Steady
  <1>2. CASE ~c.ok
    BY <1>0, <1>1, <1>2, SteadyKeeps DEF Detail!CallAnswered
  <1>3. CASE c.ok
    <2>1. q' \in {Detail!Invalidated(q), Detail!Outdated(q)} /\ srv' = srv /\ calls' \subseteq calls
      BY <1>3 DEF Detail!CallAnswered
    <2>2. Steady(q', q)
      BY ONLY <1>q, <2>1, SteadyQueries
    <2>3. PICK form : form = [ui.form EXCEPT !["second"] = IF c.kind = "off" /\ ui.here THEN "off" ELSE ui.form["second"]]
      OBVIOUS
    <2>4. PICK own : own = IF c.kind = "off" /\ ui.here THEN ui.own \cup {"second"} ELSE ui.own
      OBVIOUS
    <2>5. /\ DOMAIN ui' = FormUi /\ ui'.page = ui.page /\ ui'.here = ui.here /\ ui'.filled = ui.filled
          /\ ui'.others = ui.others /\ ui'.form = form /\ ui'.own = own /\ (ui'.asking => ui.asking)
      BY <1>0, <1>3, <2>3, <2>4 DEF Detail!CallAnswered, FormUi
    <2>6. "second" \in Detail!Fields /\ form \in Written /\ own \subseteq Detail!Fields /\ ui.own \subseteq own
      BY <1>0, <2>3, <2>4 DEF Written, Detail!Values, Detail!Fields
    <2>7. CASE c.kind = "off" /\ ui.here
      BY <1>0, <2>1, <2>2, <2>3, <2>4, <2>5, <2>6, <2>7, SteadyKeeps DEF Written
    <2>8. CASE ~(c.kind = "off" /\ ui.here)
      <3>1. form = ui.form /\ own = ui.own
        BY <1>0, <2>3, <2>4, <2>8 DEF Written
      <3> QED
        BY <1>0, <2>1, <2>2, <2>5, <3>1, SteadyKeeps
    <2> QED
      BY <2>7, <2>8
  <1> QED
    BY <1>2, <1>3

\* The record is read, and fills the form of a user, and once that of a tenant.
LEMMA ReadKeeps ==
  ASSUME DetailInv, Detail!ReadRecord \/ Detail!RecordAnswer
  PROVE  DetailInv'
  <1>0. DetailShape /\ IsQuery(q) /\ (q.fetch # "read" => q.read = q.data) /\ DOMAIN ui = FormUi /\ ui.here \in BOOLEAN
    BY DEF DetailInv, DetailShape
  <1>1. CASE Detail!ReadRecord
    <2>1. q' = Detail!ReadWith(q, srv.stored) /\ srv' = srv /\ ui' = ui /\ calls' = calls
      BY <1>1 DEF Detail!ReadRecord
    <2>2. IsQuery(q') /\ q'.data = q.data /\ q'.read = srv.stored /\ q'.fetch = "read"
      BY <1>0, <2>1, ReadQueries
    <2> QED
      BY <2>1, <2>2 DEF DetailInv, DetailShape, SavesInv, UserForm, TenantForm, Older, Detail!SavesWhatWasTyped,
                        Detail!TypingStays
  <1>2. CASE Detail!RecordAnswer
    <2>1. IsQuery(q') /\ q'.data = q.read /\ q'.read = q.read /\ srv' = srv /\ calls' = calls
      BY <1>0, <1>2, ReadQueries DEF Detail!RecordAnswer
    <2>2. CASE ~ui.here \/ (q.has /\ q.read = q.data)
      <3>1. ui' = ui
        BY <1>2, <2>2 DEF Detail!RecordAnswer
      <3> QED
        BY <2>1, <2>2, <3>1 DEF DetailInv, DetailShape, SavesInv, UserForm, TenantForm, Older,
                                Detail!SavesWhatWasTyped, Detail!TypingStays
    <2>3. CASE ~(~ui.here \/ (q.has /\ q.read = q.data)) /\ Detail!Fills
      <3>1. PICK own : own = IF ui.page = "user" THEN {} ELSE ui.own
        OBVIOUS
      <3>2. /\ DOMAIN ui' = FormUi /\ ui'.page = ui.page /\ ui'.here = ui.here /\ ui'.filled = TRUE
            /\ ui'.others = ui.others /\ ui'.form = q.read /\ ui'.own = own /\ ui'.asking = ui.asking
        BY <1>0, <1>2, <2>3, <3>1 DEF Detail!RecordAnswer, FormUi
      <3>3. own = {}
        BY <2>3, <3>1 DEF DetailInv, DetailShape, Detail!Fills
      <3>4. ui.page = "tenant" => ui.own = {}
        BY <2>3 DEF DetailInv, Detail!Fills
      <3>5. DetailShape' /\ SavesInv' /\ UserForm' /\ TenantForm'
        BY <2>1, <3>2, <3>3, <3>4 DEF DetailInv, DetailShape, SavesInv, UserForm, TenantForm, Older
      <3>6. Detail!SavesWhatWasTyped' /\ Detail!TypingStays'
        BY <2>1, <3>2, <3>3 DEF DetailInv, Detail!SavesWhatWasTyped, Detail!TypingStays
      <3> QED
        BY <3>2, <3>5, <3>6 DEF DetailInv
    <2>4. CASE ~(~ui.here \/ (q.has /\ q.read = q.data)) /\ ~Detail!Fills
      <3>1. PICK others \in BOOLEAN : others = (ui.others \/ \E f \in Detail!Fields : q.read[f] = "theirs")
        BY <1>0 DEF DetailShape
      <3>2. /\ DOMAIN ui' = FormUi /\ ui'.page = ui.page /\ ui'.here = ui.here /\ ui'.filled = ui.filled
            /\ ui'.others = others /\ ui'.form = ui.form /\ ui'.own = ui.own /\ ui.page = "tenant" /\ ui.filled
            /\ ui'.asking = ui.asking
        BY <1>0, <1>2, <2>4, <3>1 DEF Detail!RecordAnswer, FormUi, Detail!Fills, DetailShape
      <3>3. TenantForm'
        <4> SUFFICES ASSUME ~others PROVE TenantForm'
          BY <3>2 DEF TenantForm
        <4>1. ~ui.others /\ \A f \in Detail!Fields : q.read[f] # "theirs"
          BY <3>1
        <4>2. \A f \in Detail!Fields \ ui.own : q.read[f] = q.data[f]
          BY <3>2, <4>1 DEF DetailInv, TenantForm, Older
        <4> QED
          BY <2>1, <3>2, <4>1, <4>2 DEF DetailInv, TenantForm, Older
      <3>4. DetailShape' /\ SavesInv' /\ UserForm'
        BY <2>1, <3>2 DEF DetailInv, DetailShape, SavesInv, UserForm
      <3> QED
        BY <2>1, <3>2, <3>3, <3>4 DEF DetailInv, Detail!SavesWhatWasTyped, Detail!TypingStays
    <2> QED
      BY <2>2, <2>3, <2>4
  <1> QED
    BY <1>1, <1>2

\* Every step keeps DetailInv.
LEMMA DetailStep == ASSUME DetailInv, Detail!FormNext PROVE DetailInv'
  BY PageKeepsDetail, SendKeeps, ServerKeeps, AnsweredKeeps, ReadKeeps DEF Detail!FormNext

LEMMA DetailFirst == ASSUME Detail!FormInit PROVE DetailInv
  <1>1. Detail!Empty \in Written /\ \A f \in Detail!Fields : Detail!Empty[f] = "first"
    BY DEF Detail!Empty, Written, Detail!Values
  <1>2. DOMAIN srv = {"stored", "others"} /\ srv.stored = Detail!Empty /\ calls = {}
    BY DEF Detail!FormInit
  <1>3. /\ DOMAIN ui = FormUi /\ ui.page \in {"tenant", "user"} /\ ui.here = TRUE /\ ui.filled = FALSE
        /\ ui.form = Detail!Empty /\ ui.own = {} /\ ui.others = FALSE /\ ui.asking = FALSE
    BY DEF Detail!FormInit, FormUi
  <1>4. IsQuery(q) /\ q.data = Detail!Empty /\ q.read = Detail!Empty
    BY DEF Detail!FormInit, IsQuery, Fetched, Detail!Started, Detail!NewQuery
  <1> QED
    BY <1>1, <1>2, <1>3, <1>4 DEF DetailInv, DetailShape, SavesInv, UserForm, TenantForm, Older,
       Detail!SavesWhatWasTyped, Detail!TypingStays

\* There are two kinds of saves, and one call of each.
LEMMA DetailFits == ASSUME DetailInv PROVE Detail!FormTypeOK /\ Detail!SavesWhatWasTyped /\ Detail!TypingStays
  <1>1. Cardinality(calls) <= 2
    <2>1. PICK s : \A c \in calls : c.kind = "save" => c = s
      BY DEF DetailInv, SavesInv
    <2>2. PICK o : \A c \in calls : c.kind = "off" => c = o
      BY DEF DetailInv, SavesInv
    <2>3. calls \subseteq {s} \cup {o}
      BY <2>1, <2>2 DEF DetailInv, SavesInv, Saves
    <2>4. IsFiniteSet({s}) /\ Cardinality({s}) = 1
      BY FS_Singleton
    <2>5. IsFiniteSet({s} \cup {o}) /\ Cardinality({s} \cup {o}) \in {1, 2}
      BY <2>4, FS_AddElement
    <2>6. Cardinality(calls) <= Cardinality({s} \cup {o}) /\ IsFiniteSet(calls)
      BY <2>3, <2>5, FS_Subset
    <2>7. Cardinality(calls) \in Nat
      BY <2>6, FS_CardinalityType
    <2> QED
      BY <2>5, <2>6, <2>7
  <1> QED
    <2>1. Cardinality(calls) = Detail!Cardinality(calls)
      BY DEF Cardinality, Detail!Cardinality
    <2> QED
      BY <1>1, <2>1 DEF DetailInv, DetailShape, Written, Detail!FormTypeOK

-----------------------------------------------------------------------------
(* Lists read page by page *)

\* A cursor got under filter f; the cursors under it, each further on than the one before.
Cursor(f) == [after : Nat, filter : {f}]

Trails(f) ==
  {s \in Seq(Cursor(f)) : \A k \in 1 .. Len(s) - 1 : s[k].after < s[k + 1].after}

PagerUi == {"browser", "filter", "chosen", "cursors"}

\* A page is behind the last cursor, and of the filter.
Behind(page) ==
  /\ page.item \in Nat /\ page.next \in Nat
  /\ page.item # 0 => page.item > Pager!After /\ Pager!Found(page.item)
  /\ page.next # 0 => page.next > Pager!After

PagerInv ==
  /\ DOMAIN ui = PagerUi /\ ui.browser \in BOOLEAN /\ ui.cursors \in Trails(ui.filter)
  /\ DOMAIN srv = {"items", "changes"} /\ srv.items \subseteq DOMAIN Items
  /\ IsQuery(q) /\ Behind(q.data) /\ Behind(q.read)

\* Where a page begins.
LEMMA AfterFacts ==
  ASSUME ui.cursors \in Trails(ui.filter)
  PROVE  /\ Pager!After \in Nat
         /\ ui.cursors # <<>> => Len(ui.cursors) \in 1 .. Len(ui.cursors) /\ Pager!After = ui.cursors[Len(ui.cursors)].after
  <1>1. ui.cursors \in Seq(Cursor(ui.filter))
    BY DEF Trails
  <1>2. CASE ui.cursors = <<>>
    BY <1>2 DEF Pager!After
  <1>3. CASE ui.cursors # <<>>
    <2>1. Len(ui.cursors) \in 1 .. Len(ui.cursors) /\ DOMAIN ui.cursors = 1 .. Len(ui.cursors)
      BY <1>1, <1>3, LenProperties
    <2>2. PICK s : s = Pager!Cursors
      OBVIOUS
    <2>6. ui.cursors[Len(ui.cursors)] \in Cursor(ui.filter)
      BY <1>1, <2>1, ElementOfSeq
    <2>7. ui.cursors[Len(ui.cursors)].after \in Nat
      BY <2>6 DEF Cursor
    <2>3. s = [k \in 1 .. Len(ui.cursors) |-> ui.cursors[k].after] /\ Len(ui.cursors) \in Nat
      BY <1>1, <2>1, <2>2, LenProperties DEF Pager!Cursors
    <2>4. Len(s) = Len(ui.cursors)
      BY ONLY <2>3
    <2>5. Pager!After = s[Len(ui.cursors)]
      BY <1>3, <2>2, <2>4 DEF Pager!After, Pager!Last
    <2> QED
      BY <2>1, <2>3, <2>5, <2>7
  <1> QED
    BY <1>2, <1>3

\* The items are natural numbers, and a set of them has a first.
LEMMA FirstItem ==
  ASSUME NEW S \in SUBSET Nat, S # {}
  PROVE  \E i \in S : \A j \in S : i <= j
  <1>1. PICK x \in S : \A y \in S : ~(<<y, x>> \in OpToRel(<, Nat))
    BY NatLessThanWellFounded, WFMin
  <1>2. \A y \in S : x \in Nat /\ y \in Nat /\ ~(y < x)
    BY <1>1 DEF OpToRel
  <1> QED
    BY <1>2

LEMMA PageIsBehind == ASSUME PagerInv PROVE Behind(Pager!Page)
  <1> DEFINE after == {i \in srv.items : i > Pager!After /\ Pager!Found(i)}
             first == CHOOSE i \in after : \A j \in after : i <= j
  <1>1. DOMAIN Items \subseteq Nat /\ Pager!After \in Nat
    BY ConsoleAssumption, LenProperties, AfterFacts DEF PagerInv
  <1>2. CASE after = {}
    BY <1>1, <1>2 DEF Pager!Page, Pager!NoPage, Behind
  <1>3. CASE after # {}
    <2>1. \E i \in after : \A j \in after : i <= j
      BY <1>1, <1>3, FirstItem DEF PagerInv
    <2>2. first \in after
      BY <2>1
    <2>3. first \in Nat /\ first > Pager!After /\ Pager!Found(first)
      BY <1>1, <2>2 DEF PagerInv
    <2>4. Pager!Page = [item |-> first, next |-> IF after = {first} THEN 0 ELSE first]
      BY <1>3 DEF Pager!Page
    <2> HIDE DEF first, after
    <2> QED
      BY <2>3, <2>4 DEF Behind
  <1> QED
    BY <1>2, <1>3

LEMMA PagerQueries ==
  ASSUME NEW x, IsQuery(x), NEW data
  PROVE  /\ \A y \in {Pager!Invalidated(x), Pager!Observed(x, TRUE), Pager!Answered(x), Pager!Refused(x)} : Derived(y, x)
         /\ IsQuery(Pager!ReadWith(x, data)) /\ Pager!ReadWith(x, data).data = x.data /\ Pager!ReadWith(x, data).read = data
  BY DEF IsQuery, Derived, Fetched, Pager!Started, Pager!Invalidated, Pager!Observed, Pager!Answered, Pager!Refused,
         Pager!ReadWith

\* Another page is shown: its query has no data yet.
LEMMA ShowsAnother ==
  ASSUME PagerInv, NEW u, Pager!Showing(u), DOMAIN u = PagerUi, u.browser \in BOOLEAN, u.cursors \in Trails(u.filter)
  PROVE  PagerInv'
  <1>1. q' = Pager!Started(Pager!NewQuery(Pager!NoPage)) /\ ui' = u /\ srv' = srv
    BY DEF Pager!Showing
  <1>2. IsQuery(q') /\ q'.data = Pager!NoPage /\ q'.read = Pager!NoPage
    BY <1>1 DEF IsQuery, Fetched, Pager!Started, Pager!NewQuery
  <1> QED
    BY <1>1, <1>2 DEF PagerInv, Behind, Pager!NoPage

\* The page stays, and shows what it had or what was read.
LEMMA ShowsTheSame ==
  ASSUME PagerInv, ui' = ui \/ (\E f : ui' = [ui EXCEPT !.chosen = f]), DOMAIN srv' = {"items", "changes"},
         srv'.items \subseteq DOMAIN Items, IsQuery(q'), q'.data \in {q.data, q.read}, Behind(q'.read)
  PROVE  PagerInv'
  <1>1. DOMAIN ui' = PagerUi /\ ui'.browser = ui.browser /\ ui'.filter = ui.filter /\ ui'.cursors = ui.cursors
    BY DEF PagerInv, PagerUi
  <1>2. Pager!After' = Pager!After /\ \A i : Pager!Found(i)' = Pager!Found(i)
    BY <1>1 DEF Pager!After, Pager!Cursors, Pager!Found
  <1> QED
    BY <1>1, <1>2 DEF PagerInv, Behind

LEMMA TrailForms ==
  ASSUME NEW f, NEW s \in Trails(f)
  PROVE  /\ <<>> \in Trails(f)
         /\ s # <<>> => SubSeq(s, 1, Len(s) - 1) \in Trails(f)
         /\ \A n \in Nat : (s # <<>> => s[Len(s)].after < n) => Append(s, [after |-> n, filter |-> f]) \in Trails(f)
  <1>1. s \in Seq(Cursor(f)) /\ Len(s) \in Nat /\ \A k \in 1 .. Len(s) - 1 : s[k].after < s[k + 1].after
    BY LenProperties DEF Trails
  <1>2. <<>> \in Trails(f)
    BY EmptySeq DEF Trails
  <1>3. ASSUME s # <<>> PROVE SubSeq(s, 1, Len(s) - 1) \in Trails(f)
    <2>1. PICK n : n = Len(s) - 1
      OBVIOUS
    <2>2. n \in Nat /\ 1 \in Int /\ n \in Int /\ n = n - 1 + 1 /\ (IF 1 <= n THEN n - 1 + 1 ELSE 0) = n
      BY <1>1, <1>3, <2>1, EmptySeq
    <2>3. \A i \in 1 .. n : i \in 1 .. Len(s) /\ i = 1 + i - 1
      BY <1>1, <2>1, <2>2
    <2>4. \A i \in 1 .. n : s[i] \in Cursor(f)
      BY <1>1, <2>3, ElementOfSeq
    <2>5. /\ SubSeq(s, 1, n) \in Seq(Cursor(f)) /\ Len(SubSeq(s, 1, n)) = IF 1 <= n THEN n - 1 + 1 ELSE 0
          /\ \A i \in 1 .. n - 1 + 1 : SubSeq(s, 1, n)[i] = s[1 + i - 1]
      BY ONLY <2>2, <2>4, SubSeqProperties
    <2>6. PICK z : z = SubSeq(s, 1, n)
      OBVIOUS
    <2>7. z \in Seq(Cursor(f)) /\ Len(z) = n /\ \A i \in 1 .. n : z[i] = s[i]
      BY <2>2, <2>3, <2>5, <2>6
    <2>8. \A k \in 1 .. Len(z) - 1 : k \in 1 .. n /\ k + 1 \in 1 .. n /\ k \in 1 .. Len(s) - 1
      BY <1>1, <2>1, <2>2, <2>7
    <2>9. \A k \in 1 .. Len(z) - 1 : z[k].after < z[k + 1].after
      BY <1>1, <2>7, <2>8
    <2> QED
      BY <2>1, <2>6, <2>7, <2>9 DEF Trails
  <1>4. ASSUME NEW n \in Nat, s # <<>> => s[Len(s)].after < n PROVE Append(s, [after |-> n, filter |-> f]) \in Trails(f)
    <2>1. PICK x : x = [after |-> n, filter |-> f]
      OBVIOUS
    <2>2. x \in Cursor(f) /\ x.after = n
      BY <2>1 DEF Cursor
    <2>3. /\ Append(s, x) \in Seq(Cursor(f)) /\ Len(Append(s, x)) = Len(s) + 1 /\ Append(s, x)[Len(s) + 1] = x
          /\ \A i \in 1 .. Len(s) : Append(s, x)[i] = s[i]
      BY <1>1, <2>2, AppendProperties
    <2>4. ASSUME NEW k \in 1 .. Len(Append(s, x)) - 1 PROVE Append(s, x)[k].after < Append(s, x)[k + 1].after
      <3>1. k \in 1 .. Len(s)
        BY <1>1, <2>3
      <3>2. CASE k = Len(s)
        <4>1. s # <<>>
          BY <3>1, <3>2, EmptySeq
        <4> QED
          BY <1>4, <2>2, <2>3, <3>1, <3>2, <4>1
      <3>3. CASE k # Len(s)
        <4>1. k \in 1 .. Len(s) - 1 /\ k + 1 \in 1 .. Len(s)
          BY <1>1, <3>1, <3>3
        <4> QED
          BY <1>1, <2>3, <4>1
      <3> QED
        BY <3>2, <3>3
    <2> QED
      BY <2>1, <2>3, <2>4 DEF Trails
  <1> QED
    BY <1>2, <1>3, <1>4

\* Every step keeps PagerInv.
LEMMA PagerStep == ASSUME PagerInv, Pager!PagingNext PROVE PagerInv'
  <1>0. /\ DOMAIN ui = PagerUi /\ ui.browser \in BOOLEAN /\ ui.cursors \in Trails(ui.filter) /\ IsQuery(q)
        /\ DOMAIN srv = {"items", "changes"} /\ srv.items \subseteq DOMAIN Items /\ Behind(q.data) /\ Behind(q.read)
    BY DEF PagerInv
  <1>1. ASSUME NEW f, Pager!Filter(f) PROVE PagerInv'
    <2>1. PICK u : u = [ui EXCEPT !.filter = f, !.chosen = f, !.cursors = <<>>]
      OBVIOUS
    <2>2. DOMAIN u = PagerUi /\ u.browser = ui.browser /\ u.filter = f /\ u.cursors = <<>> /\ Pager!Showing(u)
      BY <1>0, <1>1, <2>1 DEF Pager!Filter, Pager!NoCursors, PagerUi
    <2>3. <<>> \in Trails(f)
      BY EmptySeq DEF Trails
    <2> QED
      BY <1>0, <2>2, <2>3, ShowsAnother
  <1>2. CASE \E f \in Pager!Filters : Pager!SetFilter(f)
    BY <1>1, <1>2 DEF Pager!SetFilter
  <1>3. CASE Pager!Search
    <2>1. CASE Pager!Filter(ui.chosen)
      BY <1>1, <2>1
    <2>2. CASE Pager!Showing([ui EXCEPT !.cursors = Pager!NoCursors])
      <3>1. PICK u : u = [ui EXCEPT !.cursors = <<>>]
        OBVIOUS
      <3>2. DOMAIN u = PagerUi /\ u.browser = ui.browser /\ u.filter = ui.filter /\ u.cursors = <<>> /\ Pager!Showing(u)
        BY <1>0, <2>2, <3>1 DEF Pager!NoCursors, PagerUi
      <3> QED
        BY <1>0, <3>2, TrailForms, ShowsAnother
    <2> QED
      BY <1>3, <2>1, <2>2 DEF Pager!Search
  <1>4. CASE Pager!GoNext
    <2>1. PICK s : s = Append(ui.cursors, [after |-> q.data.next, filter |-> ui.filter])
      OBVIOUS
    <2>2. PICK u : u = [ui EXCEPT !.cursors = s]
      OBVIOUS
    <2>3. DOMAIN u = PagerUi /\ u.browser = ui.browser /\ u.filter = ui.filter /\ u.cursors = s /\ Pager!Showing(u)
      BY <1>0, <1>4, <2>1, <2>2 DEF Pager!GoNext, PagerUi
    <2>4. q.data.next \in Nat /\ (ui.cursors # <<>> => ui.cursors[Len(ui.cursors)].after < q.data.next)
      BY <1>0, <1>4, AfterFacts DEF Pager!GoNext, Behind
    <2> QED
      BY <1>0, <2>1, <2>3, <2>4, TrailForms, ShowsAnother
  <1>5. CASE Pager!GoPrev
    <2>1. PICK s : s = SubSeq(ui.cursors, 1, Len(ui.cursors) - 1)
      OBVIOUS
    <2>2. PICK u : u = [ui EXCEPT !.cursors = s]
      OBVIOUS
    <2>3. DOMAIN u = PagerUi /\ u.browser = ui.browser /\ u.filter = ui.filter /\ u.cursors = s /\ Pager!Showing(u)
      BY <1>0, <1>5, <2>1, <2>2 DEF Pager!GoPrev, Pager!Front, PagerUi
    <2> QED
      BY <1>0, <1>5, <2>1, <2>3, TrailForms, ShowsAnother DEF Pager!GoPrev
  <1>6. CASE Pager!RefetchPage \/ Pager!PageAnswer \/ Pager!PageFail
    <2>1. q' \in {Pager!Invalidated(q), Pager!Observed(q, TRUE), Pager!Answered(q), Pager!Refused(q)}
          /\ srv' = srv /\ ui' = ui
      BY <1>6 DEF Pager!RefetchPage, Pager!PageAnswer, Pager!PageFail
    <2>2. IsQuery(q)
      BY <1>0
    <2>3. Derived(q', q)
      BY ONLY <2>1, <2>2, PagerQueries
    <2> QED
      BY <1>0, <2>1, <2>3, ShowsTheSame DEF Derived
  <1>7. CASE Pager!ReadPage
    <2>1. q' = Pager!ReadWith(q, Pager!Page) /\ srv' = srv /\ ui' = ui
      BY <1>7 DEF Pager!ReadPage
    <2>2. IsQuery(q') /\ q'.data = q.data /\ q'.read = Pager!Page
      BY <1>0, <2>1, PagerQueries
    <2> QED
      BY <1>0, <2>1, <2>2, PageIsBehind, ShowsTheSame
  <1>8. CASE \E f \in Pager!Filters : Pager!Choose(f)
    BY <1>0, <1>8, ShowsTheSame DEF Pager!Choose
  <1>9. CASE \E i \in DOMAIN Items : Pager!OthersChange(i)
    <2>1. PICK i \in DOMAIN Items : Pager!OthersChange(i)
      BY <1>9
    <2>2. DOMAIN srv' = {"items", "changes"} /\ srv'.items \subseteq DOMAIN Items /\ ui' = ui /\ q' = q
      BY <1>0, <2>1 DEF Pager!OthersChange
    <2> QED
      BY <1>0, <2>2, ShowsTheSame
  <1> QED
    BY <1>2, <1>3, <1>4, <1>5, <1>6, <1>7, <1>8, <1>9 DEF Pager!PagingNext

LEMMA PagerFirst == ASSUME Pager!PagingInit PROVE PagerInv
  <1>1. /\ srv = [items |-> DOMAIN Items, changes |-> 0] /\ q = Pager!Started(Pager!NewQuery(Pager!NoPage))
        /\ \E f, g : ui \in [browser : BOOLEAN, filter : {f}, chosen : {g}, cursors : {<<>>}]
    BY Zenon DEF Pager!PagingInit
  <1>2. DOMAIN ui = PagerUi /\ ui.browser \in BOOLEAN /\ ui.cursors = <<>>
    BY <1>1 DEF PagerUi
  <1>3. <<>> \in Trails(ui.filter)
    BY EmptySeq DEF Trails
  <1>4. IsQuery(q) /\ q.data = Pager!NoPage /\ q.read = Pager!NoPage
    BY <1>1 DEF IsQuery, Fetched, Pager!Started, Pager!NewQuery
  <1>5. DOMAIN srv = {"items", "changes"} /\ srv.items \subseteq DOMAIN Items
    BY <1>1
  <1> QED
    BY <1>2, <1>3, <1>4, <1>5 DEF PagerInv, Behind, Pager!NoPage

LEMMA PagerFits == ASSUME PagerInv PROVE Pager!CursorsFit
  <1>1. ui.cursors \in Seq(Cursor(ui.filter)) /\ DOMAIN ui.cursors = 1 .. Len(ui.cursors)
        /\ Len(ui.cursors) \in Nat
    BY LenProperties DEF PagerInv, Trails
  <1>4. \A k \in DOMAIN ui.cursors : ui.cursors[k] \in Cursor(ui.filter)
    BY <1>1, ElementOfSeq
  <1>2. \A k \in DOMAIN ui.cursors : ui.cursors[k].filter = ui.filter
    BY <1>4 DEF Cursor
  <1>3. \A k \in 1 .. Len(ui.cursors) - 1 : Pager!Cursors[k] < Pager!Cursors[k + 1]
    BY <1>1 DEF PagerInv, Trails, Pager!Cursors
  <1> QED
    BY <1>2, <1>3 DEF PagerInv, Behind, Pager!CursorsFit

-----------------------------------------------------------------------------
(* The registration of a tenant *)

RegUi == {"at", "visit", "busy", "error", "shown", "interval", "errors", "hidden", "asks"}
Replies == {"failed", "created", "loginable"}
Kinds == {"register", "poll", "restore", "bind"}

\* The page from which a request of a kind is sent.
PageOf(kind) == IF kind = "register" THEN "form" ELSE IF kind = "poll" THEN "progress" ELSE "result"

\* What is said of a registration is so.
So(said) ==
  /\ said \in {"created", "loginable"} => srv.tenant
  /\ said = "loginable" => srv.realm

RegServer == DOMAIN srv = {"tenant", "realm"} /\ srv.tenant \in BOOLEAN /\ srv.realm \in BOOLEAN /\ (srv.realm => srv.tenant)

RegPage ==
  /\ DOMAIN ui = RegUi /\ ui.at \in {"form", "progress", "result"} /\ ui.visit \in Nat /\ ui.errors \in 0 .. 3
  /\ ui.shown \in {"nothing", "created", "loginable"} /\ So(ui.shown)
  /\ ui.interval => ui.at = "progress" /\ ~ui.error

\* A request of this visit was sent from the page on the screen, and what it is answered is so.
RegCall(c) ==
  /\ DOMAIN c = {"kind", "visit", "at", "reply"} /\ c.kind \in Kinds /\ c.visit \in 0 .. ui.visit /\ c.reply \in Replies
  /\ So(c.reply)
  /\ c.visit = ui.visit => ui.at = PageOf(c.kind)

PollsFit == IsFiniteSet(Registration!Polls) /\ Cardinality(Registration!Polls) <= MaxPolls

RegInv == RegServer /\ RegPage /\ (\A c \in calls : RegCall(c)) /\ PollsFit

\* The page changes within its visit.
LEMMA StaysOnPage ==
  ASSUME RegInv, DOMAIN ui' = RegUi, ui'.at = ui.at, ui'.visit = ui.visit, ui'.errors \in 0 .. 3, srv' = srv,
         ui'.shown = ui.shown \/ (ui'.shown \in {"created", "loginable"} /\ So(ui'.shown)),
         ui'.interval => ui'.at = "progress" /\ ~ui'.error
  PROVE  RegServer' /\ RegPage' /\ \A c \in calls : RegCall(c)'
  <1>1. RegServer' /\ \A x : So(x)' <=> So(x)
    BY DEF RegInv, RegServer, So
  <1> QED
    BY <1>1 DEF RegInv, RegPage, RegCall

\* What is so stays so while the server does nothing.
LEMMA SaysSo == ASSUME srv' = srv, NEW said, So(said) PROVE So(said)'
  BY DEF So

\* Another page is entered, with a result that is so or with none.
LEMMA EntersPage ==
  ASSUME RegInv, NEW page \in {"form", "progress", "result"}, NEW said \in {"nothing", "created", "loginable"}, So(said),
         ui' = Registration!Enter(page, said), srv' = srv
  PROVE  RegServer' /\ RegPage' /\ ui'.visit = ui.visit + 1 /\ ui'.at = page /\ \A c \in calls : RegCall(c)'
  <1>1. RegServer' /\ \A x : So(x)' <=> So(x)
    BY DEF RegInv, RegServer, So
  <1>2. /\ DOMAIN ui' = RegUi /\ ui'.at = page /\ ui'.visit = ui.visit + 1 /\ ui'.errors = 0 /\ ui'.shown = said
        /\ ~ui'.error /\ (ui'.interval => page = "progress")
    BY DEF RegInv, RegPage, RegUi, Registration!Enter
  <1>3. ui.visit \in Nat
    BY DEF RegInv, RegPage
  <1>6. So(ui'.shown) /\ srv'.tenant = srv.tenant /\ srv'.realm = srv.realm
    BY <1>2
  <1>7. So(ui.shown)'
    BY <1>6 DEF So
  <1>4. RegPage'
    BY <1>2, <1>3, <1>7 DEF RegPage
  <1>5. ASSUME NEW c \in calls PROVE RegCall(c)'
    <2>1. /\ DOMAIN c = {"kind", "visit", "at", "reply"} /\ c.kind \in Kinds /\ c.visit \in 0 .. ui.visit
          /\ c.reply \in Replies /\ So(c.reply)'
      BY <1>1 DEF RegInv, RegCall
    <2>2. c.visit \in 0 .. ui'.visit /\ c.visit # ui'.visit
      BY <1>2, <1>3, <2>1
    <2> QED
      BY <2>1, <2>2 DEF RegCall
  <1> QED
    BY <1>1, <1>2, <1>4, <1>5

\* No more polls are under way than before.
LEMMA FewerPolls ==
  ASSUME PollsFit, NEW polls \in SUBSET Registration!Polls
  PROVE  IsFiniteSet(polls) /\ Cardinality(polls) <= MaxPolls
  <1>1. IsFiniteSet(polls) /\ Cardinality(polls) <= Cardinality(Registration!Polls)
    BY FS_Subset DEF PollsFit
  <1>2. Cardinality(polls) \in Nat /\ Cardinality(Registration!Polls) \in Nat /\ MaxPolls \in Nat
    BY <1>1, FS_CardinalityType, ConsoleAssumption DEF PollsFit
  <1> QED
    BY <1>1, <1>2 DEF PollsFit

\* A call replaced by what it becomes: the polls are as many or fewer.
LEMMA PollMoves ==
  ASSUME PollsFit, NEW c \in calls, NEW d, d.kind = c.kind, calls' = (calls \ {c}) \cup {d}
  PROVE  PollsFit'
  <1>1. Registration!Polls' \subseteq (Registration!Polls \ {c}) \cup (IF c.kind = "poll" THEN {d} ELSE {})
    BY DEF Registration!Polls
  <1>2. CASE c.kind # "poll"
    <2>1. Registration!Polls' \subseteq Registration!Polls
      BY <1>1, <1>2
    <2> QED
      BY <2>1, FewerPolls DEF PollsFit
  <1>3. CASE c.kind = "poll"
    <2>1. c \in Registration!Polls /\ Registration!Polls' \subseteq (Registration!Polls \ {c}) \cup {d}
      BY <1>1, <1>3 DEF Registration!Polls
    <2>2. PICK S : S = Registration!Polls
      OBVIOUS
    <2>3. PICK T : T = Registration!Polls'
      OBVIOUS
    <2>4. IsFiniteSet(S) /\ c \in S
      BY <2>1, <2>2 DEF PollsFit
    <2>5. IsFiniteSet(S \ {c}) /\ Cardinality(S \ {c}) = Cardinality(S) - 1 /\ Cardinality(S) \in Nat
      BY <2>4, FS_RemoveElement, FS_CardinalityType
    <2>6. IsFiniteSet((S \ {c}) \cup {d}) /\ Cardinality((S \ {c}) \cup {d}) <= Cardinality(S)
      <3>1. PICK R : R = S \ {c}
        OBVIOUS
      <3>2. IsFiniteSet(R) /\ Cardinality(R) = Cardinality(S) - 1
        BY <2>5, <3>1
      <3>3. IsFiniteSet(R \cup {d}) /\ (Cardinality(R \cup {d}) = Cardinality(R) \/ Cardinality(R \cup {d}) = Cardinality(R) + 1)
        BY <3>2, FS_AddElement
      <3> QED
        BY <2>5, <3>1, <3>2, <3>3
    <2>7. T \subseteq (S \ {c}) \cup {d}
      BY <2>1, <2>2, <2>3
    <2>8. IsFiniteSet(T) /\ Cardinality(T) <= Cardinality((S \ {c}) \cup {d})
      BY <2>6, <2>7, FS_Subset
    <2>9. Cardinality(S) <= MaxPolls /\ MaxPolls \in Nat /\ Cardinality(T) \in Nat /\ Cardinality((S \ {c}) \cup {d}) \in Nat
      BY <2>2, <2>6, <2>8, FS_CardinalityType, ConsoleAssumption DEF PollsFit
    <2>10. IsFiniteSet(T) /\ Cardinality(T) <= MaxPolls
      BY <2>5, <2>6, <2>8, <2>9
    <2> QED
      BY <2>3, <2>10 DEF PollsFit
  <1> QED
    BY <1>2, <1>3

\* A new request of the page on the screen.
LEMMA NewAsk ==
  ASSUME RegInv, NEW kind \in Kinds, ui'.at = PageOf(kind), ui'.visit = ui.visit
  PROVE  \E x : x = Registration!Ask(kind) /\ x.kind = kind /\ RegCall(x)'
  <1>1. ui.visit \in Nat
    BY DEF RegInv, RegPage
  <1>2. PICK x : x = Registration!Ask(kind)
    OBVIOUS
  <1>3. DOMAIN x = {"kind", "visit", "at", "reply"} /\ x.kind = kind /\ x.visit = ui.visit /\ x.reply = "failed"
    BY <1>2 DEF Registration!Ask
  <1>4. RegCall(x)'
    BY <1>1, <1>3 DEF RegCall, Replies, So
  <1> QED
    BY <1>2, <1>3, <1>4

\* The user's requests.
LEMMA AsksKeep == ASSUME RegInv, Registration!Register \/ Registration!Bind PROVE RegInv'
  <1>1. PICK kind \in {"register", "bind"} :
          /\ ui.at = PageOf(kind) /\ calls' = calls \cup {Registration!Ask(kind)} /\ srv' = srv
          /\ ui' = [ui EXCEPT !.busy = TRUE, !.error = FALSE, !.asks = @ + 1]
    BY DEF Registration!Register, Registration!Bind, PageOf
  <1>2. /\ DOMAIN ui' = RegUi /\ ui'.at = ui.at /\ ui'.visit = ui.visit /\ ui'.errors = ui.errors /\ ui'.shown = ui.shown
        /\ ui'.interval = ui.interval /\ ui'.error = FALSE
    BY <1>1 DEF RegInv, RegPage, RegUi
  <1>3. ui.errors \in 0 .. 3 /\ (ui.interval => ui.at = "progress")
    BY DEF RegInv, RegPage
  <1>4. RegServer' /\ RegPage' /\ \A c \in calls : RegCall(c)'
    BY <1>1, <1>2, <1>3, StaysOnPage
  <1>5. PICK x : x = Registration!Ask(kind) /\ x.kind = kind /\ RegCall(x)'
    BY <1>1, <1>2, NewAsk DEF Kinds
  <1>6. Registration!Polls' = Registration!Polls
    BY <1>1, <1>5 DEF Registration!Polls
  <1>7. PollsFit'
    BY <1>6 DEF PollsFit, RegInv
  <1>8. \A c \in calls' : RegCall(c)'
    BY <1>1, <1>4, <1>5
  <1> QED
    BY <1>4, <1>7, <1>8 DEF RegInv

\* The user's other steps: nothing is sent.
LEMMA EditsKeep ==
  ASSUME RegInv, Registration!EditForm \/ Registration!RetryPolling \/ Registration!Visibility
  PROVE  RegInv'
  <1>1. /\ DOMAIN ui' = RegUi /\ ui'.at = ui.at /\ ui'.visit = ui.visit /\ ui'.errors \in 0 .. 3 /\ ui'.shown = ui.shown
        /\ srv' = srv /\ calls' = calls /\ (ui'.interval => ui'.at = "progress" /\ ~ui'.error)
    <2>1. CASE Registration!EditForm
      BY <2>1 DEF Registration!EditForm, RegInv, RegPage, RegUi
    <2>2. CASE Registration!RetryPolling
      BY <2>2 DEF Registration!RetryPolling, RegInv, RegPage, RegUi
    <2>3. CASE Registration!Visibility
      BY <2>3 DEF Registration!Visibility, RegInv, RegPage, RegUi
    <2> QED
      BY <2>1, <2>2, <2>3
  <1>2. RegServer' /\ RegPage' /\ \A c \in calls : RegCall(c)'
    BY <1>1, StaysOnPage
  <1>3. PollsFit'
    BY <1>1 DEF PollsFit, RegInv, Registration!Polls
  <1> QED
    BY <1>1, <1>2, <1>3 DEF RegInv

\* A tick asks once more, while fewer polls than MaxPolls are under way.
LEMMA TickKeeps == ASSUME RegInv, Registration!Tick PROVE RegInv'
  <1>1. calls' = calls \cup {Registration!Ask("poll")} /\ ui' = ui /\ srv' = srv /\ ui.at = PageOf("poll")
    BY DEF Registration!Tick, RegInv, RegPage, PageOf
  <1>2. RegServer' /\ RegPage' /\ \A c \in calls : RegCall(c)'
    <2>1. RegServer' /\ RegPage' /\ \A x : So(x)' <=> So(x)
      BY <1>1 DEF RegInv, RegServer, RegPage, So
    <2>3. \A c \in calls : RegCall(c)'
      BY <1>1, <2>1 DEF RegInv, RegCall
    <2> QED
      BY <2>1, <2>3
  <1>11. PICK x : x = Registration!Ask("poll") /\ x.kind = "poll" /\ RegCall(x)'
    BY <1>1, NewAsk DEF Kinds
  <1>3. Registration!Polls' = Registration!Polls \cup {x}
    BY <1>1, <1>11 DEF Registration!Polls
  <1>4. PICK S : S = Registration!Polls
    OBVIOUS
  <1>5. IsFiniteSet(S) /\ Cardinality(S) < MaxPolls
    BY <1>4 DEF Registration!Tick, RegInv, PollsFit, Cardinality, Registration!Cardinality
  <1>6. IsFiniteSet(S \cup {x}) /\ (Cardinality(S \cup {x}) = Cardinality(S) \/ Cardinality(S \cup {x}) = Cardinality(S) + 1)
    BY <1>5, FS_AddElement
  <1>7. Cardinality(S) \in Nat /\ MaxPolls \in Nat
    BY <1>5, FS_CardinalityType, ConsoleAssumption
  <1>8. Cardinality(S \cup {x}) <= MaxPolls
    BY <1>5, <1>6, <1>7
  <1>9. PollsFit'
    BY <1>3, <1>4, <1>6, <1>8 DEF PollsFit
  <1>10. \A c \in calls' : RegCall(c)'
    BY <1>1, <1>2, <1>11
  <1> QED
    BY <1>2, <1>9, <1>10 DEF RegInv

\* A page is entered by its address.
LEMMA VisitKeeps == ASSUME RegInv, NEW p \in {"form", "progress", "result"}, Registration!Visit(p) PROVE RegInv'
  <1>1. /\ ui' = Registration!Enter(p, "nothing") /\ srv' = srv
        /\ calls' = IF p = "result" THEN calls \cup {[Registration!Ask("restore") EXCEPT !.visit = @ + 1]} ELSE calls
    BY DEF Registration!Visit
  <1>2. So("nothing")
    BY DEF So
  <1>3. RegServer' /\ RegPage' /\ ui'.visit = ui.visit + 1 /\ ui'.at = p /\ \A c \in calls : RegCall(c)'
    BY <1>1, <1>2, EntersPage
  <1>4. PICK d : d = [Registration!Ask("restore") EXCEPT !.visit = @ + 1]
    OBVIOUS
  <1>5. ui.visit \in Nat
    BY DEF RegInv, RegPage
  <1>6. DOMAIN d = {"kind", "visit", "at", "reply"} /\ d.kind = "restore" /\ d.visit = ui.visit + 1 /\ d.reply = "failed"
    BY <1>4 DEF Registration!Ask
  <1>7. p = "result" => RegCall(d)'
    BY <1>3, <1>5, <1>6 DEF RegCall, Kinds, Replies, PageOf, So
  <1>8. \A c \in calls' : RegCall(c)'
    BY <1>1, <1>3, <1>4, <1>7
  <1>9. Registration!Polls' = Registration!Polls
    BY <1>1, <1>4, <1>6 DEF Registration!Polls
  <1>10. PollsFit'
    BY <1>9 DEF PollsFit, RegInv
  <1> QED
    BY <1>3, <1>8, <1>10 DEF RegInv

\* The answer of a request is handled, wherever the user is by then.
LEMMA AnswersKeep ==
  ASSUME RegInv, NEW c \in calls,
         \/ Registration!RegisterAnswered(c) \/ Registration!PollAnswered(c)
         \/ Registration!RestoreAnswered(c) \/ Registration!BindAnswered(c)
  PROVE  RegInv'
  <1>1. calls' = calls \ {c} /\ srv' = srv /\ RegCall(c)
    BY DEF Registration!RegisterAnswered, Registration!PollAnswered, Registration!RestoreAnswered,
           Registration!BindAnswered, RegInv
  <1>2. /\ DOMAIN ui = RegUi /\ ui.errors \in 0 .. 3 /\ (ui.interval => ui.at = "progress" /\ ~ui.error)
        /\ c.kind \in Kinds /\ c.reply \in Replies /\ So(c.reply) /\ (c.visit = ui.visit => ui.at = PageOf(c.kind))
    BY <1>1 DEF RegInv, RegPage, RegCall
  <1>6. RegServer' /\ RegPage' /\ \A d \in calls : RegCall(d)'
    <2>1. CASE c.reply # "failed" /\ ui' = Registration!Enter("result", c.reply)
      BY <1>1, <1>2, <2>1, EntersPage DEF Replies
    <2>2. CASE ui' = ui
      BY <1>1, <1>2, <2>2, StaysOnPage
    <2>3. CASE c.visit = ui.visit /\ ui' = [ui EXCEPT !.busy = FALSE, !.error = TRUE] /\ c.kind # "poll"
      <3>1. /\ DOMAIN ui' = RegUi /\ ui'.at = ui.at /\ ui'.visit = ui.visit /\ ui'.errors = ui.errors
            /\ ui'.shown = ui.shown /\ ui'.interval = ui.interval
        BY <1>2, <2>3 DEF RegUi
      <3>2. ui.at # "progress"
        BY <1>2, <2>3 DEF Kinds, PageOf
      <3> QED
        BY <1>1, <1>2, <3>1, <3>2, StaysOnPage
    <2>4. CASE c.visit = ui.visit /\ ui' = [ui EXCEPT !.error = TRUE] /\ c.kind # "poll"
      <3>1. /\ DOMAIN ui' = RegUi /\ ui'.at = ui.at /\ ui'.visit = ui.visit /\ ui'.errors = ui.errors
            /\ ui'.shown = ui.shown /\ ui'.interval = ui.interval
        BY <1>2, <2>4 DEF RegUi
      <3>2. ui.at # "progress"
        BY <1>2, <2>4 DEF Kinds, PageOf
      <3> QED
        BY <1>1, <1>2, <3>1, <3>2, StaysOnPage
    <2>5. CASE c.reply # "failed" /\ ui' = [ui EXCEPT !.shown = c.reply]
      <3>1. /\ DOMAIN ui' = RegUi /\ ui'.at = ui.at /\ ui'.visit = ui.visit /\ ui'.errors = ui.errors
            /\ ui'.shown = c.reply /\ ui'.interval = ui.interval /\ ui'.error = ui.error
        BY <1>2, <2>5 DEF RegUi
      <3>2. c.reply \in {"created", "loginable"}
        BY <1>2, <2>5 DEF Replies
      <3> QED
        BY <1>1, <1>2, <3>1, <3>2, SaysSo, StaysOnPage
    <2>6. CASE c.reply # "failed" /\ ui' = [ui EXCEPT !.busy = FALSE, !.shown = c.reply]
      <3>1. /\ DOMAIN ui' = RegUi /\ ui'.at = ui.at /\ ui'.visit = ui.visit /\ ui'.errors = ui.errors
            /\ ui'.shown = c.reply /\ ui'.interval = ui.interval /\ ui'.error = ui.error
        BY <1>2, <2>6 DEF RegUi
      <3>2. c.reply \in {"created", "loginable"}
        BY <1>2, <2>6 DEF Replies
      <3> QED
        BY <1>1, <1>2, <3>1, <3>2, SaysSo, StaysOnPage
    <2>7. CASE ui' = [ui EXCEPT !.errors = IF @ < 3 THEN @ + 1 ELSE @,
                                !.interval = Registration!IntervalAfter(ui.errors + 1),
                                !.error = @ \/ ui.errors + 1 >= 3]
      <3>1. /\ DOMAIN ui' = RegUi /\ ui'.at = ui.at /\ ui'.visit = ui.visit /\ ui'.shown = ui.shown
            /\ ui'.errors = (IF ui.errors < 3 THEN ui.errors + 1 ELSE ui.errors)
            /\ (ui'.interval => ui.interval /\ ui.errors + 1 < 3)
            /\ (ui'.error => ui.error \/ ui.errors + 1 >= 3)
        BY <1>2, <2>7 DEF RegUi, Registration!IntervalAfter
      <3>3. ui.errors \in 0 .. 3
        BY <1>2
      <3>4. ui'.errors \in 0 .. 3
        BY <3>1, <3>3
      <3>2. ui'.interval => ui'.at = "progress" /\ ~ui'.error
        BY <1>2, <3>1, <3>3
      <3> QED
        BY <1>1, <3>1, <3>2, <3>4, StaysOnPage
    <2>8. \/ c.reply # "failed" /\ ui' = Registration!Enter("result", c.reply)
          \/ ui' = ui
          \/ c.visit = ui.visit /\ ui' = [ui EXCEPT !.busy = FALSE, !.error = TRUE] /\ c.kind # "poll"
          \/ c.visit = ui.visit /\ ui' = [ui EXCEPT !.error = TRUE] /\ c.kind # "poll"
          \/ c.reply # "failed" /\ ui' = [ui EXCEPT !.shown = c.reply]
          \/ c.reply # "failed" /\ ui' = [ui EXCEPT !.busy = FALSE, !.shown = c.reply]
          \/ ui' = [ui EXCEPT !.errors = IF @ < 3 THEN @ + 1 ELSE @,
                              !.interval = Registration!IntervalAfter(ui.errors + 1),
                              !.error = @ \/ ui.errors + 1 >= 3]
      BY DEF Registration!RegisterAnswered, Registration!PollAnswered, Registration!RestoreAnswered,
             Registration!BindAnswered, Registration!Here, Registration!Restoring
    <2> QED
      BY <2>1, <2>2, <2>3, <2>4, <2>5, <2>6, <2>7, <2>8
  <1>7. Registration!Polls' \subseteq Registration!Polls
    BY <1>1 DEF Registration!Polls
  <1>8. PollsFit'
    BY <1>7, FewerPolls DEF PollsFit, RegInv
  <1>9. \A d \in calls' : RegCall(d)'
    BY <1>1, <1>6
  <1> QED
    BY <1>6, <1>8, <1>9 DEF RegInv

\* The server handles a request: a tenant and a realm are there for good.
LEMMA HandleKeeps == ASSUME RegInv, NEW c \in calls, NEW b \in BOOLEAN, Registration!HandleAsk(c, b) PROVE RegInv'
  <1>1. /\ DOMAIN srv = {"tenant", "realm"} /\ srv.tenant \in BOOLEAN /\ srv.realm \in BOOLEAN /\ (srv.realm => srv.tenant)
        /\ ui' = ui /\ RegPage /\ RegCall(c) /\ PollsFit
    BY DEF RegInv, RegServer, Registration!HandleAsk
  <1>2. /\ DOMAIN c = {"kind", "visit", "at", "reply"} /\ c.kind \in Kinds /\ c.visit \in 0 .. ui.visit
        /\ c.reply \in Replies /\ So(c.reply) /\ (c.visit = ui.visit => ui.at = PageOf(c.kind))
    BY <1>1 DEF RegCall
  <1>3. /\ DOMAIN srv' = {"tenant", "realm"} /\ srv'.tenant \in BOOLEAN /\ srv'.realm \in BOOLEAN
        /\ (srv'.realm => srv'.tenant) /\ (srv.tenant => srv'.tenant) /\ (srv.realm => srv'.realm)
        /\ (Registration!Does(c) => srv'.tenant)
    BY <1>1 DEF Registration!HandleAsk, Registration!Does
  <1>4. PICK r : calls' = (calls \ {c}) \cup {[c EXCEPT !.at = "handled", !.reply = r]}
                 /\ r \in Replies /\ So(r)'
    <2>1. CASE Registration!Does(c) /\ calls' = (calls \ {c}) \cup {[c EXCEPT !.at = "handled", !.reply =
                      IF ~b THEN "failed" ELSE IF srv'.realm THEN "loginable" ELSE "created"]}
      <3>1. PICK r : r = IF ~b THEN "failed" ELSE IF srv'.realm THEN "loginable" ELSE "created"
        OBVIOUS
      <3>2. r \in Replies /\ (r \in {"created", "loginable"} => srv'.tenant) /\ (r = "loginable" => srv'.realm)
        BY <1>3, <2>1, <3>1 DEF Replies
      <3> QED
        BY <2>1, <3>1, <3>2 DEF So
    <2>2. CASE calls' = (calls \ {c}) \cup {[c EXCEPT !.at = "handled"]}
      <3>1. [c EXCEPT !.at = "handled"] = [c EXCEPT !.at = "handled", !.reply = c.reply]
        BY <1>2
      <3>2. So(c.reply)'
        BY <1>2, <1>3 DEF So
      <3> QED
        BY <1>2, <2>2, <3>1, <3>2
    <2> QED
      BY <2>1, <2>2 DEF Registration!HandleAsk
  <1>5. PICK d : d = [c EXCEPT !.at = "handled", !.reply = r]
    OBVIOUS
  <1>6. DOMAIN d = {"kind", "visit", "at", "reply"} /\ d.kind = c.kind /\ d.visit = c.visit /\ d.reply = r
    BY <1>2, <1>5
  <1>7. RegCall(d)'
    BY <1>1, <1>2, <1>4, <1>6 DEF RegCall
  <1>8. ASSUME NEW x \in calls PROVE RegCall(x)'
    BY <1>1, <1>3 DEF RegInv, RegCall, So
  <1>9. \A x \in calls' : RegCall(x)'
    BY <1>4, <1>5, <1>7, <1>8
  <1>10. RegServer' /\ RegPage'
    BY <1>1, <1>3 DEF RegServer, RegPage, So
  <1>11. PollsFit'
    BY <1>1, <1>4, <1>5, <1>6, PollMoves
  <1> QED
    BY <1>9, <1>10, <1>11 DEF RegInv

\* Every step keeps RegInv.
LEMMA RegStep == ASSUME RegInv, Registration!OnboardingNext PROVE RegInv'
  BY AsksKeep, EditsKeep, TickKeeps, VisitKeeps, AnswersKeep, HandleKeeps DEF Registration!OnboardingNext

LEMMA RegFirst == ASSUME Registration!OnboardingInit PROVE RegInv
  <1>1. RegServer /\ RegPage /\ calls = {}
    BY DEF Registration!OnboardingInit, RegServer, RegPage, RegUi, So
  <1>2. Registration!Polls = {}
    BY <1>1 DEF Registration!Polls
  <1>3. PollsFit
    BY <1>2, FS_EmptySet, ConsoleAssumption DEF PollsFit
  <1> QED
    BY <1>1, <1>3 DEF RegInv

LEMMA RegFits == ASSUME RegInv PROVE Registration!OnboardingTypeOK /\ Registration!ResultIsReal
  <1>1. Registration!OnboardingTypeOK
    BY DEF RegInv, RegServer, RegPage, PollsFit, Registration!OnboardingTypeOK, Cardinality, Registration!Cardinality
  <1>2. Registration!ResultIsReal
    BY DEF RegInv, RegPage, So, Registration!ResultIsReal
  <1> QED
    BY <1>1, <1>2

-----------------------------------------------------------------------------
(* Rolling a column out to every company *)

Promotions == {"none", "pending", "ddl_failed", "ddl_applied"}
Outcomes == {"none", "pending", "failed", "succeeded"}
RollUi == {"active", "linked", "shown", "started", "last", "asks"}
RollStore == {"faults", "rollouts", "completed", "overlapped", "promotion", "outcome", "added"}
RollFields == {"id", "kind", "column", "awaited", "at", "todo", "turn", "got", "listed", "result"}

\* Company t has column r.
HasColumn(r, t) == srv.promotion[r][t] = "ddl_applied"
\* A result says of no company that it has the column unless it has it.
Real(x) ==
  x = Rolling!NoResult
    \/ /\ x.column \in Columns
       /\ \A t \in Companies : x.outcomes[t] = "succeeded" \/ t \in x.current => HasColumn(x.column, t)

InPhase(c) == c.at \in {"applying", "tries", "tried", "counted"}

\* What a request has read and done so far.
RollCall(c) ==
  /\ DOMAIN c = RollFields /\ c.kind \in {"start", "resume"} /\ c.column \in Columns /\ c.todo \subseteq Companies
  /\ c.at = "sent" => c.result = Rolling!NoResult
  /\ c.at \in {"registered", "tries", "tried"} => c.turn \in Companies
  /\ c.at = "counted" => c.todo = {}
  /\ c.at = "registered" => c.got \in {"pending", "failed"}
  /\ c.at = "tries" /\ c.got = "ddl_applied" => HasColumn(c.column, c.turn)
  /\ c.at = "tried" => c.got \in {"failed", "succeeded"} /\ (c.got = "succeeded" => HasColumn(c.column, c.turn))
  /\ c.at \notin {"answered", "over"} => \A t \in Companies \cap c.result.current : HasColumn(c.column, t)
  /\ c.at = "answered" => c.result.column = c.column /\ Real(c.result)

\* A stored outcome that says succeeded is so.
RollServer ==
  /\ DOMAIN srv = RollStore /\ srv.rollouts \subseteq Columns /\ srv.completed \subseteq Columns
  /\ srv.promotion \in [Columns -> [Companies -> Promotions]] /\ srv.outcome \in [Columns -> [Companies -> Outcomes]]
  /\ srv.added \in [Columns -> SUBSET Companies]
  /\ \A r \in Columns, t \in Companies : srv.outcome[r][t] = "succeeded" => HasColumn(r, t)

\* Unless two requests overlapped, one works on a rollout at a time.
OneWorks ==
  \A c, d \in calls : InPhase(c) /\ InPhase(d) /\ c.column = d.column /\ c.column \notin srv.overlapped => c = d

\* The companies that a request still takes, or has taken, were added to its rollout.
OnAdded(c) ==
  /\ InPhase(c) => c.todo \subseteq srv.added[c.column]
  /\ c.at \in {"tries", "tried"} => c.turn \in srv.added[c.column]

\* Unless two requests overlapped, a rollout that was found to be done has work only for the companies that were
\* added to it.
DoneStays ==
  \A r \in Columns \ srv.overlapped : Rolling!FoundDone(r) =>
    /\ Rolling!Outstanding(srv.outcome[r]) \subseteq srv.added[r]
    /\ \A c \in calls : c.column = r => OnAdded(c)

\* The query that is shown as long as no action brought a result.
QueryFits ==
  /\ Real(q.data) /\ Real(q.read)
  /\ q.has => q.data.column = ui.active
  /\ q.fetch = "read" => q.read.column = ui.active

RollPage ==
  /\ DOMAIN ui = RollUi /\ ui.active \in Columns \cup {"none"} /\ IsQuery(q)
  /\ Real(ui.shown)
  /\ ui.shown # Rolling!NoResult /\ ui.last # "resume" => ui.shown.column = ui.active
  /\ ui.last = "start" => ui.shown = ui.started
  /\ Rolling!AsksStatus => QueryFits

RollInv == RollServer /\ (\A c \in calls : RollCall(c)) /\ OneWorks /\ DoneStays /\ RollPage

\* What no step of the server takes back.
Later ==
  /\ RollServer'
  /\ \A r \in Columns, t \in Companies : srv.promotion[r][t] = "ddl_applied" => srv'.promotion[r][t] = "ddl_applied"

\* What is completed was found to be done; what becomes outstanding in it was added.
DoneKept ==
  /\ \A r \in srv'.completed : Rolling!FoundDone(r)
  /\ srv.overlapped \subseteq srv'.overlapped
  /\ \A r \in Columns \ srv.overlapped : Rolling!FoundDone(r) =>
       /\ srv.added[r] \subseteq srv'.added[r]
       /\ Rolling!Outstanding(srv'.outcome[r]) \subseteq Rolling!Outstanding(srv.outcome[r]) \cup srv'.added[r]

LEMMA RealStays == ASSUME Later, NEW x, Real(x) PROVE Real(x)'
  <1>1. CASE x = Rolling!NoResult
    BY <1>1 DEF Real, Rolling!NoResult
  <1>2. CASE x # Rolling!NoResult
    BY <1>2 DEF Real, Later, HasColumn
  <1> QED
    BY <1>1, <1>2

LEMMA CallStays == ASSUME Later, NEW c, RollCall(c) PROVE RollCall(c)'
  <1>1. Real(c.result) => Real(c.result)'
    BY RealStays
  <1>2. Rolling!NoResult' = Rolling!NoResult
    BY DEF Rolling!NoResult
  <1>3. /\ DOMAIN c = RollFields /\ c.kind \in {"start", "resume"} /\ c.column \in Columns /\ c.todo \subseteq Companies
        /\ \A t \in Companies : HasColumn(c.column, t) => HasColumn(c.column, t)'
    BY DEF Later, RollCall, HasColumn
  <1> QED
    BY <1>1, <1>2, <1>3 DEF RollCall, InPhase

LEMMA PageStays == ASSUME Later, RollPage, ui' = ui, q' = q PROVE RollPage'
  <1>1. Rolling!NoResult' = Rolling!NoResult
    BY DEF Rolling!NoResult
  <1>3. (Real(ui.shown) => Real(ui.shown)') /\ (Real(q.data) => Real(q.data)') /\ (Real(q.read) => Real(q.read)')
    BY RealStays
  <1> QED
    BY <1>1, <1>3 DEF RollPage, QueryFits, Rolling!AsksStatus

LEMMA DoneRemains ==
  ASSUME RollInv, DoneKept, NEW r \in Columns \ srv'.overlapped, Rolling!FoundDone(r)
  PROVE  /\ Rolling!Outstanding(srv'.outcome[r]) \subseteq srv'.added[r]
         /\ \A c : c.column = r /\ (c \in calls \/ OnAdded(c)) => OnAdded(c)'
  <1>1. r \in Columns \ srv.overlapped
    BY DEF DoneKept
  <1>2. /\ Rolling!Outstanding(srv.outcome[r]) \subseteq srv.added[r]
        /\ \A c \in calls : c.column = r => OnAdded(c)
    BY <1>1 DEF RollInv, DoneStays
  <1>3. /\ srv.added[r] \subseteq srv'.added[r]
        /\ Rolling!Outstanding(srv'.outcome[r]) \subseteq Rolling!Outstanding(srv.outcome[r]) \cup srv'.added[r]
    BY <1>1 DEF DoneKept
  <1>4. ASSUME NEW c, c.column = r, OnAdded(c) PROVE OnAdded(c)'
    BY <1>3, <1>4 DEF OnAdded, InPhase
  <1> QED
    BY <1>2, <1>3, <1>4

\* A rollout is found to be done by who counts, and by nobody else.
LEMMA FoundBefore ==
  ASSUME DoneKept, NEW d, calls' \subseteq calls \cup {d}, d.at = "counted" /\ d.got = "done" => Rolling!FoundDone(d.column),
         NEW r, Rolling!FoundDone(r)'
  PROVE  Rolling!FoundDone(r)
  <1>1. CASE r \in srv'.completed
    BY <1>1 DEF DoneKept
  <1>2. CASE \E x \in calls' : x.column = r /\ x.at = "counted" /\ x.got = "done"
    BY <1>2 DEF Rolling!FoundDone
  <1> QED
    BY <1>1, <1>2 DEF Rolling!FoundDone

\* A call is replaced by what it becomes.
LEMMA OneMoves ==
  ASSUME OneWorks, srv.overlapped \subseteq srv'.overlapped, NEW c \in calls, NEW d, calls' \subseteq (calls \ {c}) \cup {d},
         d.column = c.column, InPhase(d) => InPhase(c)
  PROVE  OneWorks'
  <1>1. SUFFICES ASSUME NEW x \in calls', NEW y \in calls', InPhase(x), InPhase(y), x.column = y.column,
                        x.column \notin srv'.overlapped
                 PROVE  x = y
    BY DEF OneWorks, InPhase
  <1>2. x.column \notin srv.overlapped
    BY <1>1
  <1>3. CASE x # d /\ y # d
    BY <1>1, <1>2, <1>3 DEF OneWorks
  <1>4. CASE x = d /\ y # d
    <2>1. y \in calls /\ y # c /\ InPhase(c) /\ c.column = y.column
      BY <1>1, <1>4
    <2> QED
      BY <1>1, <1>2, <2>1 DEF OneWorks
  <1>5. CASE x # d /\ y = d
    <2>1. x \in calls /\ x # c /\ InPhase(c) /\ c.column = x.column
      BY <1>1, <1>5
    <2> QED
      BY <1>1, <1>2, <2>1 DEF OneWorks
  <1> QED
    BY <1>3, <1>4, <1>5

LEMMA WorksMove ==
  ASSUME RollInv, DoneKept, NEW c \in calls, NEW d, calls' \subseteq (calls \ {c}) \cup {d}, d.column = c.column,
         InPhase(d) => InPhase(c), d.at = "counted" /\ d.got = "done" => Rolling!FoundDone(d.column),
         Rolling!FoundDone(d.column) /\ d.column \notin srv.overlapped => OnAdded(d)'
  PROVE  OneWorks' /\ DoneStays'
  <1>1. OneWorks'
    BY OneMoves DEF RollInv, DoneKept
  <1>2. DoneStays'
    <2>1. SUFFICES ASSUME NEW r \in Columns \ srv'.overlapped, Rolling!FoundDone(r)
                   PROVE  /\ Rolling!Outstanding(srv'.outcome[r]) \subseteq srv'.added[r]
                          /\ \A x \in calls' : x.column = r => OnAdded(x)'
      BY FoundBefore DEF DoneStays
    <2>2. r \notin srv.overlapped
      BY DEF DoneKept
    <2> QED
      BY <2>1, <2>2, DoneRemains
  <1> QED
    BY <1>1, <1>2

\* Calls that have no work yet, or have none any more, come and go.
LEMMA WorksStay ==
  ASSUME RollInv, DoneKept, NEW n, calls' \subseteq calls \cup {n}, ~InPhase(n)
  PROVE  OneWorks' /\ DoneStays'
  <1>1. OneWorks'
    BY DEF RollInv, OneWorks, InPhase, DoneKept
  <1>2. DoneStays'
    <2>1. SUFFICES ASSUME NEW r \in Columns \ srv'.overlapped, Rolling!FoundDone(r)
                   PROVE  /\ Rolling!Outstanding(srv'.outcome[r]) \subseteq srv'.added[r]
                          /\ \A x \in calls' : x.column = r => OnAdded(x)'
      BY FoundBefore DEF DoneStays, InPhase
    <2>2. OnAdded(n)'
      BY DEF OnAdded, InPhase
    <2> QED
      BY <2>1, <2>2, DoneRemains
  <1> QED
    BY <1>1, <1>2

-----------------------------------------------------------------------------
\* The server answers a request, in steps.
LEMMA ServerMoves ==
  ASSUME RollInv, NEW c \in calls, NEW d, calls' \subseteq (calls \ {c}) \cup {d}, ui' = ui, q' = q, Later,
         RollCall(d)', OneWorks' /\ DoneStays'
  PROVE  RollInv'
  <1>1. \A x \in calls' : RollCall(x)'
    BY CallStays DEF RollInv
  <1>2. RollPage'
    BY PageStays DEF RollInv
  <1> QED
    BY <1>1, <1>2 DEF RollInv, Later

\* Only who waits, and what is bounded, changes at the server.
SameRollouts ==
  /\ DOMAIN srv' = RollStore /\ srv'.rollouts \subseteq Columns
  /\ srv'.completed = srv.completed /\ srv'.overlapped = srv.overlapped /\ srv'.added = srv.added
  /\ srv'.promotion = srv.promotion /\ srv'.outcome = srv.outcome

LEMMA SameIsLater == ASSUME RollServer, SameRollouts PROVE Later /\ DoneKept
  BY DEF RollServer, SameRollouts, Later, DoneKept, HasColumn, Rolling!FoundDone

LEMMA FaultIsSame == ASSUME RollServer, Rolling!Fault \/ srv' = srv PROVE SameRollouts
  BY DEF RollServer, SameRollouts, RollStore, Rolling!Fault

LEMMA HandleStartKeeps ==
  ASSUME RollInv, NEW c \in calls, NEW active \in SUBSET Companies, Rolling!HandleStart(c, active)
  PROVE  RollInv'
  <1> DEFINE now == {t \in Companies : srv.outcome[c.column][t] = "succeeded"}
             bare == {t \in active : srv.outcome[c.column][t] = "none"}
  <1>0. RollCall(c) /\ RollServer
    BY DEF RollInv
  <1>1. PICK d : d = [c EXCEPT !.at = "seeding", !.todo = bare, !.result.current = now]
    OBVIOUS
  <1>2. /\ calls' \subseteq (calls \ {c}) \cup {d} /\ ui' = ui /\ q' = q /\ c.kind = "start" /\ c.at = "sent"
        /\ srv' = [srv EXCEPT !.rollouts = @ \cup {c.column}]
    BY <1>1 DEF Rolling!HandleStart, Rolling!Goes, Rolling!Kept
  <1>3. SameRollouts
    BY <1>0, <1>2 DEF RollServer, RollCall, SameRollouts, RollStore
  <1>4. DOMAIN c = RollFields /\ c.column \in Columns /\ c.result = Rolling!NoResult
    BY <1>0, <1>2 DEF RollCall
  <1>5. PICK x : x = [c.result EXCEPT !.current = now]
    OBVIOUS
  <1>6. d = [c EXCEPT !.at = "seeding", !.todo = bare, !.result = x]
    BY <1>1, <1>5
  <1>7. x.current = now
    BY <1>4, <1>5 DEF Rolling!NoResult
  <1>8. DOMAIN d = RollFields /\ d.kind = "start" /\ d.column = c.column /\ d.at = "seeding" /\ d.todo = bare
        /\ d.result.current = now
    BY <1>2, <1>4, <1>6, <1>7 DEF RollFields
  <1>9. Later /\ DoneKept
    BY <1>0, <1>3, SameIsLater
  <1>10. \A t \in now : HasColumn(c.column, t)
    BY <1>0, <1>4 DEF RollServer
  <1>11. RollCall(d)'
    BY <1>3, <1>4, <1>8, <1>10 DEF RollCall, SameRollouts, HasColumn
  <1>12. OneWorks' /\ DoneStays'
    BY <1>2, <1>8, <1>9, WorksMove DEF InPhase, OnAdded
  <1> QED
    BY <1>2, <1>9, <1>11, <1>12, ServerMoves

LEMMA PromotionSet ==
  ASSUME RollServer, NEW r \in Columns, NEW t \in Companies, NEW s \in Promotions,
         srv' = [srv EXCEPT !.promotion[r][t] = s], srv.promotion[r][t] = "ddl_applied" => s = "ddl_applied"
  PROVE  Later /\ DoneKept /\ srv'.added = srv.added /\ srv'.promotion[r][t] = s
  <1>1. PICK p : p = [srv.promotion EXCEPT ![r][t] = s]
    OBVIOUS
  <1>2. /\ DOMAIN srv = RollStore /\ srv.rollouts \subseteq Columns /\ srv.completed \subseteq Columns
        /\ srv.promotion \in [Columns -> [Companies -> Promotions]] /\ srv.outcome \in [Columns -> [Companies -> Outcomes]]
        /\ srv.added \in [Columns -> SUBSET Companies]
        /\ \A x \in Columns, y \in Companies : srv.outcome[x][y] = "succeeded" => HasColumn(x, y)
    BY DEF RollServer
  <1>3. p \in [Columns -> [Companies -> Promotions]] /\ p[r][t] = s
    BY <1>1, <1>2
  <1>4. \A x \in Columns, y \in Companies : srv.promotion[x][y] = "ddl_applied" => p[x][y] = "ddl_applied"
    BY <1>1, <1>2
  <1>5. srv' = [srv EXCEPT !.promotion = p]
    BY <1>1
  <1>6. /\ DOMAIN srv' = DOMAIN srv /\ srv'.promotion = p /\ srv'.outcome = srv.outcome /\ srv'.added = srv.added
        /\ srv'.completed = srv.completed /\ srv'.overlapped = srv.overlapped /\ srv'.rollouts = srv.rollouts
    BY <1>2, <1>5 DEF RollStore
  <1>7. RollServer'
    BY <1>2, <1>3, <1>4, <1>6 DEF RollServer, HasColumn
  <1> QED
    BY <1>3, <1>4, <1>6, <1>7 DEF Later, DoneKept, Rolling!FoundDone

\* An outcome is stored; in a rollout that is completed, that of a company that was added.
LEMMA OutcomeSet ==
  ASSUME RollServer, NEW r \in Columns, NEW t \in Companies, NEW s \in Outcomes, NEW more \in [Columns -> SUBSET Companies],
         srv' = [srv EXCEPT !.outcome[r][t] = s, !.added = more], s = "succeeded" => HasColumn(r, t),
         \A x \in Columns : srv.added[x] \subseteq more[x],
         Rolling!FoundDone(r) /\ r \notin srv.overlapped => t \in more[r]
  PROVE  Later /\ DoneKept /\ srv'.promotion = srv.promotion
  <1>1. PICK p : p = [srv.outcome EXCEPT ![r][t] = s]
    OBVIOUS
  <1>2. /\ DOMAIN srv = RollStore /\ srv.rollouts \subseteq Columns /\ srv.completed \subseteq Columns
        /\ srv.promotion \in [Columns -> [Companies -> Promotions]] /\ srv.outcome \in [Columns -> [Companies -> Outcomes]]
        /\ \A x \in Columns, y \in Companies : srv.outcome[x][y] = "succeeded" => HasColumn(x, y)
    BY DEF RollServer
  <1>3. p \in [Columns -> [Companies -> Outcomes]] /\ p[r][t] = s
    BY <1>1, <1>2
  <1>4. \A x \in Columns, y \in Companies : p[x][y] = srv.outcome[x][y] \/ (x = r /\ y = t)
    BY <1>1, <1>2
  <1>5. srv' = [srv EXCEPT !.outcome = p, !.added = more]
    BY <1>1
  <1>6. /\ DOMAIN srv' = DOMAIN srv /\ srv'.outcome = p /\ srv'.promotion = srv.promotion /\ srv'.added = more
        /\ srv'.completed = srv.completed /\ srv'.overlapped = srv.overlapped /\ srv'.rollouts = srv.rollouts
    BY <1>2, <1>5 DEF RollStore
  <1>7. RollServer'
    BY <1>2, <1>3, <1>4, <1>6 DEF RollServer, HasColumn
  <1>8. Later
    BY <1>6, <1>7 DEF Later
  <1>9. DoneKept
    <2>1. SUFFICES ASSUME NEW x \in Columns \ srv.overlapped, Rolling!FoundDone(x)
                   PROVE  Rolling!Outstanding(p[x]) \subseteq Rolling!Outstanding(srv.outcome[x]) \cup more[x]
      BY <1>6 DEF DoneKept, Rolling!FoundDone
    <2>2. \A y \in Companies : p[x][y] = srv.outcome[x][y] \/ y \in more[x]
      BY <1>4, <2>1
    <2> QED
      BY <2>2 DEF Rolling!Outstanding
  <1> QED
    BY <1>6, <1>8, <1>9

LEMMA RegisterKeeps ==
  ASSUME RollInv, NEW c \in calls, NEW t \in Companies, Rolling!RegisterPromotion(c, t)
  PROVE  RollInv'
  <1>0. RollCall(c) /\ RollServer
    BY DEF RollInv
  <1>1. PICK g : g \in {"pending", "failed"} /\ g = IF srv.promotion[c.column][t] = "none" THEN "pending" ELSE "failed"
    OBVIOUS
  <1>2. PICK d : d = [c EXCEPT !.at = "registered", !.turn = t, !.todo = @ \ {t}, !.got = g]
    OBVIOUS
  <1>3. /\ calls' \subseteq (calls \ {c}) \cup {d} /\ ui' = ui /\ q' = q /\ t \in c.todo /\ c.at = "seeding"
        /\ srv' = [srv EXCEPT !.promotion[c.column][t] = IF @ = "none" THEN "pending" ELSE @]
    BY <1>1, <1>2 DEF Rolling!RegisterPromotion, Rolling!Goes, Rolling!Kept
  <1>4. /\ DOMAIN c = RollFields /\ c.kind \in {"start", "resume"} /\ c.column \in Columns /\ c.todo \subseteq Companies
        /\ \A y \in Companies \cap c.result.current : HasColumn(c.column, y)
    BY <1>0, <1>3 DEF RollCall
  <1>5. PICK s : s = IF srv.promotion[c.column][t] = "none" THEN "pending" ELSE srv.promotion[c.column][t]
    OBVIOUS
  <1>6. s \in Promotions /\ (srv.promotion[c.column][t] = "ddl_applied" => s = "ddl_applied")
    BY <1>0, <1>4, <1>5 DEF RollServer, Promotions
  <1>7. srv' = [srv EXCEPT !.promotion[c.column][t] = s]
    BY <1>3, <1>5
  <1>8. Later /\ DoneKept
    BY <1>0, <1>4, <1>6, <1>7, PromotionSet
  <1>9. /\ DOMAIN d = RollFields /\ d.kind = c.kind /\ d.column = c.column /\ d.at = "registered" /\ d.todo = c.todo \ {t}
        /\ d.turn = t /\ d.got = g /\ d.result = c.result
    BY <1>2, <1>4 DEF RollFields
  <1>10. \A y \in Companies : HasColumn(c.column, y) => HasColumn(c.column, y)'
    BY <1>4, <1>8 DEF Later, HasColumn
  <1>11. RollCall(d)'
    BY <1>1, <1>4, <1>9, <1>10 DEF RollCall
  <1>12. OneWorks' /\ DoneStays'
    BY <1>3, <1>8, <1>9, WorksMove DEF InPhase, OnAdded
  <1> QED
    BY <1>3, <1>8, <1>11, <1>12, ServerMoves

LEMMA SeedKeeps == ASSUME RollInv, NEW c \in calls, Rolling!SeedOutcome(c) PROVE RollInv'
  <1>0. RollCall(c) /\ RollServer
    BY DEF RollInv
  <1>1. c.at = "registered" /\ ui' = ui /\ q' = q
    BY DEF Rolling!SeedOutcome, Rolling!Goes, Rolling!Kept
  <1>2. /\ DOMAIN c = RollFields /\ c.kind \in {"start", "resume"} /\ c.column \in Columns /\ c.todo \subseteq Companies
        /\ c.turn \in Companies /\ c.got \in {"pending", "failed"}
        /\ \A y \in Companies \cap c.result.current : HasColumn(c.column, y)
    BY <1>0, <1>1 DEF RollCall
  <1>3. CASE srv.outcome[c.column][c.turn] = "none"
    <2>1. PICK d : d = [c EXCEPT !.at = "seeding", !.turn = "none", !.got = "none"]
      OBVIOUS
    <2>2. PICK add : add = IF Rolling!FoundDone(c.column) THEN srv.added[c.column] \cup {c.turn} ELSE srv.added[c.column]
      OBVIOUS
    <2>3. PICK more : more = [srv.added EXCEPT ![c.column] = add]
      OBVIOUS
    <2>4. calls' \subseteq (calls \ {c}) \cup {d} /\ srv' = [srv EXCEPT !.outcome[c.column][c.turn] = c.got, !.added = more]
      BY <1>3, <2>1, <2>2, <2>3 DEF Rolling!SeedOutcome, Rolling!Goes, Rolling!Kept
    <2>5. /\ more \in [Columns -> SUBSET Companies] /\ \A x \in Columns : srv.added[x] \subseteq more[x]
          /\ Rolling!FoundDone(c.column) => c.turn \in more[c.column]
      <3>1. srv.added \in [Columns -> SUBSET Companies]
        BY <1>0 DEF RollServer
      <3>2. add \in SUBSET Companies /\ srv.added[c.column] \subseteq add /\ (Rolling!FoundDone(c.column) => c.turn \in add)
        BY <1>2, <2>2, <3>1
      <3>3. more \in [Columns -> SUBSET Companies] /\ more[c.column] = add /\ \A x \in Columns : x # c.column => more[x] = srv.added[x]
        BY ONLY <1>2, <2>3, <3>1, <3>2
      <3> QED
        BY <3>2, <3>3
    <2>6. c.got \in Outcomes /\ (c.got = "succeeded" => HasColumn(c.column, c.turn))
      BY <1>2 DEF Outcomes
    <2>7. Later /\ DoneKept /\ srv'.promotion = srv.promotion
      <3>1. RollServer /\ c.column \in Columns /\ c.turn \in Companies
        BY <1>0, <1>2
      <3> QED
        BY ONLY <2>4, <2>5, <2>6, <3>1, OutcomeSet
    <2>8. /\ DOMAIN d = RollFields /\ d.kind = c.kind /\ d.column = c.column /\ d.at = "seeding" /\ d.todo = c.todo
          /\ d.result = c.result
      BY <1>2, <2>1 DEF RollFields
    <2>9. RollCall(d)'
      BY <1>2, <2>7, <2>8 DEF RollCall, HasColumn
    <2>10. OneWorks' /\ DoneStays'
      BY <2>4, <2>7, <2>8, WorksMove DEF InPhase, OnAdded
    <2> QED
      BY <1>1, <2>4, <2>7, <2>9, <2>10, ServerMoves
  <1>4. CASE srv.outcome[c.column][c.turn] # "none"
    <2>1. PICK d : d = [c EXCEPT !.at = "over", !.turn = "none", !.got = "none"]
      OBVIOUS
    <2>2. calls' \subseteq (calls \ {c}) \cup {d} /\ srv' = srv
      BY <1>4, <2>1 DEF Rolling!SeedOutcome, Rolling!Goes, Rolling!Kept
    <2>3. Later /\ DoneKept
      BY <1>0, <2>2, FaultIsSame, SameIsLater
    <2>4. /\ DOMAIN d = RollFields /\ d.kind = c.kind /\ d.column = c.column /\ d.at = "over" /\ d.todo = c.todo
      BY <1>2, <2>1 DEF RollFields
    <2>5. RollCall(d)'
      BY <1>2, <2>4 DEF RollCall
    <2>6. OneWorks' /\ DoneStays'
      BY <2>2, <2>3, <2>4, WorksMove DEF InPhase, OnAdded
    <2> QED
      BY <1>1, <2>2, <2>3, <2>5, <2>6, ServerMoves
  <1> QED
    BY <1>3, <1>4

\* From here on a request is in its phase: another one on the same rollout overlaps.
LEMMA ListKeeps == ASSUME RollInv, NEW c \in calls, Rolling!ListOutstanding(c) PROVE RollInv'
  <1> DEFINE overlaps == \E d \in calls \ {c} : d.column = c.column /\ InPhase(d)
  <1>0. RollCall(c) /\ RollServer /\ OneWorks
    BY DEF RollInv
  <1>1. PICK todo : todo = Rolling!Outstanding(srv.outcome[c.column])
    OBVIOUS
  <1>2. PICK d : d = [c EXCEPT !.at = "applying", !.listed = srv.outcome[c.column], !.todo = todo]
    OBVIOUS
  <1>3. /\ calls' \subseteq (calls \ {c}) \cup {d} /\ ui' = ui /\ q' = q
        /\ srv' = IF overlaps THEN [srv EXCEPT !.overlapped = @ \cup {c.column}] ELSE srv
        /\ c.at = IF c.kind = "start" THEN "seeding" ELSE "sent"
        /\ c.kind = "start" => c.todo = {}
    BY <1>1, <1>2 DEF Rolling!ListOutstanding, Rolling!Goes, Rolling!Kept, InPhase
  <1>4. /\ DOMAIN c = RollFields /\ c.kind \in {"start", "resume"} /\ c.column \in Columns /\ c.todo \subseteq Companies
        /\ \A y \in Companies \cap c.result.current : HasColumn(c.column, y)
    BY <1>0, <1>3 DEF RollCall
  <1>6. /\ DOMAIN d = RollFields /\ d.kind = c.kind /\ d.column = c.column /\ d.at = "applying" /\ d.todo = todo
        /\ d.result = c.result
    BY <1>2, <1>4 DEF RollFields
  <1>7. /\ DOMAIN srv' = RollStore /\ srv'.rollouts = srv.rollouts /\ srv'.added = srv.added
        /\ srv'.completed = srv.completed /\ srv'.promotion = srv.promotion /\ srv'.outcome = srv.outcome
        /\ srv'.overlapped = IF overlaps THEN srv.overlapped \cup {c.column} ELSE srv.overlapped
    BY <1>0, <1>3 DEF RollServer, RollStore
  <1> HIDE DEF overlaps
  <1>8. Later /\ DoneKept
    BY <1>0, <1>7 DEF RollServer, Later, DoneKept, HasColumn, Rolling!FoundDone
  <1>9. RollCall(d)'
    BY <1>1, <1>4, <1>6, <1>7 DEF RollCall, HasColumn, Rolling!Outstanding
  <1>10. OneWorks'
    <2>1. SUFFICES ASSUME NEW x \in calls', NEW y \in calls', InPhase(x), InPhase(y), x.column = y.column,
                          x.column \notin srv'.overlapped
                   PROVE  x = y
      BY DEF OneWorks, InPhase
    <2>2. x.column \notin srv.overlapped
      BY <1>8, <2>1 DEF DoneKept
    <2>3. CASE x.column = c.column
      <3>1. ~overlaps
        BY <1>7, <2>1, <2>3
      <3> QED
        BY <1>3, <2>1, <2>3, <3>1 DEF overlaps
    <2>4. CASE x.column # c.column
      BY <1>0, <1>3, <1>6, <2>1, <2>2, <2>4 DEF OneWorks
    <2> QED
      BY <2>3, <2>4
  <1>11. DoneStays'
    <2>1. SUFFICES ASSUME NEW r \in Columns \ srv'.overlapped, Rolling!FoundDone(r), NEW x \in calls', x.column = r
                   PROVE  OnAdded(x)'
      BY <1>3, <1>6, <1>8, FoundBefore, DoneRemains DEF DoneStays
    <2>2. CASE x = d
      <3>1. Rolling!Outstanding(srv'.outcome[r]) \subseteq srv'.added[r]
        BY <1>8, <2>1, DoneRemains
      <3>2. d.todo \subseteq srv'.added[d.column] /\ d.at = "applying"
        BY <1>1, <1>6, <1>7, <2>1, <2>2, <3>1
      <3> QED
        BY <2>2, <3>2 DEF OnAdded
    <2>3. CASE x \in calls
      BY <1>8, <2>1, <2>3, DoneRemains
    <2> QED
      BY <1>3, <2>2, <2>3
  <1> QED
    BY <1>3, <1>8, <1>9, <1>10, <1>11, ServerMoves

\* A request that works on a rollout that was found to be done works on what was added.
LEMMA AtWork ==
  ASSUME RollInv, NEW c \in calls, Rolling!FoundDone(c.column), c.column \notin srv.overlapped
  PROVE  OnAdded(c)
  BY DEF RollInv, DoneStays, RollCall

LEMMA ReadKeepsRollout ==
  ASSUME RollInv, NEW c \in calls, NEW t \in Companies, Rolling!ReadPromotion(c, t)
  PROVE  RollInv'
  <1>0. RollCall(c) /\ RollServer
    BY DEF RollInv
  <1>1. PICK d : d = [c EXCEPT !.at = "tries", !.turn = t, !.todo = @ \ {t}, !.got = srv.promotion[c.column][t]]
    OBVIOUS
  <1>2. calls' \subseteq (calls \ {c}) \cup {d} /\ ui' = ui /\ q' = q /\ srv' = srv /\ t \in c.todo /\ c.at = "applying"
    BY <1>1 DEF Rolling!ReadPromotion, Rolling!Goes, Rolling!Kept
  <1>3. /\ DOMAIN c = RollFields /\ c.kind \in {"start", "resume"} /\ c.column \in Columns /\ c.todo \subseteq Companies
        /\ \A y \in Companies \cap c.result.current : HasColumn(c.column, y)
    BY <1>0, <1>2 DEF RollCall
  <1>4. /\ DOMAIN d = RollFields /\ d.kind = c.kind /\ d.column = c.column /\ d.at = "tries" /\ d.todo = c.todo \ {t}
        /\ d.turn = t /\ d.got = srv.promotion[c.column][t] /\ d.result = c.result
    BY <1>1, <1>3 DEF RollFields
  <1>5. Later /\ DoneKept
    BY <1>0, <1>2, FaultIsSame, SameIsLater
  <1>6. RollCall(d)
    BY <1>2, <1>3, <1>4 DEF RollCall, HasColumn
  <1>7. RollCall(d)'
    BY <1>5, <1>6, CallStays
  <1>8. Rolling!FoundDone(c.column) /\ c.column \notin srv.overlapped => OnAdded(d)'
    BY <1>2, <1>4, AtWork DEF OnAdded, InPhase
  <1>9. OneWorks' /\ DoneStays'
    BY <1>2, <1>4, <1>5, <1>8, WorksMove DEF InPhase
  <1> QED
    BY <1>2, <1>5, <1>7, <1>9, ServerMoves

LEMMA PromoteKeeps ==
  ASSUME RollInv, NEW c \in calls, NEW does \in {"pending", "ddl_failed", "ddl_applied"}, Rolling!Promote(c, does)
  PROVE  RollInv'
  <1> DEFINE now == srv.promotion[c.column][c.turn]
             runs == c.got # "ddl_applied" /\ (c.got = "pending" \/ now = "ddl_failed")
             ok == c.got = "ddl_applied" \/ (runs /\ does = "ddl_applied")
  <1>0. RollCall(c) /\ RollServer
    BY DEF RollInv
  <1>1. PICK g : g \in {"succeeded", "failed"} /\ g = IF ok THEN "succeeded" ELSE "failed"
    OBVIOUS
  <1>2. PICK d : d = [c EXCEPT !.at = "tried", !.got = g]
    OBVIOUS
  <1>3. /\ calls' \subseteq (calls \ {c}) \cup {d} /\ ui' = ui /\ q' = q /\ c.at = "tries"
        /\ srv' = [srv EXCEPT !.promotion[c.column][c.turn] = does]
        /\ now = "ddl_applied" => does = "ddl_applied"
    BY <1>1, <1>2 DEF Rolling!Promote, Rolling!Goes, Rolling!Kept, Rolling!NeedsOutcomeOnly
  <1>4. /\ DOMAIN c = RollFields /\ c.kind \in {"start", "resume"} /\ c.column \in Columns /\ c.todo \subseteq Companies
        /\ c.turn \in Companies /\ (c.got = "ddl_applied" => HasColumn(c.column, c.turn))
        /\ \A y \in Companies \cap c.result.current : HasColumn(c.column, y)
    BY <1>0, <1>3 DEF RollCall
  <1>5. Later /\ DoneKept /\ srv'.added = srv.added /\ srv'.promotion[c.column][c.turn] = does
    BY <1>0, <1>3, <1>4, PromotionSet DEF Promotions
  <1>6. /\ DOMAIN d = RollFields /\ d.kind = c.kind /\ d.column = c.column /\ d.at = "tried" /\ d.todo = c.todo
        /\ d.turn = c.turn /\ d.got = g /\ d.result = c.result
    BY <1>2, <1>4 DEF RollFields
  <1>7. g = "succeeded" => HasColumn(c.column, c.turn)'
    BY <1>1, <1>3, <1>4, <1>5 DEF HasColumn
  <1>8. \A y \in Companies : HasColumn(c.column, y) => HasColumn(c.column, y)'
    BY <1>4, <1>5 DEF Later, HasColumn
  <1>9. RollCall(d)'
    BY <1>1, <1>4, <1>6, <1>7, <1>8 DEF RollCall
  <1>10. Rolling!FoundDone(c.column) /\ c.column \notin srv.overlapped => OnAdded(d)'
    BY <1>3, <1>5, <1>6, AtWork DEF OnAdded, InPhase
  <1>11. OneWorks' /\ DoneStays'
    BY <1>3, <1>5, <1>6, <1>10, WorksMove DEF InPhase
  <1> QED
    BY <1>3, <1>5, <1>9, <1>11, ServerMoves

LEMMA RecordKeeps == ASSUME RollInv, NEW c \in calls, Rolling!RecordOutcome(c) PROVE RollInv'
  <1>0. RollCall(c) /\ RollServer
    BY DEF RollInv
  <1>1. PICK d : d = [c EXCEPT !.at = "applying", !.turn = "none", !.got = "none"]
    OBVIOUS
  <1>2. /\ calls' \subseteq (calls \ {c}) \cup {d} /\ ui' = ui /\ q' = q /\ c.at = "tried"
        /\ srv' = srv \/ srv' = [srv EXCEPT !.outcome[c.column][c.turn] = c.got]
    BY <1>1 DEF Rolling!RecordOutcome, Rolling!Goes, Rolling!Kept
  <1>3. /\ DOMAIN c = RollFields /\ c.kind \in {"start", "resume"} /\ c.column \in Columns /\ c.todo \subseteq Companies
        /\ c.turn \in Companies /\ c.got \in {"failed", "succeeded"} /\ (c.got = "succeeded" => HasColumn(c.column, c.turn))
        /\ \A y \in Companies \cap c.result.current : HasColumn(c.column, y)
    BY <1>0, <1>2 DEF RollCall
  <1>4. /\ DOMAIN d = RollFields /\ d.kind = c.kind /\ d.column = c.column /\ d.at = "applying" /\ d.todo = c.todo
        /\ d.result = c.result
    BY <1>1, <1>3 DEF RollFields
  <1>5. Rolling!FoundDone(c.column) /\ c.column \notin srv.overlapped => OnAdded(c) /\ OnAdded(d)
    BY <1>2, <1>4, AtWork DEF OnAdded, InPhase
  <1>6. Later /\ DoneKept
    <2>1. CASE srv' = srv
      BY <1>0, <2>1, FaultIsSame, SameIsLater
    <2>2. CASE srv' = [srv EXCEPT !.outcome[c.column][c.turn] = c.got]
      <3>1. c.got \in Outcomes
        BY <1>3 DEF Outcomes
      <3>2. PICK more : more = srv.added
        OBVIOUS
      <3>3. srv' = [srv EXCEPT !.outcome[c.column][c.turn] = c.got, !.added = more]
        BY <1>0, <2>2, <3>2 DEF RollServer, RollStore
      <3>4. more \in [Columns -> SUBSET Companies] /\ (Rolling!FoundDone(c.column) /\ c.column \notin srv.overlapped => c.turn \in more[c.column])
        BY <1>0, <1>2, <1>5, <3>2 DEF RollServer, OnAdded
      <3> QED
        BY <1>0, <1>3, <3>1, <3>2, <3>3, <3>4, OutcomeSet
    <2> QED
      BY <1>2, <2>1, <2>2
  <1>7. RollCall(d)
    BY <1>3, <1>4 DEF RollCall
  <1>8. RollCall(d)'
    BY <1>6, <1>7, CallStays
  <1>9. Rolling!FoundDone(c.column) /\ c.column \notin srv.overlapped => OnAdded(d)'
    BY <1>3, <1>4, <1>5, <1>6 DEF OnAdded, InPhase, DoneKept
  <1>10. OneWorks' /\ DoneStays'
    BY <1>2, <1>4, <1>6, <1>9, WorksMove DEF InPhase
  <1> QED
    BY <1>2, <1>6, <1>8, <1>10, ServerMoves

\* Nobody else is at work on a rollout that is found to be done.
LEMMA CountKeeps == ASSUME RollInv, NEW c \in calls, Rolling!CountOutstanding(c) PROVE RollInv'
  <1>0. RollCall(c) /\ RollServer /\ OneWorks
    BY DEF RollInv
  <1>1. PICK g : g = IF Rolling!IsDone(c.column) THEN "done" ELSE "open"
    OBVIOUS
  <1>2. PICK d : d = [c EXCEPT !.at = "counted", !.listed = Rolling!NoResult.outcomes, !.got = g]
    OBVIOUS
  <1>3. calls' \subseteq (calls \ {c}) \cup {d} /\ ui' = ui /\ q' = q /\ srv' = srv /\ c.todo = {} /\ c.at = "applying"
    BY <1>1, <1>2 DEF Rolling!CountOutstanding, Rolling!Goes, Rolling!Kept
  <1>4. /\ DOMAIN c = RollFields /\ c.kind \in {"start", "resume"} /\ c.column \in Columns
        /\ \A y \in Companies \cap c.result.current : HasColumn(c.column, y)
    BY <1>0, <1>3 DEF RollCall
  <1>5. /\ DOMAIN d = RollFields /\ d.kind = c.kind /\ d.column = c.column /\ d.at = "counted" /\ d.todo = {}
        /\ d.got = g /\ d.result = c.result
    BY <1>2, <1>3, <1>4 DEF RollFields
  <1>6. Later /\ DoneKept
    BY <1>0, <1>3, FaultIsSame, SameIsLater
  <1>7. RollCall(d)
    BY <1>4, <1>5 DEF RollCall
  <1>8. RollCall(d)'
    BY <1>6, <1>7, CallStays
  <1>9. OneWorks'
    BY <1>0, <1>3, <1>5, OneMoves DEF InPhase
  <1>10. DoneStays'
    <2>1. SUFFICES ASSUME NEW r \in Columns \ srv.overlapped, Rolling!FoundDone(r)'
                   PROVE  /\ Rolling!Outstanding(srv.outcome[r]) \subseteq srv.added[r]
                          /\ \A x \in calls' : x.column = r => OnAdded(x)
      BY <1>3 DEF DoneStays, OnAdded, InPhase
    <2>2. OnAdded(d)
      BY <1>5 DEF OnAdded
    <2>3. CASE Rolling!FoundDone(r)
      <3>1. /\ Rolling!Outstanding(srv.outcome[r]) \subseteq srv.added[r]
            /\ \A x \in calls : x.column = r => OnAdded(x)
        BY <2>3 DEF RollInv, DoneStays
      <3> QED
        BY <1>3, <2>2, <3>1
    <2>4. CASE ~Rolling!FoundDone(r)
      <3>1. r = c.column /\ g = "done"
        BY <1>3, <1>5, <2>1, <2>4 DEF Rolling!FoundDone
      <3>2. Rolling!Outstanding(srv.outcome[r]) = {}
        BY <1>1, <3>1 DEF Rolling!IsDone
      <3>3. \A x \in calls : x.column = r /\ x # c => OnAdded(x)
        BY <1>0, <1>3, <3>1 DEF OneWorks, OnAdded, InPhase
      <3> QED
        BY <1>3, <2>2, <3>2, <3>3
    <2> QED
      BY <2>3, <2>4
  <1> QED
    BY <1>3, <1>6, <1>8, <1>9, <1>10, ServerMoves

\* The answer says what is stored.
LEMMA FinishKeeps == ASSUME RollInv, NEW c \in calls, Rolling!FinishRequest(c) PROVE RollInv'
  <1>0. RollCall(c) /\ RollServer
    BY DEF RollInv
  <1>1. PICK x : x = Rolling!ResultOf(c.column, c.result.current)
    OBVIOUS
  <1>2. PICK d : d = [c EXCEPT !.at = "answered", !.got = "none", !.result = x]
    OBVIOUS
  <1>3. /\ calls' \subseteq (calls \ {c}) \cup {d} /\ ui' = ui /\ q' = q /\ c.at = "counted"
        /\ srv' = IF c.got = "done" THEN [srv EXCEPT !.completed = @ \cup {c.column}] ELSE srv
    BY <1>1, <1>2 DEF Rolling!FinishRequest, Rolling!Goes, Rolling!Kept
  <1>4. /\ DOMAIN c = RollFields /\ c.kind \in {"start", "resume"} /\ c.column \in Columns /\ c.todo \subseteq Companies
        /\ \A y \in Companies \cap c.result.current : HasColumn(c.column, y)
    BY <1>0, <1>3 DEF RollCall
  <1>5. /\ DOMAIN d = RollFields /\ d.kind = c.kind /\ d.column = c.column /\ d.at = "answered" /\ d.todo = c.todo
        /\ d.result = x
    BY <1>2, <1>4 DEF RollFields
  <1>6. x.column = c.column /\ x.outcomes = srv.outcome[c.column] /\ x.current = c.result.current
    BY <1>1 DEF Rolling!ResultOf
  <1>7. Real(x)
    BY <1>0, <1>4, <1>6 DEF Real, RollServer
  <1>8. /\ DOMAIN srv' = RollStore /\ srv'.rollouts = srv.rollouts /\ srv'.added = srv.added
        /\ srv'.promotion = srv.promotion /\ srv'.outcome = srv.outcome /\ srv'.overlapped = srv.overlapped
        /\ srv'.completed \subseteq Columns
        /\ \A r \in srv'.completed : r \in srv.completed \/ (r = c.column /\ c.got = "done")
    BY <1>0, <1>3, <1>4 DEF RollServer, RollStore
  <1>9. Later
    BY <1>0, <1>8 DEF RollServer, Later, HasColumn
  <1>10. DoneKept
    BY <1>3, <1>8 DEF DoneKept, Rolling!FoundDone
  <1>11. RollCall(d)
    BY <1>4, <1>5, <1>6, <1>7 DEF RollCall
  <1>12. RollCall(d)'
    BY <1>9, <1>11, CallStays
  <1>13. OneWorks' /\ DoneStays'
    BY <1>3, <1>5, <1>10, WorksMove DEF InPhase, OnAdded
  <1> QED
    BY <1>3, <1>9, <1>12, <1>13, ServerMoves

\* A request ends without an answer.
LEMMA EndKeeps == ASSUME RollInv, NEW c \in calls, Rolling!EndRequest(c) PROVE RollInv'
  <1>0. RollCall(c) /\ RollServer
    BY DEF RollInv
  <1>1. PICK d : d = [c EXCEPT !.at = "over"]
    OBVIOUS
  <1>2. calls' \subseteq (calls \ {c}) \cup {d} /\ ui' = ui /\ q' = q /\ Rolling!Fault
    BY <1>1 DEF Rolling!EndRequest, Rolling!Goes, Rolling!Kept
  <1>3. /\ DOMAIN c = RollFields /\ c.kind \in {"start", "resume"} /\ c.column \in Columns /\ c.todo \subseteq Companies
    BY <1>0 DEF RollCall
  <1>4. /\ DOMAIN d = RollFields /\ d.kind = c.kind /\ d.column = c.column /\ d.at = "over" /\ d.todo = c.todo
    BY <1>1, <1>3 DEF RollFields
  <1>5. Later /\ DoneKept
    BY <1>0, <1>2, FaultIsSame, SameIsLater
  <1>6. RollCall(d)
    BY <1>3, <1>4 DEF RollCall
  <1>7. RollCall(d)'
    BY <1>5, <1>6, CallStays
  <1>8. OneWorks' /\ DoneStays'
    BY <1>2, <1>4, <1>5, WorksMove DEF InPhase, OnAdded
  <1> QED
    BY <1>2, <1>5, <1>7, <1>8, ServerMoves

-----------------------------------------------------------------------------
\* The page sends, waits, shows and forgets.
LEMMA PageMoves ==
  ASSUME RollInv, SameRollouts, NEW n, calls' \subseteq calls \cup {n}, RollCall(n), ~InPhase(n), RollPage'
  PROVE  RollInv'
  <1>1. RollServer
    BY DEF RollInv
  <1>2. Later /\ DoneKept
    BY <1>1, SameIsLater
  <1>3. \A x \in calls' : RollCall(x)
    BY DEF RollInv
  <1>4. \A x \in calls' : RollCall(x)'
    BY <1>2, <1>3, CallStays
  <1>5. OneWorks' /\ DoneStays'
    BY <1>2, WorksStay
  <1> QED
    BY <1>2, <1>4, <1>5 DEF RollInv, Later

\* Nobody waits for a call any more.
Left(c) == [c EXCEPT !.awaited = FALSE]

LEMMA LeftCall ==
  ASSUME NEW c, RollCall(c)
  PROVE  /\ RollCall(Left(c)) /\ Left(c).column = c.column /\ Left(c).at = c.at /\ Left(c).todo = c.todo
         /\ Left(c).turn = c.turn /\ Left(c).got = c.got
  <1>1. PICK d : d = Left(c)
    OBVIOUS
  <1>2. DOMAIN c = RollFields
    BY DEF RollCall
  <1>3. /\ DOMAIN d = RollFields /\ d.kind = c.kind /\ d.column = c.column /\ d.at = c.at /\ d.todo = c.todo
        /\ d.turn = c.turn /\ d.got = c.got /\ d.result = c.result
    BY <1>1, <1>2 DEF Left, RollFields
  <1>4. RollCall(d)
    BY <1>3 DEF RollCall
  <1> QED
    BY <1>1, <1>3, <1>4

\* What the page shows is as before.
LEMMA ShowsAsBefore ==
  ASSUME RollInv, SameRollouts, q' = q, DOMAIN ui' = RollUi, ui'.active = ui.active,
         ui'.shown = ui.shown, ui'.started = ui.started, ui'.last = ui.last
  PROVE  RollPage'
  <1>1. RollServer /\ RollPage
    BY DEF RollInv
  <1>2. Later
    BY <1>1, SameIsLater
  <1>3. Rolling!NoResult' = Rolling!NoResult
    BY DEF Rolling!NoResult
  <1>5. (Real(ui.shown) => Real(ui.shown)') /\ (Real(q.data) => Real(q.data)') /\ (Real(q.read) => Real(q.read)')
    BY <1>2, RealStays
  <1> QED
    BY <1>1, <1>3, <1>5 DEF RollPage, QueryFits, Rolling!AsksStatus

\* Nothing is read.
LEMMA NothingRead ==
  ASSUME q' = Rolling!NoStatus
  PROVE  IsQuery(q)' /\ QueryFits'
  <1>1. Rolling!NoResult' = Rolling!NoResult
    BY DEF Rolling!NoResult
  <1>2. IsQuery(q') /\ q'.data = Rolling!NoResult /\ q'.read = Rolling!NoResult /\ q'.has = FALSE /\ q'.fetch = "sent"
    BY DEF IsQuery, Fetched, Rolling!Started, Rolling!NewQuery, Rolling!NoStatus
  <1> QED
    BY <1>1, <1>2 DEF IsQuery, QueryFits, Real

\* A page that is entered.
LEMMA ShowsNone ==
  ASSUME q' = Rolling!NoStatus, DOMAIN ui' = RollUi, ui'.active \in Columns \cup {"none"}, ui'.shown = Rolling!NoResult,
         ui'.last = "none"
  PROVE  RollPage'
  <1>1. Rolling!NoResult' = Rolling!NoResult
    BY DEF Rolling!NoResult
  <1> QED
    BY <1>1, NothingRead DEF RollPage, Real

\* A page with the result of a request.
LEMMA ShowsResult ==
  ASSUME RollInv, SameRollouts, q' = Rolling!NoStatus, NEW x, x.column \in Columns, Real(x), DOMAIN ui' = RollUi,
         ui'.shown = x, ui'.active \in Columns \cup {"none"},
         ui'.last = "resume" \/ (ui'.active = x.column /\ ui'.started = x)
  PROVE  RollPage'
  <1>1. RollServer
    BY DEF RollInv
  <1>2. Later
    BY <1>1, SameIsLater
  <1>3. Rolling!NoResult' = Rolling!NoResult /\ x # Rolling!NoResult
    BY ConsoleAssumption DEF Rolling!NoResult
  <1>4. Real(x)'
    BY <1>2, RealStays
  <1>5. Real(ui.shown)'
    BY <1>4 DEF Real
  <1> QED
    BY <1>3, <1>5, NothingRead DEF RollPage

LEMMA AskKeeps ==
  ASSUME RollInv, NEW kind \in {"start", "resume"}, NEW r \in Columns, Rolling!Ask(kind, r)
  PROVE  RollInv'
  <1>0. RollServer /\ RollPage
    BY DEF RollInv
  <1>1. PICK n : n = [id |-> ui.asks, kind |-> kind, column |-> r, awaited |-> TRUE, at |-> "sent", todo |-> {},
                      turn |-> "none", got |-> "none", listed |-> Rolling!NoResult.outcomes, result |-> Rolling!NoResult]
    OBVIOUS
  <1>2. /\ calls' = calls \cup {n} /\ srv' = srv /\ q' = q
        /\ ui' = [ui EXCEPT !.asks = @ + 1]
    BY <1>1 DEF Rolling!Ask
  <1>3. SameRollouts
    BY <1>0, <1>2, FaultIsSame
  <1>4. /\ DOMAIN ui' = RollUi /\ ui'.active = ui.active
        /\ ui'.shown = ui.shown /\ ui'.started = ui.started /\ ui'.last = ui.last
    BY <1>0, <1>2 DEF RollPage, RollUi
  <1>5. RollPage'
    BY <1>2, <1>3, <1>4, ShowsAsBefore
  <1>6. /\ DOMAIN n = RollFields /\ n.kind = kind /\ n.column = r /\ n.at = "sent" /\ n.todo = {}
        /\ n.result = Rolling!NoResult
    BY <1>1 DEF RollFields
  <1>7. n.result.current = {}
    BY <1>6 DEF Rolling!NoResult
  <1>8. RollCall(n)
    BY <1>6, <1>7 DEF RollCall
  <1> QED
    BY <1>2, <1>3, <1>5, <1>6, <1>8, PageMoves DEF InPhase

\* What is shown names a company only if the page has a rollout.
LEMMA NoneOutstanding == ASSUME RollInv, Rolling!Outstanding(Rolling!Shown.outcomes) # {} PROVE ui.active # "none"
  <1>1. Rolling!NoResult.outcomes = [t \in Companies |-> "none"]
    BY DEF Rolling!NoResult
  <1>2. Rolling!Outstanding(Rolling!NoResult.outcomes) = {}
    BY <1>1 DEF Rolling!Outstanding
  <1>3. ui.active = "none" => Rolling!Shown = Rolling!NoResult
    BY DEF Rolling!Shown
  <1> QED
    BY <1>2, <1>3

LEMMA StartsKeep == ASSUME RollInv, (\E r \in Columns : Rolling!Start(r)) \/ Rolling!Resume PROVE RollInv'
  <1>1. CASE \E r \in Columns : Rolling!Start(r)
    BY <1>1, AskKeeps DEF Rolling!Start
  <1>2. CASE Rolling!Resume
    <2>1. ui.active # "none" /\ Rolling!Ask("resume", ui.active)
      BY <1>2, NoneOutstanding DEF Rolling!Resume
    <2>2. ui.active \in Columns
      BY <2>1 DEF RollInv, RollPage
    <2> QED
      BY <2>1, <2>2, AskKeeps
  <1> QED
    BY <1>1, <1>2

\* Another rollout is to be started, or the page is left and entered.
LEMMA FormKeeps ==
  ASSUME RollInv, Rolling!StartDifferent \/ \E link \in srv.rollouts \cup {"none"} : Rolling!LeaveRollouts(link)
  PROVE  RollInv'
  <1>0. RollServer
    BY DEF RollInv
  <1>1. PICK link \in Columns \cup {"none"} : ui' = Rolling!EnteredBy(link, ui.asks) /\ q' = Rolling!NoStatus
    <2>1. CASE Rolling!StartDifferent
      BY <2>1 DEF Rolling!StartDifferent
    <2>2. CASE \E link \in srv.rollouts \cup {"none"} : Rolling!LeaveRollouts(link)
      BY <1>0, <2>2 DEF Rolling!LeaveRollouts, RollServer
    <2> QED
      BY <2>1, <2>2
  <1>2. DOMAIN ui' = RollUi /\ ui'.active = link /\ ui'.shown = Rolling!NoResult /\ ui'.last = "none"
    BY <1>1 DEF Rolling!EnteredBy, Rolling!FreshPage, RollUi
  <1>3. RollPage'
    BY <1>1, <1>2, ShowsNone
  <1>4. SameRollouts
    BY <1>0, FaultIsSame DEF Rolling!StartDifferent, Rolling!LeaveRollouts
  <1>5. Later /\ DoneKept
    BY <1>0, <1>4, SameIsLater
  <1>6. CASE calls' = calls
    <2>1. PICK n : n = [at |-> "over"]
      OBVIOUS
    <2>2. OneWorks' /\ DoneStays'
      BY <1>5, <1>6, <2>1, WorksStay DEF InPhase
    <2>3. \A x \in calls' : RollCall(x)'
      BY <1>5, <1>6, CallStays DEF RollInv
    <2> QED
      BY <1>3, <1>5, <2>2, <2>3 DEF RollInv, Later
  <1>7. CASE calls' \subseteq {Left(c) : c \in calls}
    <2>1. \A c \in calls : /\ RollCall(Left(c)) /\ Left(c).column = c.column /\ Left(c).at = c.at /\ Left(c).todo = c.todo
                           /\ Left(c).turn = c.turn /\ Left(c).got = c.got
      BY LeftCall DEF RollInv
    <2>2. \A x \in calls' : \E c \in calls : /\ x = Left(c) /\ RollCall(x) /\ x.column = c.column /\ x.at = c.at
                                          /\ x.todo = c.todo /\ x.turn = c.turn /\ x.got = c.got
      BY <1>7, <2>1
    <2>3. \A x \in calls' : RollCall(x)'
      BY <1>5, <2>2, CallStays
    <2>4. OneWorks'
      BY <1>4, <2>2 DEF OneWorks, InPhase, RollInv, SameRollouts
    <2>5. DoneStays'
      <3>1. SUFFICES ASSUME NEW r \in Columns \ srv'.overlapped, Rolling!FoundDone(r)'
                     PROVE  /\ Rolling!Outstanding(srv'.outcome[r]) \subseteq srv'.added[r]
                            /\ \A x \in calls' : x.column = r => OnAdded(x)'
        BY DEF DoneStays
      <3>5. Rolling!FoundDone(r)
        BY <1>4, <2>2, <3>1 DEF Rolling!FoundDone, SameRollouts
      <3>6. SUFFICES ASSUME NEW x \in calls', x.column = r PROVE OnAdded(x)'
        BY <1>5, <3>5, DoneRemains
      <3>2. PICK c \in calls : x.column = c.column /\ x.at = c.at /\ x.todo = c.todo /\ x.turn = c.turn
        BY <2>2
      <3>3. OnAdded(c)'
        BY <1>5, <3>5, <3>6, <3>2, DoneRemains
      <3> QED
        BY <3>2, <3>3 DEF OnAdded, InPhase
    <2> QED
      BY <1>3, <1>5, <2>3, <2>4, <2>5 DEF RollInv, Later
  <1> QED
    BY <1>6, <1>7 DEF Rolling!StartDifferent, Rolling!LeaveRollouts, Rolling!Kept, Left

LEMMA MenuKeeps == ASSUME RollInv, Rolling!FollowMenu PROVE RollInv'
  <1>0. RollServer /\ RollPage
    BY DEF RollInv
  <1>1. srv' = srv /\ q' = q /\ calls' = calls /\ ui' = [ui EXCEPT !.linked = FALSE]
    BY DEF Rolling!FollowMenu
  <1>2. SameRollouts
    BY <1>0, <1>1, FaultIsSame
  <1>3. Later /\ DoneKept
    BY <1>0, <1>2, SameIsLater
  <1>4. RollPage'
    <2>1. /\ DOMAIN ui' = RollUi /\ ui'.active = ui.active
          /\ ui'.shown = ui.shown /\ ui'.started = ui.started /\ ui'.last = ui.last
      BY <1>0, <1>1 DEF RollPage, RollUi
    <2> QED
      BY <1>1, <1>2, <2>1, ShowsAsBefore
  <1>5. PICK n : n = [at |-> "over"]
    OBVIOUS
  <1>6. OneWorks' /\ DoneStays'
    BY <1>1, <1>3, <1>5, WorksStay DEF InPhase
  <1>7. \A x \in calls' : RollCall(x)'
    BY <1>1, <1>3, CallStays DEF RollInv
  <1> QED
    BY <1>3, <1>4, <1>6, <1>7 DEF RollInv, Later

LEMMA AnsweredKeepsRollout == ASSUME RollInv, NEW c \in calls, Rolling!RolloutAnswered(c) PROVE RollInv'
  <1>0. RollServer /\ RollCall(c) /\ DOMAIN ui = RollUi /\ ui.active \in Columns \cup {"none"}
    BY DEF RollInv, RollPage
  <1>1. calls' = calls \ {c} /\ srv' = srv /\ q' = Rolling!NoStatus /\ c.at = "answered"
    BY DEF Rolling!RolloutAnswered
  <1>2. PICK x : x = c.result
    OBVIOUS
  <1>3. x.column = c.column /\ c.column \in Columns /\ Real(x)
    BY <1>0, <1>1, <1>2 DEF RollCall
  <1>4. SameRollouts
    BY <1>0, <1>1, FaultIsSame
  <1>5. RollPage'
    <2>1. CASE ui' = [ui EXCEPT !.active = x.column, !.shown = x, !.started = x, !.last = "start"]
      <3>1. /\ DOMAIN ui' = RollUi /\ ui'.active = x.column /\ ui'.shown = x /\ ui'.started = x
        BY <1>0, <2>1 DEF RollUi
      <3> QED
        BY <1>0, <1>1, <1>3, <1>4, <3>1, ShowsResult
    <2>2. CASE ui' = [ui EXCEPT !.shown = x, !.last = "resume"]
      <3>1. /\ DOMAIN ui' = RollUi /\ ui'.active = ui.active /\ ui'.shown = x /\ ui'.last = "resume"
        BY <1>0, <2>2 DEF RollUi
      <3> QED
        BY <1>0, <1>1, <1>3, <1>4, <3>1, ShowsResult
    <2> QED
      BY <1>2, <2>1, <2>2 DEF Rolling!RolloutAnswered, Rolling!StartedWith
  <1>6. ~InPhase(c)
    BY <1>1 DEF InPhase
  <1> QED
    BY <1>0, <1>1, <1>4, <1>5, <1>6, PageMoves

LEMMA RefusedKeepsRollout == ASSUME RollInv, NEW c \in calls, Rolling!RolloutRefused(c) PROVE RollInv'
  <1>0. RollServer /\ RollCall(c) /\ RollPage
    BY DEF RollInv
  <1>1. PICK d : d = Left(c)
    OBVIOUS
  <1>2. calls' \subseteq (calls \ {c}) \cup {d} /\ q' = q /\ ui' = ui
        /\ (srv' = srv \/ Rolling!Fault)
    BY <1>1 DEF Rolling!RolloutRefused, Rolling!Kept, Left
  <1>3. SameRollouts
    BY <1>0, <1>2, FaultIsSame
  <1>4. Later /\ DoneKept
    BY <1>0, <1>3, SameIsLater
  <1>5. RollCall(d) /\ d.column = c.column /\ d.at = c.at /\ d.todo = c.todo /\ d.turn = c.turn
        /\ d.got = c.got
    BY <1>0, <1>1, LeftCall
  <1>6. RollCall(d)'
    BY <1>4, <1>5, CallStays
  <1>7. InPhase(d) => InPhase(c)
    BY <1>5 DEF InPhase
  <1>8. Rolling!FoundDone(d.column) /\ d.column \notin srv.overlapped => OnAdded(d)'
    BY <1>3, <1>5, AtWork DEF OnAdded, InPhase, SameRollouts
  <1>9. OneWorks' /\ DoneStays'
    <2>1. d.at = "counted" /\ d.got = "done" => Rolling!FoundDone(d.column)
      BY <1>5 DEF Rolling!FoundDone
    <2> QED
      BY <1>2, <1>4, <1>5, <1>7, <1>8, <2>1, WorksMove
  <1>11. RollPage'
    BY <1>0, <1>2, <1>4, PageStays
  <1>12. \A x \in calls' : RollCall(x)'
    BY <1>2, <1>4, <1>6, CallStays DEF RollInv
  <1> QED
    BY <1>4, <1>9, <1>11, <1>12 DEF RollInv, Later

\* The query of the rollout in the page's address.
LEMMA RollQueries ==
  ASSUME NEW x, IsQuery(x), NEW data
  PROVE  /\ \A y \in {Rolling!Invalidated(x), Rolling!Observed(x, TRUE), Rolling!Refused(x)} :
              Derived(y, x) /\ y.has = x.has /\ y.data = x.data
         /\ Derived(Rolling!Answered(x), x) /\ Rolling!Answered(x).data = x.read /\ Rolling!Answered(x).fetch = "no"
         /\ IsQuery(Rolling!ReadWith(x, data)) /\ Rolling!ReadWith(x, data).data = x.data
         /\ Rolling!ReadWith(x, data).read = data /\ Rolling!ReadWith(x, data).has = x.has
  BY DEF IsQuery, Derived, Fetched, Rolling!Started, Rolling!Invalidated, Rolling!Observed, Rolling!Answered,
         Rolling!Refused, Rolling!ReadWith

\* Another answer of the query.
LEMMA QueryMoves ==
  ASSUME RollInv, srv' = srv, ui' = ui, calls' = calls, IsQuery(q'),
         Rolling!AsksStatus => QueryFits'
  PROVE  RollInv'
  <1>1. Rolling!NoResult' = Rolling!NoResult
    BY DEF Rolling!NoResult
  <1>2. RollServer /\ SameRollouts
    BY FaultIsSame DEF RollInv
  <1>3. Later /\ DoneKept
    BY <1>2, SameIsLater
  <1>4. RollPage'
    <2>1. RollPage
      BY DEF RollInv
    <2>2. Real(ui.shown) => Real(ui.shown)'
      BY <1>1 DEF Real, HasColumn
    <2> QED
      BY <1>1, <2>1, <2>2 DEF RollPage, Rolling!AsksStatus
  <1>5. PICK n : n = [at |-> "over"]
    OBVIOUS
  <1>6. OneWorks' /\ DoneStays'
    BY <1>3, <1>5, WorksStay DEF InPhase
  <1>7. \A x \in calls' : RollCall(x)'
    BY <1>3, CallStays DEF RollInv
  <1> QED
    BY <1>3, <1>4, <1>6, <1>7 DEF RollInv, Later

LEMMA FitsNext ==
  ASSUME srv' = srv, ui' = ui, NEW data, NEW read, q'.data = data, q'.read = read, Real(data), Real(read),
         q'.has => data.column = ui.active, q'.fetch = "read" => read.column = ui.active
  PROVE  QueryFits'
  <1>1. Rolling!NoResult' = Rolling!NoResult
    BY DEF Rolling!NoResult
  <1>2. Real(q.data)'
    BY <1>1 DEF Real, HasColumn
  <1>3. Real(q.read)'
    BY <1>1 DEF Real, HasColumn
  <1> QED
    BY <1>2, <1>3 DEF QueryFits

LEMMA QueryKeeps ==
  ASSUME RollInv, Rolling!ReadStatus \/ Rolling!StatusAnswer \/ Rolling!StatusFail \/ Rolling!RefetchStatus
  PROVE  RollInv'
  <1>0. /\ IsQuery(q) /\ srv' = srv /\ ui' = ui /\ calls' = calls
        /\ ui.active \in Columns /\ RollServer /\ QueryFits
    BY DEF RollInv, RollPage, Rolling!ReadStatus, Rolling!StatusAnswer, Rolling!StatusFail, Rolling!RefetchStatus,
           Rolling!AsksStatus
  <1>1. CASE Rolling!ReadStatus
    <2>1. PICK x : x = Rolling!ResultOf(ui.active, {})
      OBVIOUS
    <2>2. q' = Rolling!ReadWith(q, x)
      BY <1>1, <2>1 DEF Rolling!ReadStatus
    <2>5. IsQuery(q)
      BY <1>0
    <2>3. IsQuery(q') /\ q'.data = q.data /\ q'.read = x /\ q'.has = q.has
      BY ONLY <2>2, <2>5, RollQueries
    <2>4. QueryFits'
      <3>1. x.column = ui.active /\ x.outcomes = srv.outcome[ui.active] /\ x.current = {}
        BY <2>1 DEF Rolling!ResultOf
      <3>2. Real(x)
        BY <1>0, <3>1 DEF Real, RollServer
      <3>3. Real(q.data) /\ (q.has => q.data.column = ui.active)
        BY <1>0 DEF QueryFits
      <3> QED
        BY <1>0, <2>3, <3>1, <3>2, <3>3, FitsNext
    <2> QED
      BY <1>0, <2>3, <2>4, QueryMoves
  <1>2. CASE Rolling!StatusAnswer
    <2>1. q' = Rolling!Answered(q) /\ q.fetch = "read"
      BY <1>2 DEF Rolling!StatusAnswer
    <2>2. Derived(q', q) /\ q'.data = q.read /\ q'.fetch = "no"
      BY <1>0, <2>1, RollQueries
    <2>3. QueryFits'
      <3>1. Real(q.read) /\ Real(q.data) /\ q.read.column = ui.active
        BY <1>0, <2>1 DEF QueryFits
      <3>2. Real(q'.read)
        BY <2>2, <3>1 DEF Derived
      <3> QED
        BY <1>0, <2>2, <3>1, <3>2, FitsNext
    <2> QED
      BY <1>0, <2>2, <2>3, QueryMoves DEF Derived
  <1>3. CASE Rolling!StatusFail \/ Rolling!RefetchStatus
    <2>1. q' \in {Rolling!Invalidated(q), Rolling!Observed(q, TRUE), Rolling!Refused(q)}
      BY <1>3 DEF Rolling!StatusFail, Rolling!RefetchStatus
    <2>2. IsQuery(q)
      BY <1>0
    <2>3. Derived(q', q) /\ q'.has = q.has /\ q'.data = q.data
      BY ONLY <2>1, <2>2, RollQueries
    <2>4. QueryFits'
      <3>1. /\ Real(q.read) /\ Real(q.data) /\ (q.has => q.data.column = ui.active)
            /\ (q.fetch = "read" => q.read.column = ui.active)
        BY <1>0 DEF QueryFits
      <3>2. Real(q'.read) /\ (q'.fetch = "read" => q'.read.column = ui.active)
        BY <2>3, <3>1 DEF Derived
      <3> QED
        BY <1>0, <2>3, <3>1, <3>2, FitsNext
    <2> QED
      BY <1>0, <2>3, <2>4, QueryMoves DEF Derived
  <1> QED
    BY <1>1, <1>2, <1>3

\* Every step keeps RollInv.
LEMMA RollStep == ASSUME RollInv, Rolling!RolloutNext PROVE RollInv'
  <1>1. CASE \/ (\E r \in Columns : Rolling!Start(r)) \/ Rolling!Resume \/ Rolling!StartDifferent \/ Rolling!FollowMenu
             \/ \E link \in srv.rollouts \cup {"none"} : Rolling!LeaveRollouts(link)
    BY <1>1, StartsKeep, FormKeeps, MenuKeeps
  <1>2. ASSUME NEW c \in calls,
               \/ Rolling!RolloutAnswered(c) \/ Rolling!RolloutRefused(c)
               \/ \E active \in SUBSET Companies : Rolling!HandleStart(c, active)
               \/ Rolling!SeedOutcome(c) \/ Rolling!ListOutstanding(c) \/ Rolling!RecordOutcome(c)
               \/ Rolling!FinishRequest(c) \/ Rolling!CountOutstanding(c) \/ Rolling!EndRequest(c)
        PROVE  RollInv'
    BY <1>2, AnsweredKeepsRollout, RefusedKeepsRollout, HandleStartKeeps, SeedKeeps, ListKeeps, RecordKeeps,
       CountKeeps, FinishKeeps, EndKeeps
  <1>3. ASSUME NEW c \in calls, NEW t \in Companies, Rolling!RegisterPromotion(c, t) \/ Rolling!ReadPromotion(c, t)
        PROVE  RollInv'
    BY <1>3, RegisterKeeps, ReadKeepsRollout
  <1>4. ASSUME NEW c \in calls, NEW does \in {"pending", "ddl_failed", "ddl_applied"}, Rolling!Promote(c, does)
        PROVE  RollInv'
    BY <1>4, PromoteKeeps
  <1>5. CASE Rolling!ReadStatus \/ Rolling!StatusAnswer \/ Rolling!StatusFail \/ Rolling!RefetchStatus
    BY <1>5, QueryKeeps
  <1> QED
    BY <1>1, <1>2, <1>3, <1>4, <1>5 DEF Rolling!RolloutNext

LEMMA RollFirst == ASSUME Rolling!RolloutInit PROVE RollInv
  <1>1. PICK link \in Columns \cup {"none"}, before \in [Companies -> Rolling!Before], done \in BOOLEAN :
          /\ ui = Rolling!EnteredBy(link, 0)
          /\ srv = [faults |-> 0, rollouts |-> {link} \cap Columns, completed |-> IF done THEN {link} \cap Columns ELSE {},
                    overlapped |-> {},
                    promotion |-> [r \in Columns |-> [t \in Companies |-> IF r = link THEN before[t].promotion ELSE "none"]],
                    outcome |-> [r \in Columns |-> [t \in Companies |-> IF r = link THEN before[t].outcome ELSE "none"]],
                    added |-> [r \in Columns |->
                      IF done THEN Rolling!Outstanding([t \in Companies |-> IF r = link THEN before[t].outcome ELSE "none"])
                      ELSE {}]]
    BY ConsoleAssumption DEF Rolling!RolloutInit
  <1>2. calls = {} /\ q = Rolling!NoStatus
    BY DEF Rolling!RolloutInit
  <1>3. DOMAIN ui = RollUi /\ ui.active = link /\ ui.shown = Rolling!NoResult /\ ui.last = "none"
    BY <1>1 DEF RollUi, Rolling!EnteredBy, Rolling!FreshPage
  <1>4. \A t \in Companies : /\ before[t].promotion \in Promotions /\ before[t].outcome \in Outcomes
                             /\ before[t].outcome = "succeeded" => before[t].promotion = "ddl_applied"
    BY DEF Rolling!Before, Promotions, Outcomes
  <1>5. DOMAIN srv = RollStore /\ srv.rollouts \subseteq Columns /\ srv.completed \subseteq Columns /\ (srv.completed # {} => done)
    BY <1>1 DEF RollStore
  <1>6. RollServer /\ (done => \A r \in Columns : srv.added[r] = Rolling!Outstanding(srv.outcome[r]))
    <2>1. PICK promotions, outcomes :
            /\ promotions = [r \in Columns |-> [t \in Companies |-> IF r = link THEN before[t].promotion ELSE "none"]]
            /\ outcomes = [r \in Columns |-> [t \in Companies |-> IF r = link THEN before[t].outcome ELSE "none"]]
      OBVIOUS
    <2>2. promotions \in [Columns -> [Companies -> Promotions]] /\ outcomes \in [Columns -> [Companies -> Outcomes]]
      <3>1. "none" \in Promotions /\ "none" \in Outcomes
        BY DEF Promotions, Outcomes
      <3>2. ASSUME NEW r \in Columns
            PROVE  promotions[r] \in [Companies -> Promotions] /\ outcomes[r] \in [Companies -> Outcomes]
        <4>1. /\ promotions[r] = [t \in Companies |-> IF r = link THEN before[t].promotion ELSE "none"]
              /\ outcomes[r] = [t \in Companies |-> IF r = link THEN before[t].outcome ELSE "none"]
          BY <2>1
        <4> QED
          BY <1>4, <3>1, <4>1
      <3> QED
        BY <2>1, <3>2
    <2>3. \A r \in Columns, t \in Companies : outcomes[r][t] = "succeeded" => promotions[r][t] = "ddl_applied"
      <3>1. ASSUME NEW r \in Columns, NEW t \in Companies
            PROVE  /\ promotions[r][t] = IF r = link THEN before[t].promotion ELSE "none"
                   /\ outcomes[r][t] = IF r = link THEN before[t].outcome ELSE "none"
        BY <2>1
      <3> QED
        BY <1>4, <3>1
    <2>4. /\ srv.promotion = promotions /\ srv.outcome = outcomes
          /\ srv.added = [r \in Columns |-> IF done THEN Rolling!Outstanding(outcomes[r]) ELSE {}]
      <3>1. \A r \in Columns : outcomes[r] = [t \in Companies |-> IF r = link THEN before[t].outcome ELSE "none"]
        BY ONLY <2>1
      <3> QED
        BY <1>1, <2>1, <3>1
    <2>5. \A o : Rolling!Outstanding(o) \in SUBSET Companies
      BY DEF Rolling!Outstanding
    <2>6. srv.added \in [Columns -> SUBSET Companies]
      BY ONLY <2>4, <2>5
    <2> QED
      BY <1>5, <2>2, <2>3, <2>4, <2>6 DEF RollServer, HasColumn
  <1>7. IsQuery(q) /\ q.data = Rolling!NoResult /\ q.read = Rolling!NoResult /\ q.has = FALSE /\ q.fetch = "sent"
    BY <1>2 DEF IsQuery, Fetched, Rolling!Started, Rolling!NewQuery, Rolling!NoStatus
  <1>8. RollPage
    BY <1>3, <1>7 DEF RollPage, QueryFits, Real
  <1>9. OneWorks /\ DoneStays
    BY <1>2, <1>5, <1>6 DEF OneWorks, DoneStays, Rolling!FoundDone
  <1> QED
    BY <1>2, <1>6, <1>8, <1>9 DEF RollInv

\* What is shown is real, and of the rollout of the page unless a resume was answered.
LEMMA ShownIsReal ==
  ASSUME RollInv
  PROVE  /\ Real(Rolling!Shown)
         /\ Rolling!Shown # Rolling!NoResult /\ Rolling!Shown.column # ui.active => ui.last = "resume"
  <1>0. RollPage
    BY DEF RollInv
  <1>1. CASE ui.active = "none"
    BY <1>1 DEF Rolling!Shown, Real
  <1>2. CASE ui.active # "none" /\ ui.shown # Rolling!NoResult
    BY <1>0, <1>2 DEF Rolling!Shown, RollPage
  <1>3. CASE ui.active # "none" /\ ui.shown = Rolling!NoResult
    <2>1. QueryFits
      BY <1>0, <1>3 DEF RollPage, Rolling!AsksStatus
    <2>2. Rolling!Renders(q) = "success" => q.has
      BY DEF Rolling!Renders
    <2>3. Rolling!Shown = IF Rolling!Renders(q) = "success" THEN q.data ELSE Rolling!NoResult
      BY <1>3 DEF Rolling!Shown
    <2>4. CASE Rolling!Renders(q) = "success"
      BY <2>1, <2>2, <2>3, <2>4 DEF QueryFits
    <2>5. CASE Rolling!Renders(q) # "success"
      BY <2>3, <2>5 DEF Real
    <2> QED
      BY <2>4, <2>5
  <1> QED
    BY <1>1, <1>2, <1>3

LEMMA RollFits == ASSUME RollInv PROVE Rolling!ShowsItsRollout /\ Rolling!SucceededIsThere
  <1>1. Rolling!ShowsItsRollout
    BY ShownIsReal DEF RollInv, RollPage, Rolling!ShowsItsRollout
  <1>2. \A t \in Companies :
          Rolling!Shown.outcomes[t] = "succeeded" \/ t \in Rolling!Shown.current
            => srv.promotion[Rolling!Shown.column][t] = "ddl_applied"
    <2>1. CASE Rolling!Shown = Rolling!NoResult
      BY <2>1 DEF Rolling!NoResult
    <2>2. CASE Rolling!Shown # Rolling!NoResult
      BY <2>2, ShownIsReal DEF Real, HasColumn
    <2> QED
      BY <2>1, <2>2
  <1>3. \A r \in Columns, t \in Companies : srv.outcome[r][t] = "succeeded" => srv.promotion[r][t] = "ddl_applied"
    BY DEF RollInv, RollServer, HasColumn
  <1>4. \A r \in srv.completed \ srv.overlapped : Rolling!Outstanding(srv.outcome[r]) \subseteq srv.added[r]
    BY DEF RollInv, DoneStays, RollServer, Rolling!FoundDone
  <1> QED
    BY <1>1, <1>2, <1>3, <1>4 DEF Rolling!SucceededIsThere

-----------------------------------------------------------------------------
(* The console *)

ConsoleInv ==
  \/ on = "list" /\ ListInv
  \/ on = "detail" /\ DetailInv
  \/ on = "pager" /\ PagerInv
  \/ on = "registration" /\ RegInv
  \/ on = "rollout" /\ RollInv

\* Nothing happens.
LEMMA ConsoleRests == ASSUME ConsoleInv, UNCHANGED vars PROVE ConsoleInv'
  <1>1. on' = on /\ srv' = srv /\ ui' = ui /\ q' = q /\ calls' = calls
    BY DEF vars
  <1>2. CASE on = "list" /\ ListInv
    <2>1. QueryInv'
      BY <1>1, <1>2 DEF ListInv, QueryInv, IsQuery
    <2>2. ListInv'
      BY <1>1, <1>2, <2>1, FetchKeeps
    <2> QED
      BY <1>1, <1>2, <2>2 DEF ConsoleInv
  <1>3. CASE on = "detail" /\ DetailInv
    <2>1. DetailInv'
      BY <1>1, <1>3 DEF DetailInv, DetailShape, SavesInv, UserForm, TenantForm, Older, Detail!SavesWhatWasTyped,
         Detail!TypingStays
    <2> QED
      BY <1>1, <1>3, <2>1 DEF ConsoleInv
  <1>4. CASE on = "pager" /\ PagerInv
    <2>1. PagerInv'
      BY <1>1, <1>4, ShowsTheSame DEF PagerInv
    <2> QED
      BY <1>1, <1>4, <2>1 DEF ConsoleInv
  <1>5. CASE on = "registration" /\ RegInv
    <2>1. RegInv'
      BY <1>1, <1>5 DEF RegInv, RegServer, RegPage, RegCall, So, PollsFit, Registration!Polls
    <2> QED
      BY <1>1, <1>5, <2>1 DEF ConsoleInv
  <1>6. CASE on = "rollout" /\ RollInv
    <2>1. IsQuery(q') /\ (Rolling!AsksStatus => QueryFits')
      BY <1>1, <1>6, FitsNext DEF RollInv, RollPage, QueryFits
    <2>2. RollInv'
      BY <1>1, <1>6, <2>1, QueryMoves
    <2> QED
      BY <1>1, <1>6, <2>2 DEF ConsoleInv
  <1> QED
    BY <1>2, <1>3, <1>4, <1>5, <1>6 DEF ConsoleInv

\* The invariant of the page on the screen holds at first, and every step of the page, its requests and the server
\* keeps it (ListPages, DetailForms, Paging, Onboarding, Rollouts).
THEOREM ConsoleInvariance == Spec => []ConsoleInv
  <1>1. Init => ConsoleInv
    BY ListFirst, DetailFirst, PagerFirst, RegFirst, RollFirst DEF Init, ConsoleInv
  <1>2. ASSUME ConsoleInv, [Next]_vars PROVE ConsoleInv'
    <2>1. CASE UNCHANGED vars
      BY <1>2, <2>1, ConsoleRests
    <2>2. CASE Next
      BY <1>2, <2>2, ListStep, DetailStep, PagerStep, RegStep, RollStep DEF Next, ConsoleInv
    <2> QED
      BY <1>2, <2>1, <2>2
  <1> QED
    BY <1>1, <1>2, PTL DEF Spec

\* What a page shows and sends belongs together: an error stands in the form it is about, a save sends what was
\* typed and read, rows, filter and cursor go together, and success is shown only of what the server has done.
THEOREM BelongsTogetherTheorem == Spec => []BelongsTogether
  <1>1. ConsoleInv => BelongsTogether
    BY ListFits, DetailFits, PagerFits, RegFits, RollFits DEF ConsoleInv, BelongsTogether, TypeOK
  <1> QED
    BY <1>1, ConsoleInvariance, PTL

\* The answer to a call closes the form it was sent from, in the opening it was sent from (onSuccess of the lists'
\* mutations); the operations named Strays keep to it as long as no form was left or sent again in a hurry.
THEOREM AnswersCloseTheorem == Spec => AnswersCloseTheirForm
  <1>1. ASSUME ConsoleInv, [Next]_vars PROVE [on = "list" => List!AnswerClosesItsForm]_vars
    BY <1>1, ListCloses DEF Next, ConsoleInv
  <1> QED
    BY <1>1, ConsoleInvariance, PTL DEF Spec, AnswersCloseTheirForm

-----------------------------------------------------------------------------
(* The session *)

Keys == Tenants \cup {Unresolved}
Going == [to : Realms, slug : Realms, out : BOOLEAN]
Switches == [to : Tenants, out : Realms, got : Realms, live : BOOLEAN]
Rows == [key : Keys, from : Tenants]
Asked == [key : Keys, tok : Realms]

Tabs == [at : Places, stored : Realms, manager : Realms, renews : BOOLEAN,
         login : LoginStates, leaving : Going, away : Going]
Sessions == [on : BOOLEAN, slug : Realms, id : Realms, of : Realms]

\* The shape of the state, in full.
SessionType ==
  /\ tab \in Tabs
  /\ auth \in [token : Realms, session : Sessions]
  /\ mgr \in [Tenants -> Realms]
  /\ switcher \in [pending : BOOLEAN, need : Realms, failed : Realms, switching : Realms]
  /\ sws \in SUBSET Switches /\ cache \in SUBSET Rows /\ requests \in SUBSET Asked
  /\ used \in [loads : Nat, turns : Nat, overlap : BOOLEAN]

\* Before the callback there is nothing of an earlier session.
CallbackIsFresh == tab.at = "callback" => sws = {} /\ cache = {} /\ requests = {}

\* Unless two switches overlapped, the one under way leaves the tenant of the session, and what
\* was fetched and is being fetched was fetched for that tenant or for none.
OneTenant ==
  ~used.overlap =>
    /\ \A x, y \in sws : x = y
    /\ auth.session.on => \A x \in sws : x.out = auth.session.id
    /\ auth.session.on => \A r \in cache \cup requests : r.key \in {SessionKey, Unresolved}
    /\ \A x \in sws, r \in cache \cup requests : r.key \in {Key(x.out), Unresolved}

SInv ==
  /\ SessionType /\ CallbackIsFresh /\ OneTenant
  /\ auth.session.id # None => auth.session.on

\* The invariant gives the property.
LEMMA RowsFollow == SInv => KeyedRowsGone
  <1> SUFFICES ASSUME SInv PROVE KeyedRowsGone
    OBVIOUS
  <1>1. SessionTypeOK
    BY DEF SInv, SessionType, Tabs, Sessions, Realms, Keys, Switches, Rows, SessionTypeOK
  <1>2. auth.session.id # None /\ ~used.overlap =>
          \A row \in cache : row.key \in {auth.session.id, Unresolved}
    BY DEF SInv, OneTenant, SessionKey, Key
  <1> QED
    BY <1>1, <1>2 DEF KeyedRowsGone

\* A step that leaves the session's part alone.
LEMMA KeepsRows ==
  ASSUME SInv, SessionType', tab'.at = "callback" => tab.at = "callback",
         UNCHANGED <<auth, sws, cache, requests>>, used'.overlap = used.overlap
  PROVE  SInv'
  BY DEF SInv, CallbackIsFresh, OneTenant, SessionKey, Key

\* A page load starts afresh.
LEMMA FreshRows ==
  ASSUME SInv, SessionType', Fresh
  PROVE  SInv'
  BY DEF SInv, CallbackIsFresh, OneTenant, Fresh, NoAuth, NoSession

\* The session is over; its switches go on without the shell.
LEMMA OrphanRows ==
  ASSUME SInv, SessionType', tab.at # "callback", tab'.at # "callback",
         auth'.session.on => auth' = auth, auth'.session.id # None => auth'.session.on,
         sws' = Orphaned(sws), cache' = cache, requests' \subseteq requests, used'.overlap = used.overlap
  PROVE  SInv'
  <1>1. \A x \in sws' : \E y \in sws : x = [y EXCEPT !.live = FALSE]
    BY DEF Orphaned
  <1>2. \A x \in sws' : \E y \in sws : x.out = y.out /\ x = [y EXCEPT !.live = FALSE]
    <2>1. \A y \in sws : [y EXCEPT !.live = FALSE].out = y.out
      BY DEF SInv, SessionType, Switches
    <2>2. ASSUME NEW x \in sws' PROVE \E y \in sws : x.out = y.out /\ x = [y EXCEPT !.live = FALSE]
      <3>1. PICK y \in sws : x = [y EXCEPT !.live = FALSE]
        BY <1>1
      <3>2. x.out = y.out
        BY <2>1, <3>1
      <3> QED
        BY <3>1, <3>2
    <2> QED
      BY <2>2
  <1>3. ASSUME ~used.overlap PROVE \A x, y \in sws' : x = y
    <2> SUFFICES ASSUME NEW x \in sws', NEW y \in sws' PROVE x = y
      OBVIOUS
    <2>1. PICK a \in sws : x = [a EXCEPT !.live = FALSE]
      BY <1>1
    <2>2. PICK b \in sws : y = [b EXCEPT !.live = FALSE]
      BY <1>1
    <2>3. a = b
      BY <1>3 DEF SInv, OneTenant
    <2> QED
      BY <2>1, <2>2, <2>3
  <1>4. ASSUME ~used.overlap, auth'.session.on PROVE \A x \in sws' : x.out = auth'.session.id
    BY <1>2, <1>4 DEF SInv, OneTenant
  <1>5. ASSUME ~used.overlap, auth'.session.on
        PROVE  \A r \in cache' \cup requests' : r.key \in {Key(auth'.session.id), Unresolved}
    BY <1>5 DEF SInv, OneTenant, SessionKey
  <1>6. ASSUME ~used.overlap
        PROVE  \A x \in sws', r \in cache' \cup requests' : r.key \in {Key(x.out), Unresolved}
    BY <1>2, <1>6 DEF SInv, OneTenant
  <1>7. OneTenant'
    BY <1>3, <1>4, <1>5, <1>6 DEF OneTenant, SessionKey, Key
  <1> QED
    BY <1>7 DEF SInv, CallbackIsFresh

\* The documents a step may leave in the tab.
LEMMA TabForms ==
  ASSUME NEW t \in Tabs, NEW slug \in Realms, NEW manager \in Realms
  PROVE  /\ Guarded(t, slug, manager) \in Tabs /\ Expired(t) \in Tabs
         /\ Guarded(t, slug, manager).at # "callback"
         /\ t.at # "callback" => Expired(t).at # "callback"
  <1>1. SignInAt(manager, slug) \in Going /\ Stay \in Going
        /\ SignInAt(t.manager, t.stored) \in Going
    BY DEF Tabs, Going, Realms, SignInAt, Stay, None
  <1>2. ASSUME NEW s \in Realms, NEW m \in Realms, SignInAt(m, s) \in Going
        PROVE  Guarded(t, s, m) \in Tabs /\ Guarded(t, s, m).at \in {"login", "redirecting"}
    BY <1>1, <1>2 DEF Tabs, Guarded, Places, LoginStates
  <1>3. t.stored \in Realms /\ t.manager \in Realms
    BY DEF Tabs
  <1>4. Guarded(t, t.stored, t.manager) \in Tabs
        /\ Guarded(t, t.stored, t.manager).at \in {"login", "redirecting"}
    BY <1>1, <1>2, <1>3
  <1>5. Expired(t) \in Tabs /\ (t.at # "callback" => Expired(t).at # "callback")
    <2>1. CASE NeedsEmailFirst(t.stored)
      BY <1>4, <2>1 DEF Expired
    <2>2. CASE ~NeedsEmailFirst(t.stored)
      BY <1>1, <2>2 DEF Expired, Tabs, Places
    <2> QED
      BY <2>1, <2>2
  <1> QED
    BY <1>1, <1>2, <1>5

\* Orphaned switches keep their shape.
LEMMA OrphanForms == ASSUME NEW s \in SUBSET Switches PROVE Orphaned(s) \in SUBSET Switches
  BY DEF Switches, Orphaned

\* The values a fresh document starts from.
LEMMA FreshForms ==
  ASSUME Fresh
  PROVE  /\ auth' \in [token : Realms, session : Sessions] /\ mgr' \in [Tenants -> Realms]
         /\ switcher' \in [pending : BOOLEAN, need : Realms, failed : Realms, switching : Realms]
         /\ sws' = {} /\ cache' = {} /\ requests' = {}
  BY DEF Fresh, NoAuth, NoSession, NoManagers, QuietUi, None, Realms, Sessions

\* A new document, however it was reached.
LEMMA DocumentRows ==
  ASSUME SInv, NEW slug \in Realms, Document(slug),
         used' \in [loads : Nat, turns : Nat, overlap : BOOLEAN]
  PROVE  SInv'
  <1>1. PICK m \in Answered(slug) :
          tab' = Guarded([tab EXCEPT !.renews = FALSE, !.away = Stay], slug, m)
    BY DEF Document
  <1>2. m \in Realms
    BY SessionAssumption DEF Answered, Realms
  <1>3. [tab EXCEPT !.renews = FALSE, !.away = Stay] \in Tabs
    BY DEF SInv, SessionType, Tabs, Going, Realms, Stay, None
  <1>4. tab' \in Tabs
    BY <1>1, <1>2, <1>3, TabForms
  <1>5. SessionType'
    BY <1>4, FreshForms DEF Document, SessionType
  <1> QED
    BY <1>5, FreshRows DEF Document

\* The steps that change neither what is shown of the session nor its rows.
LEMMA QuietRows ==
  ASSUME SInv,
         \/ Discover \/ RetryImplausible \/ TryAgain
         \/ \E o \in LoginStates : Discovered(o)
         \/ \E t, m \in Tenants, b \in BOOLEAN : DiscoveredTenant(t, m, b)
         \/ \E m \in Tenants : SignInToTenant(m)
  PROVE  SInv'
  <1>1. CASE Discover \/ RetryImplausible \/ TryAgain \/ \E o \in LoginStates : Discovered(o)
    <2>1. /\ tab' \in Tabs /\ tab'.at # "callback"
          /\ UNCHANGED <<auth, mgr, switcher, sws, cache, requests, used>>
      BY <1>1 DEF SInv, SessionType, Tabs, Discover, RetryImplausible, TryAgain, Discovered,
                  LoginStates, Places
    <2> QED
      BY <2>1, KeepsRows DEF SInv, SessionType
  <1>2. CASE \E t, m \in Tenants, b \in BOOLEAN : DiscoveredTenant(t, m, b)
    <2>1. PICK t \in Tenants, m \in Tenants, b \in BOOLEAN : DiscoveredTenant(t, m, b)
      BY <1>2
    <2>2. SignInAt(m, t) \in Going
      BY DEF Going, Realms, SignInAt
    <2>3. /\ tab' \in Tabs /\ tab'.at # "callback" /\ mgr' \in [Tenants -> Realms]
          /\ UNCHANGED <<auth, switcher, sws, cache, requests, used>>
      BY <2>1, <2>2 DEF SInv, SessionType, Tabs, Realms, LoginStates, DiscoveredTenant
    <2> QED
      BY <2>3, KeepsRows DEF SInv, SessionType
  <1>3. CASE \E m \in Tenants : SignInToTenant(m)
    <2>1. PICK m \in Tenants : SignInToTenant(m)
      BY <1>3
    <2>2. SignInAt(m, tab.stored) \in Going
      BY DEF SInv, SessionType, Tabs, Going, Realms, SignInAt
    <2>3. /\ tab' \in Tabs /\ tab'.at # "callback" /\ mgr' \in [Tenants -> Realms]
          /\ UNCHANGED <<auth, switcher, sws, cache, requests, used>>
      BY <2>1, <2>2 DEF SInv, SessionType, Tabs, Realms, ShellShown, SignInToTenant
    <2> QED
      BY <2>3, KeepsRows DEF SInv, SessionType
  <1> QED
    BY <1>1, <1>2, <1>3

\* Going to the identity provider and coming back from it.
LEMMA TravelRows == ASSUME SInv, Leave \/ ComeBack PROVE SInv'
  <1>1. CASE Leave
    <2>1. tab' \in Tabs /\ used' = used /\ Fresh
      BY <1>1 DEF SInv, SessionType, Tabs, Going, Realms, Stay, None, Places, Leave
    <2> QED
      BY <2>1, FreshForms, FreshRows DEF SInv, SessionType
  <1>2. CASE ComeBack
    <2>1. PICK slug \in Realms, m \in Realms :
            tab' = [tab EXCEPT !.at = "callback", !.stored = slug, !.manager = m, !.leaving = Stay]
      <3> DEFINE slug == IF tab.away.slug = None THEN tab.stored ELSE tab.away.slug
      <3>1. slug \in Realms
        BY DEF SInv, SessionType, Tabs, Going
      <3>2. PICK m \in Answered(slug) :
              tab' = [tab EXCEPT !.at = "callback", !.stored = slug, !.manager = m, !.leaving = Stay]
        BY <1>2 DEF ComeBack
      <3>3. m \in Realms
        BY <3>1, SessionAssumption DEF Realms, Answered
      <3> QED
        BY <3>1, <3>2, <3>3
    <2>2. tab' \in Tabs /\ used' = used /\ Fresh
      BY <1>2, <2>1 DEF SInv, SessionType, Tabs, Going, Realms, Stay, None, Places,
                        ComeBack
    <2> QED
      BY <2>2, FreshForms, FreshRows DEF SInv, SessionType
  <1> QED
    BY <1>1, <1>2

\* The callback page: nothing is there that the new session could be held to.
LEMMA CallbackRows ==
  ASSUME SInv,
         CallbackFails \/ CallbackToken \/ \E a \in {"found", "failed", "expired"} : CallbackSession(a)
  PROVE  SInv'
  <1>1. CASE CallbackFails
    BY <1>1, DocumentRows DEF CallbackFails, SInv, SessionType, Tabs
  <1>2. CASE CallbackToken
    <2>1. /\ tab' \in Tabs /\ tab.at = "callback"
          /\ auth' \in [token : Realms, session : Sessions] /\ auth'.session = auth.session
          /\ UNCHANGED <<mgr, switcher, sws, cache, requests, used>>
      BY <1>2 DEF SInv, SessionType, Tabs, CallbackToken
    <2> QED
      BY <2>1 DEF SInv, SessionType, CallbackIsFresh, OneTenant
  <1>3. CASE \E a \in {"found", "failed", "expired"} : CallbackSession(a)
    <2>1. PICK a \in {"found", "failed", "expired"} : CallbackSession(a)
      BY <1>3
    <2> DEFINE t == IF a = "expired" THEN Expired(tab) ELSE tab
    <2>2. t \in Tabs
      BY TabForms DEF SInv, SessionType, Tabs
    <2>3. tab' = [t EXCEPT !.at = "shell", !.away = Stay] /\ tab.at = "callback"
      BY <2>1 DEF CallbackSession
    <2>4. tab' \in Tabs /\ tab'.at = "shell"
      <3> HIDE DEF t
      <3> QED
        BY <2>2, <2>3 DEF Tabs, Going, Realms, Stay, None, Places
    <2>5. /\ auth' \in [token : Realms, session : Sessions] /\ auth'.session.on
          /\ UNCHANGED <<mgr, switcher, sws, cache, requests, used>>
      BY <2>1 DEF SInv, SessionType, Tabs, Sessions, Realms, None, CallbackSession
    <2> QED
      BY <2>3, <2>4, <2>5 DEF SInv, SessionType, CallbackIsFresh, OneTenant
  <1> QED
    BY <1>1, <1>2, <1>3
\* A switch begins: it leaves the tenant of the session, and is alone unless it overlaps another.
LEMMA SelectRows == ASSUME SInv, NEW t \in Tenants, Select(t) PROVE SInv'
  <1> DEFINE new == [to |-> t, out |-> auth.session.id, got |-> None, live |-> TRUE]
  <1>1. /\ auth.session.on /\ tab.at = "shell" /\ sws' = sws \cup {new}
        /\ used' = [used EXCEPT !.turns = @ + 1, !.overlap = @ \/ sws # {}]
        /\ UNCHANGED <<tab, auth, mgr, cache, requests>>
    BY DEF Select, ShellShown
  <1>2. new \in Switches /\ new.out = auth.session.id
    BY DEF SInv, SessionType, Switches, Sessions, Realms, None
  <1>3. used' \in [loads : Nat, turns : Nat, overlap : BOOLEAN]
        /\ (~used'.overlap => ~used.overlap /\ sws = {})
    <2>1. used \in [loads : Nat, turns : Nat, overlap : BOOLEAN]
      BY DEF SInv, SessionType
    <2>2. used'.overlap = (used.overlap \/ sws # {}) /\ used.turns + 1 \in Nat
      BY <1>1, <2>1
    <2>3. used' \in [loads : Nat, turns : Nat, overlap : BOOLEAN]
      <3> DEFINE o == used.overlap \/ sws # {}
      <3>1. o \in BOOLEAN
        OBVIOUS
      <3>2. used' = [used EXCEPT !.turns = used.turns + 1, !.overlap = o]
        BY <1>1
      <3> HIDE DEF o
      <3> QED
        BY <2>1, <2>2, <3>1, <3>2
    <2> QED
      BY <2>2, <2>3
  <1>4. switcher' \in [pending : BOOLEAN, need : Realms, failed : Realms, switching : Realms]
    BY DEF SInv, SessionType, Realms, None, Select
  <1>5. OneTenant'
    <2> SUFFICES ASSUME ~used'.overlap PROVE OneTenant'
      BY DEF OneTenant
    <2>1. sws' = {new}
      BY <1>1, <1>3
    <2> HIDE DEF new
    <2> QED
      BY <1>1, <1>2, <1>3, <2>1 DEF SInv, OneTenant, SessionKey, Key
  <1> QED
    BY <1>1, <1>2, <1>3, <1>4, <1>5 DEF SInv, SessionType, CallbackIsFresh

\* A manager that the registry answers with.
LEMMA ManagerForms ==
  ASSUME mgr \in [Tenants -> Realms], NEW t \in Tenants, NEW m \in Realms, mgr' = [mgr EXCEPT ![t] = m]
  PROVE  mgr' \in [Tenants -> Realms]
  OBVIOUS

\* A switch ends without a session: those that are left are among those there were.
LEMMA SwitchOffRows ==
  ASSUME SInv, NEW s \in sws,
         TokenRefused(s) \/ \E o \in {"interaction_required", "error"} : SilentRefused(s, o)
  PROVE  SInv'
  <1>1. /\ sws' = sws \ {s} /\ UNCHANGED <<tab, auth, cache, requests, used>>
    BY DEF TokenRefused, SilentRefused
  <1>2. s.to \in Tenants
    BY DEF SInv, SessionType, Switches
  <1>3. mgr' \in [Tenants -> Realms]
    <2>1. CASE TokenRefused(s)
      BY <2>1 DEF SInv, SessionType, TokenRefused
    <2>2. CASE \E o \in {"interaction_required", "error"} : SilentRefused(s, o)
      <3>1. PICK m \in Realms : mgr' = [mgr EXCEPT ![s.to] = m]
        BY <2>2 DEF SilentRefused, Realms
      <3> QED
        BY <1>2, <3>1, ManagerForms DEF SInv, SessionType
    <2> QED
      BY <2>1, <2>2
  <1>4. switcher' \in [pending : BOOLEAN, need : Realms, failed : Realms, switching : Realms]
    <2>1. s.to \in Realms /\ None \in Realms
      BY <1>2 DEF Realms
    <2> QED
      BY <2>1 DEF SInv, SessionType, TokenRefused, SilentRefused
  <1>5. SessionType'
    BY <1>1, <1>3, <1>4 DEF SInv, SessionType
  <1> QED
    BY <1>1, <1>5 DEF SInv, CallbackIsFresh, OneTenant, SessionKey, Key

\* A silent sign-in: the shell gives way, the switch goes on with what it left.
LEMMA SilentOkRows == ASSUME SInv, NEW s \in sws, NEW m \in Tenants, SilentOk(s, m) PROVE SInv'
  <1> DEFINE new == [s EXCEPT !.got = m, !.live = FALSE]
  <1>1. /\ sws' = Orphaned(sws \ {s}) \cup {new} /\ UNCHANGED <<tab, auth, cache, requests, used>>
        /\ mgr' = [mgr EXCEPT ![s.to] = m] /\ switcher' = [Unmounted(switcher) EXCEPT !.switching = s.to]
    BY DEF SilentOk
  <1>2. s \in Switches /\ new \in Switches /\ new.out = s.out /\ s.to \in Tenants
    BY DEF SInv, SessionType, Switches, Realms
  <1>3. Orphaned(sws \ {s}) \in SUBSET Switches
    BY OrphanForms DEF SInv, SessionType
  <1>4. switcher' \in [pending : BOOLEAN, need : Realms, failed : Realms, switching : Realms]
    BY <1>1, <1>2 DEF SInv, SessionType, Realms, Unmounted
  <1>5. mgr' \in [Tenants -> Realms]
    BY <1>1, <1>2, ManagerForms DEF SInv, SessionType, Realms
  <1> HIDE DEF new
  <1>6. SessionType'
    BY <1>1, <1>2, <1>3, <1>4, <1>5 DEF SInv, SessionType
  <1>7. OneTenant'
    <2> SUFFICES ASSUME ~used.overlap PROVE OneTenant'
      BY <1>1 DEF OneTenant
    <2>1. sws \ {s} = {}
      BY DEF SInv, OneTenant
    <2>2. sws' = {new}
      BY <1>1, <2>1 DEF Orphaned
    <2> QED
      BY <1>1, <1>2, <2>2 DEF SInv, OneTenant, SessionKey, Key
  <1> QED
    BY <1>1, <1>2, <1>6, <1>7 DEF SInv, CallbackIsFresh

\* A switch sets the new session: the rows of the tenant it leaves are gone with their requests.
LEMMA SwitchedRows ==
  ASSUME SInv, NEW s \in sws, NEW a \in {"skipped", "found", "failed", "expired"}, Switched(s, a)
  PROVE  SInv'
  <1> DEFINE t == IF a = "expired" THEN Expired(tab) ELSE tab
  <1>1. /\ tab' = IF t.at \in {"login", "crashed"} THEN [t EXCEPT !.at = "shell"] ELSE t
        /\ DropTenant(s.out) /\ s.got # None
        /\ auth' = [token |-> s.got,
                    session |-> [on |-> TRUE, slug |-> s.got, of |-> s.got,
                                 id |-> IF a = "found" THEN s.got ELSE None]]
        /\ sws' = Orphaned(sws \ {s}) /\ switcher' = [Unmounted(switcher) EXCEPT !.switching = None]
        /\ UNCHANGED <<mgr, used>>
    BY DEF Switched
  <1>2. s \in Switches /\ s.got \in Realms
    BY DEF SInv, SessionType, Switches
  <1>3. t \in Tabs /\ t.at # "callback"
    BY TabForms DEF SInv, SessionType, CallbackIsFresh, Tabs
  <1>4. tab' \in Tabs /\ tab'.at # "callback"
    <2> HIDE DEF t
    <2> QED
      BY <1>1, <1>3 DEF Tabs, Places
  <1>5. auth' \in [token : Realms, session : Sessions] /\ auth'.session.on
    BY <1>1, <1>2 DEF Sessions, Realms, None
  <1>6. switcher' \in [pending : BOOLEAN, need : Realms, failed : Realms, switching : Realms]
    BY <1>1 DEF SInv, SessionType, Realms, Unmounted, None
  <1>7. sws' \in SUBSET Switches
    BY <1>1, OrphanForms DEF SInv, SessionType
  <1>8. cache' \subseteq cache /\ requests' \subseteq requests
        /\ \A r \in cache' \cup requests' : s.out = None \/ r.key # s.out
    BY <1>1 DEF DropTenant
  <1>9. SessionType'
    BY <1>1, <1>4, <1>5, <1>6, <1>7, <1>8 DEF SInv, SessionType
  <1>10. OneTenant'
    <2> SUFFICES ASSUME ~used.overlap PROVE OneTenant'
      BY <1>1 DEF OneTenant
    <2>1. sws' = {}
      BY <1>1 DEF SInv, OneTenant, Orphaned
    <2>2. \A r \in cache' \cup requests' : r.key = Unresolved
      BY <1>8 DEF SInv, OneTenant, Key
    <2> QED
      BY <2>1, <2>2 DEF OneTenant
  <1> QED
    BY <1>4, <1>5, <1>9, <1>10 DEF SInv, CallbackIsFresh

\* The shell goes, with the session or without it.
LEMMA LeavesShellRows == ASSUME SInv, Logout \/ Crash PROVE SInv'
  <1>1. /\ sws' = Orphaned(sws) /\ cache' = cache /\ requests' = requests /\ mgr' = mgr
        /\ switcher' = Unmounted(switcher) /\ tab.at = "shell"
        /\ used' \in [loads : Nat, turns : Nat, overlap : BOOLEAN] /\ used'.overlap = used.overlap
    BY DEF SInv, SessionType, Logout, Crash, ShellShown
  <1>2. switcher' \in [pending : BOOLEAN, need : Realms, failed : Realms, switching : Realms]
    BY <1>1 DEF SInv, SessionType, Unmounted, Realms, None
  <1>3. /\ auth' \in [token : Realms, session : Sessions]
        /\ auth'.session.on => auth' = auth
        /\ auth'.session.id # None => auth'.session.on
    <2>1. CASE Crash
      BY <2>1 DEF SInv, SessionType, Crash
    <2>2. CASE Logout
      BY <2>2 DEF Sessions, Realms, None, NoAuth, NoSession, Logout
    <2> QED
      BY <2>1, <2>2
  <1>4. tab' \in Tabs /\ tab'.at # "callback"
    <2>1. CASE Crash
      BY <2>1 DEF SInv, SessionType, Tabs, Places, Crash
    <2>2. CASE Logout
      <3>1. tab \in Tabs /\ tab.manager \in Realms /\ None \in Realms
        BY DEF SInv, SessionType, Tabs, Realms
      <3>2. PICK l \in {SignOut, SignInAt(tab.manager, None)} :
              tab' = [Guarded(tab, None, tab.manager) EXCEPT !.leaving = l]
        <4>1. PICK l \in {SignOut} \cup (IF EmailFirst THEN {} ELSE {SignInAt(tab.manager, None)}) :
                tab' = [Guarded(tab, None, tab.manager) EXCEPT !.leaving = l]
          BY <2>2 DEF Logout
        <4>2. l \in {SignOut, SignInAt(tab.manager, None)}
          BY <4>1
        <4> QED
          BY <4>1, <4>2
      <3>3. l \in Going
        <4>1. SignOut \in Going /\ SignInAt(tab.manager, None) \in Going
          BY <3>1 DEF Going, Realms, SignOut, SignInAt, None
        <4> QED
          BY <3>2, <4>1
      <3>4. Guarded(tab, None, tab.manager) \in Tabs
            /\ Guarded(tab, None, tab.manager).at # "callback"
        BY <3>1, TabForms
      <3> QED
        BY <3>2, <3>3, <3>4 DEF Tabs
    <2> QED
      BY <2>1, <2>2
  <1>5. sws' \in SUBSET Switches
    BY <1>1, OrphanForms DEF SInv, SessionType
  <1>6. SessionType'
    BY <1>1, <1>2, <1>3, <1>4, <1>5 DEF SInv, SessionType
  <1> QED
    BY <1>1, <1>3, <1>4, <1>6, OrphanRows

\* A renewal changes the token alone.
LEMMA RenewRows == ASSUME SInv, Renew PROVE SInv'
  <1>1. /\ auth' \in [token : Realms, session : Sessions] /\ auth'.session = auth.session
        /\ used' \in [loads : Nat, turns : Nat, overlap : BOOLEAN] /\ used'.overlap = used.overlap
        /\ UNCHANGED <<tab, mgr, switcher, sws, cache, requests>>
    BY DEF SInv, SessionType, Tabs, Renew
  <1> QED
    BY <1>1 DEF SInv, SessionType, CallbackIsFresh, OneTenant, SessionKey, Key

\* Rows are asked for under the key of the session, and come under the key they were asked for.
LEMMA FetchRows ==
  ASSUME SInv, Fetch \/ \E c \in requests : RowsArrive(c)
  PROVE  SInv'
  <1>1. CASE Fetch
    <2> DEFINE new == [key |-> SessionKey, tok |-> auth.token]
    <2>1. /\ requests' = requests \cup {new} /\ tab.at = "shell" /\ auth.session.on
          /\ UNCHANGED <<tab, auth, mgr, switcher, sws, cache, used>>
      BY <1>1 DEF Fetch, ShellShown
    <2>2. new \in Asked /\ new.key = SessionKey
      BY DEF SInv, SessionType, Sessions, Asked, Keys, Realms, SessionKey, Key
    <2> HIDE DEF new
    <2> QED
      BY <2>1, <2>2 DEF SInv, SessionType, CallbackIsFresh, OneTenant, SessionKey, Key
  <1>2. CASE \E c \in requests : RowsArrive(c)
    <2>1. PICK c \in requests : RowsArrive(c)
      BY <1>2
    <2> DEFINE new == [key |-> c.key, from |-> c.tok]
    <2>2. /\ c.tok # None /\ cache' = cache \cup {new} /\ requests' = requests \ {c}
          /\ UNCHANGED <<tab, auth, mgr, switcher, sws, used>>
      BY <2>1 DEF RowsArrive
    <2>3. new \in Rows /\ new.key = c.key
      BY <2>2 DEF SInv, SessionType, Asked, Rows, Realms
    <2> HIDE DEF new
    <2> QED
      BY <2>2, <2>3 DEF SInv, SessionType, CallbackIsFresh, OneTenant, SessionKey, Key
  <1> QED
    BY <1>1, <1>2

\* A request is refused; a 401 ends the session.
LEMMA RefusedRows ==
  ASSUME SInv, NEW c \in requests, NEW b \in BOOLEAN, RowsRefused(c, b) PROVE SInv'
  <1>1. /\ requests' = requests \ {c} /\ UNCHANGED <<mgr, cache, used>> /\ tab.at # "callback"
    BY DEF SInv, CallbackIsFresh, RowsRefused
  <1>2. CASE b
    <2>1. tab' = Expired(tab) /\ auth' = NoAuth /\ switcher' = Unmounted(switcher) /\ sws' = Orphaned(sws)
      BY <1>2 DEF RowsRefused, Expire
    <2>2. tab' \in Tabs /\ tab'.at # "callback"
      BY <1>1, <2>1, TabForms DEF SInv, SessionType, Tabs
    <2>3. auth' \in [token : Realms, session : Sessions] /\ ~auth'.session.on /\ auth'.session.id = None
      BY <2>1 DEF NoAuth, NoSession, Sessions, Realms, None
    <2>4. switcher' \in [pending : BOOLEAN, need : Realms, failed : Realms, switching : Realms]
      BY <2>1 DEF SInv, SessionType, Unmounted, Realms, None
    <2>5. sws' \in SUBSET Switches
      BY <2>1, OrphanForms DEF SInv, SessionType
    <2>6. SessionType'
      BY <1>1, <2>2, <2>3, <2>4, <2>5 DEF SInv, SessionType
    <2> QED
      BY <1>1, <2>1, <2>2, <2>3, <2>6, OrphanRows
  <1>3. CASE ~b
    BY <1>1, <1>3 DEF SInv, SessionType, CallbackIsFresh, OneTenant, SessionKey, Key, RowsRefused
  <1> QED
    BY <1>2, <1>3

\* SInv holds at first, and every step of the session keeps it.
THEOREM SessionInvariance == SessionSpec => []SInv
  <1>1. SessionInit => SInv
    BY DEF SessionInit, SInv, SessionType, Tabs, Sessions, Going, Realms, Places, LoginStates, Stay,
           None, NoAuth, NoSession, NoManagers, QuietUi, CallbackIsFresh, OneTenant
  <1>2. ASSUME SInv, [SessionNext]_sessionVars PROVE SInv'
    <2>1. CASE UNCHANGED sessionVars
      BY <1>2, <2>1 DEF sessionVars, SInv, SessionType, CallbackIsFresh, OneTenant, SessionKey, Key
    <2>2. CASE \E r \in Realms : Load(r)
      <3>1. PICK r \in Realms : Load(r)
        BY <2>2
      <3>2. (IF r = None THEN tab.stored ELSE r) \in Realms
            /\ used' \in [loads : Nat, turns : Nat, overlap : BOOLEAN]
        BY <1>2, <3>1 DEF SInv, SessionType, Tabs, Load
      <3> QED
        BY <1>2, <3>1, <3>2, DocumentRows DEF Load
    <2>3. CASE \E t \in Tenants : Select(t)
      BY <1>2, <2>3, SelectRows
    <2>4. CASE TryAgain \/ LoginStep \/ \E t \in Tenants : SignInToTenant(t)
      BY <1>2, <2>4, QuietRows DEF LoginStep
    <2>5. CASE Logout \/ Crash
      BY <1>2, <2>5, LeavesShellRows
    <2>6. CASE Fetch \/ \E c \in requests : RowsArrive(c)
      BY <1>2, <2>6, FetchRows
    <2>7. CASE CallbackStep
      BY <1>2, <2>7, CallbackRows DEF CallbackStep
    <2>8. CASE Leave \/ ComeBack
      BY <1>2, <2>8, TravelRows
    <2>9. CASE Renew
      BY <1>2, <2>9, RenewRows
    <2>10. CASE \E s \in sws : SwitchStep(s)
      BY <1>2, <2>10, SwitchOffRows, SilentOkRows, SwitchedRows DEF SwitchStep
    <2>11. CASE \E c \in requests : \E b \in BOOLEAN : RowsRefused(c, b)
      BY <1>2, <2>11, RefusedRows
    <2> QED
      BY <1>2, <2>1, <2>2, <2>3, <2>4, <2>5, <2>6, <2>7, <2>8, <2>9, <2>10, <2>11
      DEF SessionNext, UserStep, Realms
  <1> QED
    BY <1>1, <1>2, PTL DEF SessionSpec

\* After a switch no row is left under the key of a tenant that is not the active one
\* (AuthProvider.switchTenant), however the requests are answered, unless two switches overlapped.
THEOREM KeyedRowsTheorem == SessionSpec => []KeyedRowsGone
  BY SessionInvariance, RowsFollow, PTL

=============================================================================
