---------------------------- MODULE PickerScreen ----------------------------
(***************************************************************************)
(* The picker screen (gui/frontend/src/screens/picker-list.js) and its     *)
(* selection tray (picker-tray.js) against the bound methods they call:     *)
(* the status of the catalogue, the marks on the rows, the tray's entries   *)
(* and whether package changes are allowed.                                *)
(*                                                                         *)
(* Every call is three steps: sent, answered by the backend, and delivered *)
(* to the screen; events are delivered in any order.  A handler that takes *)
(* a new number (++_statusSequence, ++_selectionSequence, ++pageSeq) makes *)
(* the screen ignore the answers to earlier calls of the same kind, so the *)
(* model withdraws those.  A handler is an operator from the screen to the *)
(* screen, the calls it makes included.  The tray fits on one page.        *)
(***************************************************************************)
EXTENDS Integers, FiniteSets

CONSTANTS Names,       \* packages, by their keys in the tray
          MaxTargets,  \* bound: target generations
          MaxActs,     \* bound: what the operator and the jobs do
          NoToken

(* A target lists finitely many packages. *)
ASSUME PickerAssumption == IsFiniteSet(Names)

VARIABLES
  back,   \* the backend: tgen, state of the catalogue, busy, sel, rev, undo; acts counts
  events, \* emitted and not delivered
  scr     \* the screen, with its calls

pvars == <<back, events, scr>>

Unset == -1
NoReply == [read |-> FALSE]
Call(op, arg) == [op |-> op, arg |-> arg, reply |-> NoReply, also |-> NoReply]

Act == back.acts < MaxActs
EditReason(s) == s.life # "free"
Summary == [rev |-> back.rev, total |-> Cardinality(back.sel), token |-> back.undo.token]

-----------------------------------------------------------------------------
(* What the handlers are made of.                                          *)

(* _refreshStatus: CurrentTarget and CatalogStatus, together. *)
RefreshStatus(s) ==
  [s EXCEPT !.calls = {c \in @ : c.op \notin {"status", "newTarget"}} \cup {Call("status", Unset)}
                      \cup {Call("selection", "status") : c \in {d \in @ : d.op = "newTarget"}}]
RefreshLifecycle(s) == [s EXCEPT !.calls = {c \in @ : c.op # "lifecycle"} \cup {Call("lifecycle", Unset)}]

(* _reloadSelection: the keys, and then the summary if it is not at hand. *)
ReloadSelection(s, haveSummary) ==
  [s EXCEPT !.calls = {c \in @ : c.op # "keys" /\ ~(c.op = "selection" /\ c.arg = "reload")} \cup {Call("keys", haveSummary)}]

(* The tray's render and refreshEntries. *)
Render(s, sum) ==
  IF sum.rev < s.trayRev THEN s
  ELSE LET others == {c \in s.calls : c.op # "page"}
       IN IF sum.total = 0 THEN [s EXCEPT !.trayRev = sum.rev, !.entries = {}, !.calls = others]
          ELSE [s EXCEPT !.trayRev = sum.rev, !.calls = others \cup {Call("page", sum.rev)}]

OnSelectionChanged(s, sum) ==
  IF s.sumRev # Unset /\ sum.rev < s.sumRev THEN s
  ELSE LET t == Render([s EXCEPT !.sumRev = sum.rev, !.total = sum.total, !.token = sum.token], sum)
       IN IF sum.rev # t.keysRev \/ ~t.complete THEN ReloadSelection(t, TRUE) ELSE t

(* _applyStatus, while packages are loading. *)
ShowLoading(s, state) ==
  [s EXCEPT !.status = state, !.mode = "loading", !.attempted = @ \cup {s.gen}, !.poll = s.visible]

StartPreparation(s, force, explicit) ==
  IF s.gen \in s.pending \/ s.status = "building" \/ (~explicit /\ s.gen \in s.attempted) THEN s
  ELSE IF EditReason(s) THEN [s EXCEPT !.mode = "unavailable"]
  ELSE ShowLoading([s EXCEPT !.cancelled = @ \ {s.gen}, !.failed = @ \ {s.gen}, !.ready = Unset,
                             !.pending = @ \cup {s.gen}, !.calls = @ \cup {Call("prepare", [gen |-> s.gen, force |-> force])}], "building")

ApplyStatus(s, answered) ==
  LET state == IF answered \notin {"ready", "building"} /\ s.gen \in s.failed THEN "failed" ELSE answered
      t == [s EXCEPT !.status = state]
  IN IF state = "none" THEN [t EXCEPT !.mode = "choose"]
     ELSE IF state = "ready" THEN IF t.ready = t.gen THEN t ELSE [t EXCEPT !.ready = t.gen, !.mode = "discovery"]
     ELSE IF state = "building" \/ t.gen \in t.pending THEN ShowLoading(t, state)
     ELSE IF state \in {"cancelled", "failed"} THEN [t EXCEPT !.attempted = @ \cup {t.gen}, !.mode = state]
     ELSE IF state = "not-built" /\ t.prepare = t.gen /\ t.gen \notin t.attempted THEN StartPreparation(t, FALSE, FALSE)
     ELSE [t EXCEPT !.mode = "notLoaded"]

-----------------------------------------------------------------------------
(* mount, and show; the shell mounts a screen when it is first shown.  A new *)
(* target asks for preparation on entry.                                     *)
Mounted ==
  [visible |-> FALSE, gen |-> Unset, ready |-> Unset, status |-> "none", mode |-> "loading", poll |-> FALSE, prepare |-> Unset,
   pending |-> {}, attempted |-> {}, cancelled |-> {}, failed |-> {}, life |-> "unknown",
   selected |-> {}, complete |-> FALSE, keysRev |-> Unset, sumRev |-> Unset, total |-> 0, token |-> NoToken,
   toggles |-> {}, opBusy |-> FALSE, trayRev |-> 0, entries |-> {}, calls |-> {}]
AfterShow(s, gen) ==
  ReloadSelection(RefreshLifecycle(RefreshStatus([s EXCEPT !.visible = TRUE, !.prepare = gen])), FALSE)

PickerInit ==
  /\ \E state \in {"none", "not-built", "ready"}, sel \in SUBSET Names :
       back = [tgen |-> IF state = "none" THEN 0 ELSE 1, state |-> state, busy |-> FALSE, sel |-> sel, rev |-> 1 + Cardinality(sel),
               undo |-> [token |-> NoToken, sel |-> {}], acts |-> 0]
  /\ events = {}
  /\ scr = AfterShow(Mounted, back.tgen)

-----------------------------------------------------------------------------
(* What the operator does.                                                 *)

Did(s) == scr' = s /\ back' = [back EXCEPT !.acts = @ + 1] /\ UNCHANGED events

Show ==
  /\ Act /\ ~scr.visible
  /\ \E gen \in {back.tgen, scr.prepare} : Did(AfterShow(scr, gen))
Hide == Act /\ scr.visible /\ Did([scr EXCEPT !.visible = FALSE, !.poll = FALSE])

Prepare ==
  /\ Act /\ scr.visible /\ scr.mode \in {"cancelled", "failed", "notLoaded", "discovery", "unavailable"}
  /\ \E force \in BOOLEAN : Did(StartPreparation(scr, force, TRUE))
CancelPreparation ==
  /\ Act /\ scr.visible /\ scr.mode = "loading" /\ scr.status = "building" /\ scr.gen \notin scr.cancelled
  /\ Did([ApplyStatus([scr EXCEPT !.attempted = @ \cup {scr.gen}, !.cancelled = @ \cup {scr.gen}], scr.status)
            EXCEPT !.calls = @ \cup {Call("cancel", scr.gen)}])

(* _toggle marks the row at once; before the keys are known, by what the row said. *)
Toggle(n) ==
  /\ Act /\ scr.visible /\ n \notin scr.toggles /\ ~EditReason(scr)
  /\ \E was \in IF scr.complete THEN {n \in scr.selected} ELSE BOOLEAN :
       Did([scr EXCEPT !.toggles = @ \cup {n}, !.selected = IF was THEN @ \ {n} ELSE @ \cup {n},
                       !.calls = @ \cup {Call(IF was THEN "remove" ELSE "add", n)}])

(* The tray's mutate: one at a time; clearing stands for every removal from it. *)
TrayMutate(op, arg) ==
  /\ Act /\ scr.visible /\ ~EditReason(scr) /\ ~scr.opBusy
  /\ Did([scr EXCEPT !.opBusy = TRUE, !.calls = @ \cup {Call(op, arg)}])
Clear == scr.total > 0 /\ TrayMutate("clear", Unset)
Undo == scr.token # NoToken /\ TrayMutate("undo", scr.token)

PollStatus ==
  /\ scr.poll
  /\ scr' = RefreshStatus([scr EXCEPT !.poll = FALSE])
  /\ UNCHANGED <<back, events>>

-----------------------------------------------------------------------------
(* The backend.                                                            *)

Emit(e) == events' = events \cup e
SelectionEvent(b) == [name |-> "selection", rev |-> b.rev, total |-> Cardinality(b.sel), token |-> b.undo.token]
NothingToUndo == [token |-> NoToken, sel |-> {}]

(* SelectTarget and ClearTarget, as the other screens call them. *)
ChangeTarget ==
  /\ Act /\ back.tgen < MaxTargets /\ ~back.busy /\ back.state # "building"
  /\ \E state \in {"none", "not-built", "ready"} :
       back' = [back EXCEPT !.tgen = @ + 1, !.state = state, !.undo = NothingToUndo, !.acts = @ + 1]
  /\ Emit({[name |-> "target"], SelectionEvent(back')}) /\ UNCHANGED scr

CatalogProgress ==
  /\ Act /\ back.state = "building" /\ back' = [back EXCEPT !.acts = @ + 1]
  /\ Emit({[name |-> "catalog", gen |-> back.tgen, at |-> "progress"]}) /\ UNCHANGED scr
CatalogEnds ==
  /\ back.state = "building"
  /\ \E state \in {"ready", "failed", "cancelled"} : back' = [back EXCEPT !.state = state]
  /\ Emit({[name |-> "catalog", gen |-> back.tgen, at |-> "finished"], SelectionEvent(back)}) /\ UNCHANGED scr

(* A build or a copy starts or ends. *)
JobStartsOrEnds ==
  /\ Act /\ back' = [back EXCEPT !.busy = ~@, !.acts = @ + 1]
  /\ Emit({[name |-> "lifecycle"]}) /\ UNCHANGED scr

Reply(c, r) == scr' = [scr EXCEPT !.calls = (@ \ {c}) \cup {[c EXCEPT !.reply = r]}]

(* The bound methods that only look. *)
Reads(op) ==
  CASE op = "status" -> [read |-> TRUE, gen |-> back.tgen]
    [] op = "lifecycle" -> [read |-> TRUE, busy |-> back.busy]
    [] op = "keys" -> [read |-> TRUE, rev |-> back.rev, keys |-> back.sel]
    [] op \in {"selection", "newTarget"} -> [read |-> TRUE, sum |-> Summary]
    [] op = "page" -> [read |-> TRUE, keys |-> back.sel]
Look(c) ==
  /\ c.op \in {"status", "lifecycle", "keys", "selection", "newTarget", "page"} /\ c.reply = NoReply
  /\ Reply(c, Reads(c.op)) /\ UNCHANGED <<back, events>>
(* CatalogStatus, in any order with CurrentTarget; the Selection read after the page. *)
LookAlso(c) ==
  /\ c.also = NoReply
  /\ \/ /\ c.op = "status"
        /\ scr' = [scr EXCEPT !.calls = (@ \ {c}) \cup {[c EXCEPT !.also = [read |-> TRUE, gen |-> back.tgen, state |-> back.state]]}]
     \/ /\ c.op = "page" /\ c.reply # NoReply
        /\ scr' = [scr EXCEPT !.calls = (@ \ {c}) \cup {[c EXCEPT !.also = [read |-> TRUE, sum |-> Summary]]}]
  /\ UNCHANGED <<back, events>>

(* AddPackages, RemovePackages, ClearSelection and UndoSelection: refused while *)
(* a job runs; revisions move with the keys.                                    *)
Mutated(c) ==
  LET gone == [token |-> back.rev + 1, sel |-> back.sel]
  IN CASE c.op = "add" -> [back EXCEPT !.sel = @ \cup {c.arg}, !.rev = IF c.arg \in back.sel THEN @ ELSE @ + 1, !.undo = NothingToUndo]
       [] c.op = "remove" -> IF c.arg \in back.sel THEN [back EXCEPT !.sel = @ \ {c.arg}, !.rev = @ + 1, !.undo = gone] ELSE back
       [] c.op = "clear" -> IF back.sel = {} THEN back ELSE [back EXCEPT !.sel = {}, !.rev = @ + 1, !.undo = gone]
       [] c.op = "undo" -> [back EXCEPT !.sel = back.undo.sel, !.rev = @ + 1 + Cardinality(back.undo.sel), !.undo = NothingToUndo]
Mutate(c) ==
  /\ c.op \in {"add", "remove", "clear", "undo"} /\ c.reply = NoReply
  /\ IF back.busy \/ (c.op = "undo" /\ c.arg # back.undo.token)
     THEN Reply(c, [read |-> TRUE, error |-> TRUE, sum |-> Summary, changed |-> FALSE]) /\ UNCHANGED <<back, events>>
     ELSE LET b == Mutated(c)
          IN /\ back' = b
             /\ Reply(c, [read |-> TRUE, error |-> FALSE, changed |-> b.sel # back.sel,
                          sum |-> [rev |-> b.rev, total |-> Cardinality(b.sel), token |-> b.undo.token]])
             /\ IF c.op = "remove" /\ b = back THEN UNCHANGED events ELSE Emit({SelectionEvent(b)})

(* StartCatalogBuild and CancelCatalogBuild. *)
Build(c) ==
  /\ c.op = "prepare" /\ c.reply = NoReply
  /\ IF back.busy \/ back.state \in {"building", "none"}
     THEN Reply(c, [read |-> TRUE, error |-> TRUE]) /\ UNCHANGED <<back, events>>
     ELSE /\ Reply(c, [read |-> TRUE, error |-> FALSE])
          /\ IF back.state = "ready" /\ ~c.arg.force
             THEN UNCHANGED back /\ Emit({[name |-> "catalog", gen |-> back.tgen, at |-> "finished"]})
             ELSE back' = [back EXCEPT !.state = "building"] /\ Emit({[name |-> "catalog", gen |-> back.tgen, at |-> "started"]})
StopBuild(c) == c.op = "cancel" /\ c.reply = NoReply /\ Reply(c, [read |-> TRUE]) /\ UNCHANGED <<back, events>>

-----------------------------------------------------------------------------
(* Answers and events reach the screen.                                    *)

(* _refreshStatus: both answers of one target, and not an older one; a new   *)
(* target starts over, and its selection is read first.                      *)
StatusAnswer(s, c) ==
  IF c.also.gen # c.reply.gen THEN [s EXCEPT !.poll = s.visible]
  ELSE IF c.reply.gen < s.gen THEN s
  ELSE IF c.reply.gen = s.gen THEN ApplyStatus(s, c.also.state)
  ELSE [s EXCEPT !.gen = c.reply.gen, !.ready = Unset, !.calls = @ \cup {Call("newTarget", c.also.state)}]

LifecycleAnswer(s, c) ==
  LET t == [s EXCEPT !.life = IF c.reply.busy THEN "busy" ELSE "free"]
  IN IF EditReason(s) /\ ~EditReason(t) THEN RefreshStatus(t) ELSE t

KeysAnswer(s, c) ==
  LET t == IF c.reply.rev < s.keysRev THEN s
           ELSE [s EXCEPT !.keysRev = c.reply.rev, !.complete = TRUE, !.selected = c.reply.keys]
  IN IF c.arg THEN t ELSE [t EXCEPT !.calls = @ \cup {Call("selection", "reload")}]

PageAnswer(s, c) ==
  IF c.also.sum.rev = c.arg THEN [s EXCEPT !.entries = c.reply.keys] ELSE Render(s, c.also.sum)

\* Mutant of ToggleAnswer: a refused change only takes its own mark back.
ToggleAnswerMarksOnly(s, c) ==
  LET t == IF c.reply.error THEN s ELSE OnSelectionChanged(s, c.reply.sum)
      u == [t EXCEPT !.toggles = @ \ {c.arg}]
  IN IF c.reply.changed THEN u ELSE [u EXCEPT !.selected = IF c.op = "remove" THEN @ \cup {c.arg} ELSE @ \ {c.arg}]
(* _toggle, after _mutate: a change that was refused or changed nothing takes *)
(* its mark back and reads the selection again.                               *)
ToggleAnswer(s, c) ==
  LET t == IF c.reply.error THEN s ELSE OnSelectionChanged(s, c.reply.sum)
      u == [t EXCEPT !.toggles = @ \ {c.arg}]
  IN IF c.reply.changed THEN u
     ELSE ReloadSelection([u EXCEPT !.selected = IF c.op = "remove" THEN @ \cup {c.arg} ELSE @ \ {c.arg}], FALSE)

(* The tray's acceptMutation; an undo reads the selection again in any case. *)
TrayAnswer(s, c) ==
  LET t == [s EXCEPT !.opBusy = FALSE]
      u == IF c.reply.error THEN Render(t, c.reply.sum) ELSE OnSelectionChanged(t, c.reply.sum)
  IN IF c.op = "undo" THEN ReloadSelection(u, FALSE) ELSE u

(* _startPreparation after its call, and _cancelPreparation after its own. *)
PrepareAnswer(s, c) ==
  LET t == [s EXCEPT !.pending = @ \ {c.arg.gen}]
  IN IF c.arg.gen # s.gen THEN t
     ELSE IF c.reply.error THEN ApplyStatus([t EXCEPT !.failed = @ \cup {s.gen}], "failed")
     ELSE RefreshStatus(t)
CancelAnswer(s, c) == IF c.arg = s.gen THEN RefreshStatus(s) ELSE s

DeliverReply(c) ==
  /\ c.reply # NoReply /\ (c.op \in {"status", "page"} => c.also # NoReply)
  /\ LET s == [scr EXCEPT !.calls = @ \ {c}]
     IN scr' = CASE c.op = "status" -> StatusAnswer(s, c)
                 [] c.op = "newTarget" -> ApplyStatus(OnSelectionChanged(s, c.reply.sum), c.arg)
                 [] c.op = "selection" -> OnSelectionChanged(s, c.reply.sum)
                 [] c.op = "lifecycle" -> LifecycleAnswer(s, c)
                 [] c.op = "keys" -> KeysAnswer(s, c)
                 [] c.op = "page" -> PageAnswer(s, c)
                 [] c.op \in {"add", "remove"} -> ToggleAnswer(s, c)
                 [] c.op \in {"clear", "undo"} -> TrayAnswer(s, c)
                 [] c.op = "prepare" -> PrepareAnswer(s, c)
                 [] c.op = "cancel" -> CancelAnswer(s, c)
  /\ UNCHANGED <<back, events>>

Notice(e) ==
  /\ events' = events \ {e}
  /\ scr' = CASE e.name = "target" -> ReloadSelection(RefreshStatus(scr), FALSE)
              [] e.name = "catalog" -> IF e.gen < scr.gen THEN scr ELSE RefreshStatus(scr)
              [] e.name = "selection" -> OnSelectionChanged(scr, [rev |-> e.rev, total |-> e.total, token |-> e.token])
              [] e.name = "lifecycle" -> RefreshLifecycle(scr)
  /\ UNCHANGED back

-----------------------------------------------------------------------------
Operator == Show \/ Hide \/ Prepare \/ CancelPreparation \/ (\E n \in Names : Toggle(n)) \/ Clear \/ Undo

PickerNext ==
  \/ Operator \/ PollStatus
  \/ ChangeTarget \/ CatalogProgress \/ CatalogEnds \/ JobStartsOrEnds
  \/ \E c \in scr.calls : Look(c) \/ LookAlso(c) \/ Mutate(c) \/ Build(c) \/ StopBuild(c) \/ DeliverReply(c)
  \/ \E e \in events : Notice(e)

PickerSpec == PickerInit /\ [][PickerNext]_pvars

-----------------------------------------------------------------------------
(* Properties.                                                             *)

PickerTypeOK ==
  /\ back.tgen \in 0..MaxTargets /\ back.sel \subseteq Names /\ scr.selected \subseteq Names
  /\ scr.keysRev <= back.rev /\ scr.sumRev <= back.rev /\ scr.trayRev <= back.rev /\ scr.gen <= back.tgen

(* Once nothing is under way, the picker shows what the backend holds: the    *)
(* marked rows and the tray's entries are the selection, the count is its     *)
(* size, and the target, the catalogue's status and the edit lock are the      *)
(* backend's; however the optimistic marks, reloads, events, refused changes   *)
(* and target changes were interleaved.  (A failed start of a preparation is   *)
(* shown in place of the status until it is retried.)                         *)
Settled == events = {} /\ scr.calls = {} /\ ~scr.poll
QuietScreenIsTrue ==
  Settled =>
    /\ scr.selected = back.sel /\ scr.entries = back.sel /\ scr.total = Cardinality(back.sel)
    /\ scr.gen = back.tgen /\ (scr.gen \notin scr.failed => scr.status = back.state)
    /\ scr.life = IF back.busy THEN "busy" ELSE "free"
=============================================================================
