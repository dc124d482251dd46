---------------------------- MODULE BuildScreen ----------------------------
(***************************************************************************)
(* From the application's event ring (gui/internal/app) to the build       *)
(* screen (gui/frontend/src/screens/build.js): the notifications carry     *)
(* nothing the screen uses, it reads the status and the ring, page by      *)
(* page, and must not mix up runs or count an event twice.                 *)
(*                                                                         *)
(* Every call is asynchronous: sent, answered by the application at some   *)
(* time, and the answer handled by the screen at a later one.              *)
(***************************************************************************)
EXTENDS Naturals, Sequences, FiniteSets, SequencesExt

CONSTANTS RingLimit,  \* BuildLogRing
          PageMax,    \* BuildLogPageMax, LOG_PAGE
          MaxShown,   \* bound: builds started
          MaxEvents   \* bound: events of one build

(* The ring and a page of it hold at least an event. *)
ASSUME RingAssumption == RingLimit \in Nat \ {0} /\ PageMax \in Nat \ {0}

VARIABLES
  builds,  \* buildJob and buildState: gen, running, finished
  ring,    \* eventRing: items, total, dropped
  bus,     \* notifications on their way to the screen
  screen,  \* the build screen: run identity, flags, accumulator
  calls    \* its calls in flight: start, status, log

svars == <<builds, ring, bus, screen, calls>>

NewAcc == [lastSeq |-> 0, folded |-> <<>>]
NoStatus == [pc |-> "none", run |-> 0, running |-> FALSE, finished |-> FALSE, total |-> 0]
NoPage == [pc |-> "none", since |-> 0, items |-> <<>>]

ScreenTypeOK ==
  /\ builds \in [gen : 0..MaxShown, running : BOOLEAN, finished : BOOLEAN]
  /\ Len(ring.items) <= RingLimit /\ ring.total = ring.dropped + Len(ring.items)
  /\ bus \subseteq {"life", "event", "progress"}
  /\ screen.run \in 0..MaxShown

ScreenInit ==
  /\ builds = [gen |-> 0, running |-> FALSE, finished |-> FALSE]
  /\ ring = [items |-> <<>>, total |-> 0, dropped |-> 0]
  /\ bus = {}
  /\ screen = [run |-> 0, running |-> FALSE, finished |-> FALSE, starting |-> FALSE,
               again |-> FALSE, acc |-> NewAcc]
  /\ calls = [start |-> "none", status |-> NoStatus, log |-> NoPage]

-----------------------------------------------------------------------------
(* The ring.                                                               *)

RingReset == [items |-> <<>>, total |-> 0, dropped |-> 0]

(* eventRing.append numbers the event and drops the oldest past the limit. *)
RingAppend(r, gen) ==
  LET items == Append(r.items, [seq |-> r.total + 1, gen |-> gen])
      drop  == IF Len(items) > RingLimit THEN Len(items) - RingLimit ELSE 0
  IN [items |-> SubSeq(items, drop + 1, Len(items)), total |-> r.total + 1,
      dropped |-> r.dropped + drop]

(* eventRing.page: the events after since, at most a page of them; the ring    *)
(* holds its events in the order of their numbers.                            *)
RingPage(r, since) ==
  LET later == {i \in DOMAIN r.items : r.items[i].seq > since}
      first == CHOOSE i \in later : \A j \in later : i <= j
      most  == first + PageMax - 1
  IN IF later = {} THEN <<>> ELSE SubSeq(r.items, first, IF most < Len(r.items) THEN most ELSE Len(r.items))

(* recordBuildEvent: the event of the running build, its progress perhaps changed. *)
RecordBuildEvent ==
  /\ builds.running /\ ring.total < MaxEvents
  /\ ring' = RingAppend(ring, builds.gen)
  /\ \E changed \in SUBSET {"progress"} : bus' = bus \cup {"event"} \cup changed
  /\ UNCHANGED <<builds, screen, calls>>

(* The build returns, for whatever reason. *)
BuildOver ==
  /\ builds.running
  /\ builds' = [builds EXCEPT !.running = FALSE, !.finished = TRUE]
  /\ bus' = bus \cup {"life"}
  /\ UNCHANGED <<ring, screen, calls>>

-----------------------------------------------------------------------------
(* The screen.  A reply that is not for the latest request of its kind is    *)
(* ignored by its sequence number, so only the latest is kept.               *)

Sync(c) == [c EXCEPT !.status = [NoStatus EXCEPT !.pc = "sent"]]

(* rehydrate: one at a time, another one is remembered. *)
Rehydrating == calls.log.pc # "none"
Rehydrate(c, since) == [c EXCEPT !.log = [NoPage EXCEPT !.pc = "sent", !.since = since]]

(* startBuild: forget the old run, then ask for the new one. *)
ScreenStart ==
  /\ ~screen.starting /\ ~screen.running /\ calls.start = "none" /\ builds.gen < MaxShown
  /\ screen' = [screen EXCEPT !.run = 0, !.running = TRUE, !.finished = FALSE, !.starting = TRUE,
                              !.again = FALSE, !.acc = NewAcc]
  /\ calls' = [calls EXCEPT !.start = "sent", !.log = NoPage, !.status = NoStatus]
  /\ UNCHANGED <<builds, ring, bus>>

(* App.StartBuild: refused while a build runs, else a fresh ring and run. *)
AppStartBuild ==
  /\ calls.start = "sent"
  /\ IF builds.running
     THEN /\ calls' = [calls EXCEPT !.start = "refused"]
          /\ UNCHANGED <<builds, ring, bus>>
     ELSE /\ calls' = [calls EXCEPT !.start = "ok"]
          /\ builds' = [gen |-> builds.gen + 1, running |-> TRUE, finished |-> FALSE]
          /\ ring' = RingReset
          /\ bus' = bus \cup {"life"}
  /\ UNCHANGED screen

ScreenStarted ==
  /\ calls.start \in {"ok", "refused"}
  /\ IF calls.start = "ok"
     THEN /\ screen' = [screen EXCEPT !.starting = FALSE]
          /\ calls' = Sync([calls EXCEPT !.start = "none"])
     ELSE /\ screen' = [screen EXCEPT !.starting = FALSE, !.running = FALSE, !.finished = FALSE]
          /\ calls' = [calls EXCEPT !.start = "none"]
  /\ UNCHANGED <<builds, ring, bus>>

(* show: the screen comes to the front. *)
ScreenShow ==
  /\ calls.status.pc = "none"
  /\ calls' = Sync(calls)
  /\ UNCHANGED <<builds, ring, bus, screen>>

(* onStarted and onFinished: drop the page that is coming and ask for the status. *)
OnLifecycle ==
  /\ "life" \in bus
  /\ bus' = bus \ {"life"}
  /\ calls' = Sync([calls EXCEPT !.log = NoPage])
  /\ screen' = [screen EXCEPT !.again = FALSE]
  /\ UNCHANGED <<builds, ring>>

(* onProgress *)
OnProgress ==
  /\ "progress" \in bus
  /\ bus' = bus \ {"progress"}
  /\ calls' = IF screen.running /\ ~screen.finished THEN Sync(calls) ELSE calls
  /\ UNCHANGED <<builds, ring, screen>>

(* onEvent: read on from the last event, unless the status is being read. *)
OnEvent ==
  /\ "event" \in bus
  /\ bus' = bus \ {"event"}
  /\ IF screen.finished \/ calls.status.pc # "none" THEN UNCHANGED <<screen, calls>>
     ELSE IF Rehydrating THEN screen' = [screen EXCEPT !.again = TRUE] /\ UNCHANGED calls
     ELSE calls' = Rehydrate(calls, screen.acc.lastSeq) /\ UNCHANGED screen
  /\ UNCHANGED <<builds, ring>>

(* App.BuildStatus and App.BuildLog answer. *)
AppBuildStatus ==
  /\ calls.status.pc = "sent"
  /\ calls' = [calls EXCEPT !.status = [pc |-> "answered", run |-> builds.gen, running |-> builds.running,
                                        finished |-> builds.finished, total |-> ring.total]]
  /\ UNCHANGED <<builds, ring, bus, screen>>

AppBuildLog ==
  /\ calls.log.pc = "sent"
  /\ calls' = [calls EXCEPT !.log = [@ EXCEPT !.pc = "answered", !.items = RingPage(ring, calls.log.since)]]
  /\ UNCHANGED <<builds, ring, bus, screen>>

\* Mutant of StatusArrives: a page of the run shown before is still taken.
StatusArrivesKeepsPage ==
  /\ calls.status.pc = "answered"
  /\ LET st    == calls.status
         reset == (st.running \/ st.finished) /\ st.run # screen.run
         acc   == IF reset THEN NewAcc ELSE screen.acc
         read  == (st.running \/ st.finished) /\ st.total > acc.lastSeq
         next  == [calls EXCEPT !.status = NoStatus]
     IN /\ screen' = [screen EXCEPT !.run = st.run, !.running = st.running, !.finished = st.finished,
                        !.acc = acc,
                        !.again = (~reset /\ screen.again) \/ (read /\ calls.log.pc # "none")]
        /\ calls' = IF read /\ calls.log.pc = "none" THEN Rehydrate(next, acc.lastSeq) ELSE next
  /\ UNCHANGED <<builds, ring, bus>>

(* syncFromStatus, the reply: another run than the one shown starts afresh, and *)
(* events the screen has not seen are read.                                     *)
StatusArrives ==
  /\ calls.status.pc = "answered"
  /\ LET st    == calls.status
         reset == (st.running \/ st.finished) /\ st.run # screen.run
         acc   == IF reset THEN NewAcc ELSE screen.acc
         log   == IF reset THEN NoPage ELSE calls.log
         read  == (st.running \/ st.finished) /\ st.total > acc.lastSeq
         next  == [calls EXCEPT !.status = NoStatus, !.log = log]
     IN /\ screen' = [screen EXCEPT !.run = st.run, !.running = st.running, !.finished = st.finished,
                        !.acc = acc,
                        !.again = (~reset /\ screen.again) \/ (read /\ log.pc # "none")]
        /\ calls' = IF read /\ log.pc = "none" THEN Rehydrate(next, acc.lastSeq) ELSE next
  /\ UNCHANGED <<builds, ring, bus>>

(* foldEvent: every event of the page goes into the accumulator. *)
Fold(acc, page) ==
  [lastSeq |-> IF page # <<>> /\ Last(page).seq > acc.lastSeq THEN Last(page).seq ELSE acc.lastSeq,
   folded |-> acc.folded \o page]

\* Mutant of PageArrives: only the first page is read.
PageArrivesOnce ==
  /\ calls.log.pc = "answered"
  /\ screen' = [screen EXCEPT !.acc = Fold(@, calls.log.items), !.again = FALSE]
  /\ calls' = [calls EXCEPT !.log = NoPage]
  /\ UNCHANGED <<builds, ring, bus>>

(* rehydrate, the reply: fold the page, ask for the next until one is empty. *)
PageArrives ==
  /\ calls.log.pc = "answered"
  /\ LET page == calls.log.items
         acc  == Fold(screen.acc, page)
     IN IF page # <<>>
        THEN /\ screen' = [screen EXCEPT !.acc = acc]
             /\ calls' = Rehydrate(calls, Last(page).seq)
        ELSE /\ screen' = [screen EXCEPT !.again = FALSE]
             /\ calls' = IF screen.again THEN Rehydrate(calls, acc.lastSeq)
                         ELSE [calls EXCEPT !.log = NoPage]
  /\ UNCHANGED <<builds, ring, bus>>

-----------------------------------------------------------------------------
Backend == AppStartBuild \/ AppBuildStatus \/ AppBuildLog
Screen  == ScreenStarted \/ OnLifecycle \/ OnProgress \/ OnEvent \/ StatusArrives \/ PageArrives

ScreenNext == RecordBuildEvent \/ BuildOver \/ Backend \/ Screen \/ ScreenStart \/ ScreenShow

(* Calls are answered and the browser's event loop runs on; builds owe nothing. *)
ScreenFairness ==
  /\ WF_svars(AppStartBuild) /\ WF_svars(AppBuildStatus) /\ WF_svars(AppBuildLog)
  /\ WF_svars(ScreenStarted) /\ WF_svars(OnLifecycle) /\ WF_svars(StatusArrives) /\ WF_svars(PageArrives)

ScreenSpec == ScreenInit /\ [][ScreenNext]_svars /\ ScreenFairness

-----------------------------------------------------------------------------
(* Properties.                                                             *)

(* The screen counts an event of the run it shows once, in order, and never   *)
(* one of another run, across restarts and late replies (rehydrate).          *)
ScreenShowsItsRun ==
  screen.run = builds.gen /\ screen.run # 0 =>
    LET f == screen.acc.folded
    IN /\ \A i \in DOMAIN f : f[i].gen = screen.run
       /\ \A i, j \in DOMAIN f : i < j => f[i].seq < f[j].seq

(* A screen that shows a build as running when it has ended comes to show its *)
(* end, with every event the ring still has, unless another build is started. *)
EndIsShown ==
  (builds.finished /\ screen.running /\ ~screen.starting) ~>
    \/ builds.running \/ screen.starting
    \/ screen.run = builds.gen /\ screen.finished /\ screen.acc.lastSeq = ring.total
=============================================================================
