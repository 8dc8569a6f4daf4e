---------------------------- MODULE EgressRecord ----------------------------
(***************************************************************************)
(* The egress alert and its record (notify.py): the part of EventDetector  *)
(* that pages a fallback and its restore, the Notifier that hands the      *)
(* pages over, and the EgressRecordKeeper that has the record follow the   *)
(* pages, across crashes, power losses and clean restarts.                 *)
(*                                                                         *)
(* Four threads: the controller (observe, and the shutdown), the Notifier's*)
(* worker, the keeper, and the keeper's retry timers.  The operator is who *)
(* reads the pages.  Pages of other kinds appear only as what fills the    *)
(* worker's buffer; when the record is a copy of a page's time, that time  *)
(* is left out.                                                            *)
(***************************************************************************)
EXTENDS Integers, Sequences, FiniteSets, SequencesExt

CONSTANTS
  Modes,        \* the egress modes whose exit is checked
  LocalDirect,  \* the mode under which the check is skipped
  NoMode,       \* None
  Listed,       \* len(_RECORD_RETRY_DELAYS_S)
  StopOutlasts, \* assumption: the pages in hand at a shutdown are sent within
                \* the time Notifier.stop() waits
  MaxPages,     \* bound: pages made
  MaxMoves,     \* bound: changes of mode within runs
  MaxRefusals,  \* bound: operations the disk refuses
  MaxRuns       \* bound: runs

ASSUME ModeAssumption ==
  /\ LocalDirect \notin Modes /\ NoMode \notin Modes \cup {LocalDirect}
ASSUME BoundAssumption ==
  /\ Listed \in Nat \ {0} /\ StopOutlasts \in BOOLEAN
  /\ MaxPages \in Nat /\ MaxMoves \in Nat /\ MaxRefusals \in Nat /\ MaxRuns \in Nat

VARIABLES
  phase,    \* of the run: down, up, stop (Notifier.stop) or close (keeper.close)
  keeps,    \* keeps_egress_alert_record
  det,      \* EventDetector's egress fields
  buf,      \* Notifier._buf, its pages of kind "egress"
  held,     \* the last page the RateLimiter holds: its summary is that page's
  window,   \* the kind's min_interval_s is running
  hand,     \* the page the worker is sending
  ops,      \* EgressRecordKeeper._ops
  doing,    \* the operation whose I/O is under way
  timers,   \* _timers: operations waiting for their retry
  keeper,   \* the keeper's own fields
  record, synced, \* the record, and what a power loss would leave of it
  budget,   \* what is left of the bounds
  \* History: what the operator was last told, what the record was last told,
  \* and how the runs have gone (see Journal).
  told, news, journal

detection == <<det, keeps, phase>>
notifying == <<buf, held, window, hand>>
keeping   == <<ops, doing, timers, keeper, record, synced>>
vars == <<detection, notifying, keeping, budget, told, news, journal>>

NoPage == [mode |-> NoMode, gen |-> -1]
NoGen  == -1
Selectable == Modes \cup {LocalDirect}

\* A page names its mode, a restore none, and the generation it was made under.
Page == [mode : Modes \cup {NoMode}, gen : Nat]

\* _RecordOp
Op == [do : {"write", "refresh", "remove", "mark"},
       mode : Modes \cup {NoMode}, gen : Nat \cup {NoGen}, seq : Nat, tries : 0 .. Listed]
NoOp == [do |-> "none", mode |-> NoMode, gen |-> NoGen, seq |-> 0, tries |-> 0]

\* A record's mark is of this boot or of an earlier one.
Record   == [mode : Modes \cup {NoMode}, mark : {"none", "boot", "earlier"}]
NoRecord == [mode |-> NoMode, mark |-> "none"]

Keeper == [seq : Nat, last : Nat, settled : Modes \cup {NoMode}, unreliable : BOOLEAN]

\* wrote: an operation of this run completed.  refused: the disk refused one.
\* lapsed: since a run of this boot completed none, no page and no end has been
\* recorded.  graceful: the last run closed in good time, on a disk that worked,
\* with a trusted alert that the operator and, in that run, the record were told.
Journal == [wrote : BOOLEAN, refused : BOOLEAN, lapsed : BOOLEAN, graceful : BOOLEAN]

TypeOK ==
  /\ phase \in {"down", "up", "stop", "close"} /\ keeps \in BOOLEAN
  /\ det \in [alert : Modes \cup {NoMode}, adopted : BOOLEAN, distrusted : BOOLEAN,
              gen : Nat, selected : Selectable \cup {NoMode}, skipped : BOOLEAN]
  /\ buf \in Seq(Page)
  /\ held \in Page \cup {NoPage} /\ hand \in Page \cup {NoPage} /\ window \in BOOLEAN
  /\ ops \in Seq(Op) /\ doing \in Op \cup {NoOp} /\ timers \subseteq Op
  /\ keeper \in Keeper /\ record \in Record /\ synced \in Record
  /\ budget \in [pages : 0 .. MaxPages, moves : 0 .. MaxMoves,
                 refusals : 0 .. MaxRefusals, runs : 0 .. MaxRuns]
  /\ told \in Modes \cup {NoMode} /\ news \in Modes \cup {NoMode} /\ journal \in Journal
  \* An alert stands for the selected mode, and only an adopted one is doubted.
  /\ det.alert # NoMode => det.alert = det.selected
  /\ det.adopted => det.alert # NoMode /\ ~det.distrusted
  /\ keeper.settled # NoMode => doing = NoOp \/ doing.do = "mark"

-----------------------------------------------------------------------------
(* A run, from nothing in memory.                                          *)

NewDetector == [alert |-> NoMode, adopted |-> FALSE, distrusted |-> FALSE, gen |-> 0,
                selected |-> NoMode, skipped |-> FALSE]
NewKeeper   == [seq |-> 0, last |-> 0, settled |-> NoMode, unreliable |-> FALSE]

Init ==
  /\ phase = "down" /\ keeps = TRUE /\ det = NewDetector
  /\ buf = <<>> /\ held = NoPage /\ window = FALSE
  /\ hand = NoPage
  /\ ops = <<>> /\ doing = NoOp /\ timers = {} /\ keeper = NewKeeper
  /\ record = NoRecord /\ synced = NoRecord
  /\ budget = [pages |-> MaxPages, moves |-> MaxMoves, refusals |-> MaxRefusals,
               runs |-> MaxRuns]
  /\ told = NoMode /\ news = NoMode
  /\ journal = [wrote |-> FALSE, refused |-> FALSE, lapsed |-> FALSE, graceful |-> FALSE]

Spend(what) == budget[what] > 0 /\ budget' = [budget EXCEPT ![what] = @ - 1]

\* _queue, of an operation on the keeper's queue q.
Queued(do, mode, gen) ==
  [do |-> do, mode |-> mode, gen |-> gen, seq |-> keeper.seq + 1, tries |-> 0]
QueueOp(do, mode, gen) ==
  /\ ops' = Append(ops, Queued(do, mode, gen))
  /\ keeper' = [keeper EXCEPT !.seq = @ + 1]

\* main of a run that cannot keep the record: end_saved_egress_alert queues its
\* removal on a keeper of its own.
StartWithoutRecord ==
  /\ phase = "down" /\ Spend("runs")
  /\ phase' = "up" /\ keeps' = FALSE
  /\ QueueOp("remove", NoMode, NoGen)
  /\ news' = NoMode
  /\ journal' = [journal EXCEPT !.wrote = FALSE, !.refused = FALSE, !.graceful = FALSE]
  /\ UNCHANGED <<det, notifying, doing, timers, record, synced, told>>

\* The pages of such a run leave no trace but what the operator reads.
PageWithoutRecord ==
  /\ phase = "up" /\ ~keeps /\ told' \in Modes \cup {NoMode}
  /\ UNCHANGED <<detection, notifying, keeping, budget, news, journal>>

\* The statuses the exit check has under a selected mode.
StatusesOf(mode) ==
  IF mode = LocalDirect THEN {"checking", "skipped"} ELSE {"checking", "match", "mismatch"}

\* _end_egress_alert: the generation moves on before the removal is queued.
Ended(d) == [d EXCEPT !.gen = @ + 1, !.alert = NoMode, !.adopted = FALSE,
                      !.distrusted = FALSE]

\* _adopt_egress_alert: a mark of this boot alone is trusted.
Adopted(d, rec) ==
  LET trusted == rec.mark = "boot"
  IN  [d EXCEPT !.gen = @ + 1, !.alert = rec.mode,
                !.adopted = trusted, !.distrusted = ~trusted]

\* The first observation of a run that keeps the record: _seed, _seed_egress.
\* A record that cannot be read counts as absent.
Seed ==
  /\ phase = "down" /\ budget.runs > 0
  /\ phase' = "up" /\ keeps' = TRUE
  /\ \E mode \in Selectable, readable \in BOOLEAN : \E status \in StatusesOf(mode) :
       LET found == IF readable THEN record ELSE NoRecord
           fresh == [NewDetector EXCEPT !.selected = mode, !.skipped = status = "skipped"]
       IN  /\ CASE status = "skipped" \/ found.mode \notin {NoMode, mode} ->
                     /\ det' = Ended(fresh)
                     /\ QueueOp("remove", NoMode, NoGen) /\ news' = NoMode
                [] status # "skipped" /\ found.mode = mode ->
                     /\ det' = Adopted(fresh, found) /\ UNCHANGED news
                     /\ IF det'.adopted THEN QueueOp("refresh", mode, det'.gen)
                                        ELSE UNCHANGED <<ops, keeper>>
                [] OTHER -> det' = fresh /\ UNCHANGED <<ops, keeper, news>>
           /\ told' = IF told = mode THEN told ELSE NoMode
           /\ readable \/ budget.refusals > 0
           /\ budget' = [budget EXCEPT !.runs = @ - 1,
                                       !.refusals = IF readable THEN @ ELSE @ - 1]
           /\ journal' = [journal EXCEPT !.wrote = FALSE, !.refused = ~readable,
                                         !.graceful = FALSE]
  /\ UNCHANGED <<notifying, doing, timers, record, synced>>

-----------------------------------------------------------------------------
(* observe(): _egress_events of one tick.                                  *)

\* Faulty variant: an alert that is doubted still counts as adopted.
DoubtedAdopted(d) ==
  IF d.adopted /\ keeper.unreliable THEN [d EXCEPT !.distrusted = TRUE] ELSE d

\* _distrust_if_unwritable
Doubted(d) ==
  IF d.adopted /\ keeper.unreliable THEN [d EXCEPT !.adopted = FALSE, !.distrusted = TRUE]
                                    ELSE d

\* A change of the selected mode, or the first `skipped`.
SilentEnd(d, mode, status) ==
  mode # d.selected \/ (status = "skipped" /\ ~d.skipped)

\* _raise_egress_alert and _restore_egress_alert.
PageMade(d, mode) ==
  [d EXCEPT !.alert = mode, !.adopted = FALSE, !.distrusted = FALSE]

Observe ==
  /\ phase = "up" /\ keeps
  /\ \E mode \in Selectable : \E status \in StatusesOf(mode) :
       LET d0    == Doubted(det)
           ends  == SilentEnd(d0, mode, status)
           d1    == [IF ends THEN Ended(d0) ELSE d0
                       EXCEPT !.selected = mode, !.skipped = status = "skipped"]
           falls    == status = "mismatch" /\ (d1.alert = NoMode \/ d1.distrusted)
           restores == status = "match" /\ d1.alert # NoMode
           about    == IF falls THEN mode ELSE NoMode
       IN  /\ det' = IF falls \/ restores THEN PageMade(d1, about) ELSE d1
           /\ buf' = IF falls \/ restores
                     THEN Append(buf, [mode |-> about, gen |-> d1.gen]) ELSE buf
           /\ IF ends THEN /\ QueueOp("remove", NoMode, NoGen)
                           /\ news' = NoMode /\ told' = NoMode
                      ELSE UNCHANGED <<ops, keeper, news, told>>
           /\ budget' = [budget EXCEPT !.pages = IF falls \/ restores THEN @ - 1 ELSE @,
                                       !.moves = IF ends THEN @ - 1 ELSE @]
           /\ budget'.pages >= 0 /\ budget'.moves >= 0
  /\ UNCHANGED <<phase, keeps, held, window, hand, doing, timers, record,
                 synced, journal>>

-----------------------------------------------------------------------------
(* The Notifier's worker, and its RateLimiter.                             *)

Stopping == phase \in {"stop", "close"}

\* admit: held with those of its kind that are held, even past the window.
Admits == held = NoPage /\ ~window

Sending(page) == hand' = page /\ window' = TRUE

\* The next page of the buffer, which the worker takes whole.
WorkerAdmits ==
  /\ phase # "down" /\ hand = NoPage /\ buf # <<>> /\ buf' = Tail(buf)
  /\ IF Admits THEN Sending(Head(buf)) /\ UNCHANGED held
               ELSE held' = Head(buf) /\ UNCHANGED <<hand, window>>
  /\ UNCHANGED <<detection, keeping, budget, told, news, journal>>

\* flush_due, and the flush_all of a shutdown, which waits for no window.
WorkerFlushes ==
  /\ phase # "down" /\ hand = NoPage /\ held # NoPage
  /\ ~window \/ (Stopping /\ buf = <<>>)
  /\ Sending(held) /\ held' = NoPage
  /\ UNCHANGED <<detection, buf, keeping, budget, told, news, journal>>

\* The worker of a run that stops has nothing left to send, and ends.
WorkerDone == hand = NoPage /\ buf = <<>> /\ held = NoPage

\* What the operator reads of a page counts until a change without a page.
Read(page) == IF page.gen = det.gen THEN page.mode ELSE told

\* Faulty variant: a page's operation is not tied to its generation.
OnSentUntied(page) ==
  IF phase = "close" THEN UNCHANGED <<ops, keeper, news>>
  ELSE /\ QueueOp(IF page.mode = NoMode THEN "remove" ELSE "write", page.mode, NoGen)
       /\ news' = IF page.gen = det.gen THEN page.mode ELSE news

\* _fallback_page_sent, _restore_page_sent.  What is queued once the keeper is
\* closing is behind its exit, and never runs.
OnSent(page) ==
  IF phase = "close" THEN UNCHANGED <<ops, keeper, news>>
  ELSE /\ QueueOp(IF page.mode = NoMode THEN "remove" ELSE "write", page.mode, page.gen)
       /\ news' = IF page.gen = det.gen THEN page.mode ELSE news

\* The page's on_sent only queues, so it is one step with the exit 0.
SpoolAccepts ==
  /\ hand # NoPage /\ hand' = NoPage
  /\ told' = Read(hand) /\ OnSent(hand)
  /\ UNCHANGED <<detection, buf, held, window, doing, timers, record, synced, budget, journal>>

SpoolRefuses ==
  /\ hand # NoPage /\ hand' = NoPage
  /\ UNCHANGED <<detection, buf, held, window, keeping, budget, told, news, journal>>

\* Pages of any kind fill the buffer while the worker is busy: the oldest of
\* those it has not taken goes.
Overflow ==
  /\ hand # NoPage /\ phase = "up"
  /\ \E i \in DOMAIN buf : buf' = RemoveAt(buf, i)
  /\ UNCHANGED <<detection, held, window, hand, keeping, budget, told, news, journal>>

WindowEnds ==
  /\ window /\ phase # "down" /\ window' = FALSE
  /\ UNCHANGED <<detection, buf, held, hand, keeping, budget, told, news,
                 journal>>

-----------------------------------------------------------------------------
(* The keeper.                                                             *)

\* Faulty variant: a record is marked whoever wrote it.
RunsAnyMark(op) ==
  /\ op.seq >= keeper.last
  /\ op.gen \in {NoGen, det.gen}
  /\ op.do = "mark" => record.mode = op.mode

\* What _run, _apply and _mark ask at an operation's turn.
Runs(op) ==
  /\ op.seq >= keeper.last
  /\ op.gen \in {NoGen, det.gen}
  /\ op.do = "mark" => keeper.settled = op.mode /\ record.mode = op.mode

\* Its turn: it is dropped, or its I/O begins, and unless it is the mark, the
\* record this run wrote is forgotten first.
KeeperTakes ==
  /\ phase # "down" /\ doing = NoOp /\ ops # <<>> /\ ops' = Tail(ops)
  /\ LET op == Head(ops)
     IN IF Runs(op)
        THEN /\ doing' = op
             /\ keeper' = IF op.do = "mark" THEN keeper
                          ELSE [keeper EXCEPT !.settled = NoMode]
        ELSE UNCHANGED <<keeper, doing>>
  /\ UNCHANGED <<detection, notifying, timers, record, synced, budget, told, news, journal>>

\* The record an operation leaves.
Result(op) == [mode |-> op.mode, mark |-> IF op.do = "mark" THEN "boot" ELSE "none"]

KeeperDoes ==
  /\ phase # "down" /\ doing # NoOp /\ doing' = NoOp
  /\ record' = Result(doing) /\ synced' = Result(doing)
  /\ keeper' = [keeper EXCEPT !.last = doing.seq,
                              !.settled = IF doing.do = "mark" THEN @ ELSE doing.mode]
  /\ journal' = [journal EXCEPT !.wrote = TRUE,
                                !.lapsed = @ /\ doing.do \in {"refresh", "mark"}]
  /\ UNCHANGED <<detection, notifying, ops, timers, budget, told, news>>

\* Faulty variant: a refused operation is not tried again.
RetriesNever(op) == {}

\* _failed: it is tried again as long as the run lasts.
Retries(op) ==
  IF phase = "close" THEN {}
  ELSE {[op EXCEPT !.tries = IF @ < Listed THEN @ + 1 ELSE @]}

\* An OSError, before the change is visible or after it.
DiskRefuses ==
  /\ phase # "down" /\ doing # NoOp /\ Spend("refusals") /\ doing' = NoOp
  /\ record' \in {record, Result(doing)} /\ UNCHANGED synced
  /\ timers' = timers \cup Retries(doing)
  /\ keeper' = [keeper EXCEPT !.last = doing.seq,
                  !.unreliable = @ \/ (doing.do = "refresh" /\ doing.tries + 1 >= Listed)]
  /\ journal' = [journal EXCEPT !.refused = TRUE]
  /\ UNCHANGED <<detection, notifying, ops, told, news>>

\* _requeue
RetryDue ==
  /\ phase \in {"up", "stop"}
  /\ \E op \in timers : ops' = Append(ops, op) /\ timers' = timers \ {op}
  /\ UNCHANGED <<detection, notifying, doing, keeper, record, synced, budget, told, news,
                 journal>>

-----------------------------------------------------------------------------
(* The end of a run.                                                       *)

\* The loop is left; Notifier.stop() waits.
Stop ==
  /\ phase = "up" /\ phase' = "stop"
  /\ UNCHANGED <<det, keeps, notifying, keeping, budget, told, news, journal>>

\* The retries that wait, in the order in which they were first queued.
InOrder(waiting) ==
  {q \in [1 .. Cardinality(waiting) -> waiting] :
     /\ Range(q) = waiting
     /\ \A i, j \in DOMAIN q : i < j => q[i].seq < q[j].seq}

\* The operations close() queues: each pending retry, the mark; then it ends.
Closing(pending, mark) == pending \o mark

\* Faulty variant: only an alert taken over from the run before is marked.
MarkWorthyAdopted(d) == d.adopted

\* close(): a trusted alert's record is to be marked.
MarkWorthy(d) == d.alert # NoMode /\ ~d.distrusted

\* Notifier.stop() has returned; EventDetector.close and EgressRecordKeeper.close.
Close ==
  /\ phase = "stop" /\ (StopOutlasts => WorkerDone)
  /\ phase' = "close" /\ det' = Doubted(det)
  /\ LET marks == MarkWorthy(det') /\ keeps
         mark  == IF marks THEN <<Queued("mark", det'.alert, NoGen)>> ELSE <<>>
     IN  /\ \E pending \in InOrder(timers) : ops' = ops \o Closing(pending, mark)
         /\ keeper' = [keeper EXCEPT !.seq = IF marks THEN @ + 1 ELSE @]
  /\ timers' = {}
  /\ UNCHANGED <<keeps, notifying, doing, record, synced, budget, told, news, journal>>

\* The process ends: nothing of it is left but the disk, and a page that
\* spool-notify was given may yet be taken.
EndWith(rec, kept) ==
  /\ phase' = "down" /\ det' = NewDetector /\ keeps' = TRUE
  /\ buf' = <<>> /\ held' = NoPage /\ window' = FALSE
  /\ hand' = NoPage
  /\ ops' = <<>> /\ doing' = NoOp /\ timers' = {} /\ keeper' = NewKeeper
  /\ record' = rec /\ synced' = kept /\ news' = rec.mode
  /\ told' \in {told} \cup (IF hand # NoPage THEN {Read(hand)} ELSE {})
  /\ UNCHANGED budget

\* What the I/O under way may have come to.
Left == {record} \cup (IF doing = NoOp THEN {} ELSE {Result(doing)})

AfterRun(graceful, rebooted) ==
  [journal EXCEPT !.graceful = graceful, !.lapsed = ~rebooted /\ (@ \/ ~journal.wrote)]

\* The way out of main, and of a process killed: the keeper is given its time
\* in the first, and may not be through in either.
Exit ==
  /\ phase \in {"up", "stop", "close"}
  /\ \E rec \in Left : EndWith(rec, synced)
  /\ journal' = AfterRun(/\ ops = <<>> /\ doing = NoOp /\ WorkerDone /\ ~journal.refused
                         /\ phase = "close" /\ det.alert # NoMode /\ ~det.distrusted
                         /\ journal.wrote /\ told = det.alert /\ news = told, FALSE)

\* A boot later, its marks are of an earlier one.
Aged(rec) == IF rec.mark = "boot" THEN [rec EXCEPT !.mark = "earlier"] ELSE rec

\* A power loss may take back what was not synced.
PowerLoss ==
  /\ \E rec \in Left \cup {synced} : EndWith(Aged(rec), Aged(rec))
  /\ journal' = AfterRun(FALSE, TRUE)

Next == \/ Seed \/ StartWithoutRecord \/ PageWithoutRecord \/ Observe
        \/ WorkerAdmits \/ WorkerFlushes \/ SpoolAccepts \/ SpoolRefuses
        \/ Overflow \/ WindowEnds
        \/ KeeperTakes \/ KeeperDoes \/ DiskRefuses \/ RetryDue
        \/ Stop \/ Close \/ Exit \/ PowerLoss

Spec == Init /\ [][Next]_vars

FairSpec == Spec /\ WF_vars(KeeperTakes) /\ WF_vars(KeeperDoes) /\ WF_vars(RetryDue)

-----------------------------------------------------------------------------
(* Properties.                                                             *)

\* The operations that still count: not out of date, and no later one has run.
Changes(op) == op.do \in {"write", "refresh", "remove"}
Counts(op)  == op.seq >= keeper.last /\ op.gen \in {NoGen, det.gen}
Outstanding ==
  {op \in Range(ops) \cup timers : Changes(op) /\ Counts(op)}
    \cup {op \in {doing} : Changes(op)}

\* "What holds once the queue has run": the record is a register that is told
\* the pages spool-notify accepted and the changes made without a page, in
\* their order (EventDetector, the comment on the egress alert record).
Register == INSTANCE RecordRegister WITH
  Values <- Modes, Nothing <- NoMode, news <- news,
  owed <- {op.mode : op \in Outstanding}, shown <- record.mode, lasting <- synced.mode,
  open <- phase \in {"up", "stop"}
KeepsRegister == Register!Spec

\* "the mark certifies that the last run to write the record closed cleanly with
\* that alert standing": a record the next start would trust names the fallback
\* the operator was last told of.  Excepted is what the code accepts, a run that
\* could write nothing (EgressRecordKeeper's trust rule, _mark, close).
TrustedMeansTold ==
  phase = "down" /\ record.mark = "boot" /\ ~journal.lapsed => told = record.mode

\* "a fallback paged before the restart is not paged again": a clean restart on a
\* disk that works trusts the record of the alert that stood (close, _seed_egress).
RestartStaysSilent ==
  [][phase = "down" /\ phase' = "up" /\ keeps' /\ journal.graceful /\ ~journal'.refused
       /\ det'.selected = told => det'.adopted]_vars

\* Whatever the disk refused, the record catches up with the pages while the run
\* lasts and the disk takes operations again (_failed, _requeue, _run).
CatchesUp == news # record.mode ~> news = record.mode \/ phase \in {"down", "close"}
=============================================================================
