------------------------- MODULE EgressRecordProofs -------------------------
(***************************************************************************)
(* Theorems about the egress alert record, for any modes, any number of    *)
(* runs, pages and refusals, and any order of the threads' steps.          *)
(***************************************************************************)
EXTENDS EgressRecord, TLAPS, FiniteSetTheorems

-----------------------------------------------------------------------------
(* The sequences that the model is built from.                             *)

\* Something put at a sequence's end.
LEMMA Appended ==
  ASSUME NEW S, NEW q \in Seq(S), NEW x \in S
  PROVE  /\ Append(q, x) \in Seq(S) /\ Len(Append(q, x)) = Len(q) + 1
         /\ Len(q) \in Nat /\ DOMAIN q = 1 .. Len(q)
         /\ DOMAIN Append(q, x) = 1 .. Len(q) + 1
         /\ \A i \in DOMAIN q : Append(q, x)[i] = q[i]
         /\ Append(q, x)[Len(q) + 1] = x
         /\ Range(Append(q, x)) = Range(q) \cup {x}
<1>1. /\ Append(q, x) \in Seq(S) /\ Len(Append(q, x)) = Len(q) + 1
      /\ Len(q) \in Nat /\ DOMAIN q = 1 .. Len(q)
      /\ DOMAIN Append(q, x) = 1 .. Len(q) + 1
      /\ \A i \in DOMAIN q : Append(q, x)[i] = q[i]
      /\ Append(q, x)[Len(q) + 1] = x
  OBVIOUS
<1>2. Range(Append(q, x)) = Range(q) \cup {x}
  BY <1>1 DEF Range
<1> QED BY <1>1, <1>2

\* The first of a sequence taken from it.
LEMMA Taken ==
  ASSUME NEW S, NEW q \in Seq(S), q # <<>>
  PROVE  /\ Head(q) \in S /\ Tail(q) \in Seq(S)
         /\ Len(q) \in Nat \ {0} /\ Len(Tail(q)) = Len(q) - 1
         /\ DOMAIN q = 1 .. Len(q) /\ DOMAIN Tail(q) = 1 .. Len(q) - 1
         /\ Head(q) = q[1] /\ \A i \in 1 .. Len(q) - 1 : Tail(q)[i] = q[i + 1]
         /\ Range(q) = {Head(q)} \cup Range(Tail(q))
<1>1. /\ Head(q) \in S /\ Tail(q) \in Seq(S)
      /\ Len(q) \in Nat \ {0} /\ Len(Tail(q)) = Len(q) - 1
      /\ DOMAIN q = 1 .. Len(q) /\ DOMAIN Tail(q) = 1 .. Len(q) - 1
      /\ Head(q) = q[1] /\ \A i \in 1 .. Len(q) - 1 : Tail(q)[i] = q[i + 1]
  OBVIOUS
<1>2. \A i \in DOMAIN q : i = 1 \/ (i - 1 \in DOMAIN Tail(q) /\ Tail(q)[i - 1] = q[i])
  BY <1>1
<1>3. \A i \in DOMAIN Tail(q) : i + 1 \in DOMAIN q /\ Tail(q)[i] = q[i + 1]
  BY <1>1
<1>4. 1 \in DOMAIN q
  BY <1>1
<1>5. Range(q) \subseteq {Head(q)} \cup Range(Tail(q))
  BY <1>1, <1>2 DEF Range
<1>6. {Head(q)} \cup Range(Tail(q)) \subseteq Range(q)
  BY <1>1, <1>3, <1>4 DEF Range
<1> QED BY <1>1, <1>5, <1>6

\* One sequence behind another.
LEMMA Joined ==
  ASSUME NEW S, NEW q \in Seq(S), NEW r \in Seq(S)
  PROVE  /\ q \o r \in Seq(S) /\ Len(q) \in Nat /\ Len(r) \in Nat
         /\ Len(q \o r) = Len(q) + Len(r)
         /\ DOMAIN q = 1 .. Len(q) /\ DOMAIN r = 1 .. Len(r)
         /\ DOMAIN (q \o r) = 1 .. Len(q) + Len(r)
         /\ \A i \in DOMAIN q : (q \o r)[i] = q[i]
         /\ \A i \in DOMAIN r : (q \o r)[Len(q) + i] = r[i]
         /\ Range(q \o r) = Range(q) \cup Range(r)
<1>1. /\ q \o r \in Seq(S) /\ Len(q) \in Nat /\ Len(r) \in Nat
      /\ Len(q \o r) = Len(q) + Len(r)
      /\ DOMAIN q = 1 .. Len(q) /\ DOMAIN r = 1 .. Len(r)
      /\ DOMAIN (q \o r) = 1 .. Len(q) + Len(r)
      /\ \A i \in DOMAIN q : (q \o r)[i] = q[i]
      /\ \A i \in DOMAIN r : (q \o r)[Len(q) + i] = r[i]
  OBVIOUS
<1>2. \A i \in DOMAIN (q \o r) :
        i \in DOMAIN q \/ (i - Len(q) \in DOMAIN r /\ (q \o r)[i] = r[i - Len(q)])
  BY <1>1
<1>3. /\ \A i \in DOMAIN q : i \in DOMAIN (q \o r)
      /\ \A i \in DOMAIN r : Len(q) + i \in DOMAIN (q \o r)
  BY <1>1
<1>4. Range(q \o r) \subseteq Range(q) \cup Range(r)
  BY <1>1, <1>2 DEF Range
<1>5. Range(q) \cup Range(r) \subseteq Range(q \o r)
  BY <1>1, <1>3 DEF Range
<1> QED BY <1>1, <1>4, <1>5

\* One of a sequence lost.
LEMMA Lost ==
  ASSUME NEW S, NEW q \in Seq(S), NEW i \in DOMAIN q
  PROVE  RemoveAt(q, i) \in Seq(S) /\ Range(RemoveAt(q, i)) \subseteq Range(q)
<1> DEFINE a == SubSeq(q, 1, i - 1)  b == SubSeq(q, i + 1, Len(q))
<1>1. /\ Len(q) \in Nat /\ DOMAIN q = 1 .. Len(q) /\ i \in 1 .. Len(q)
  OBVIOUS
<1>2. a \in Seq(S) /\ b \in Seq(S)
  BY <1>1
<1>3. Range(a) \subseteq Range(q)
  <2>1. DOMAIN a = 1 .. i - 1 /\ \A j \in 1 .. i - 1 : a[j] = q[j]
    BY <1>1
  <2>2. \A j \in 1 .. i - 1 : j \in DOMAIN q
    BY <1>1
  <2> QED BY <2>1, <2>2 DEF Range
<1>4. Range(b) \subseteq Range(q)
  <2>1. DOMAIN b = 1 .. Len(q) - i /\ \A j \in 1 .. Len(q) - i : b[j] = q[j + i]
    BY <1>1
  <2>2. \A j \in 1 .. Len(q) - i : j + i \in DOMAIN q
    BY <1>1
  <2> QED BY <2>1, <2>2 DEF Range
<1>5. RemoveAt(q, i) = a \o b
  BY DEF RemoveAt
<1> HIDE DEF a, b
<1>6. a \o b \in Seq(S) /\ Range(a \o b) = Range(a) \cup Range(b)
  BY <1>2, Joined
<1> QED BY <1>3, <1>4, <1>5, <1>6

\* A set's elements in a row.
LEMMA Ordered ==
  ASSUME NEW waiting, IsFiniteSet(waiting), NEW q \in InOrder(waiting)
  PROVE  q \in Seq(waiting) /\ Range(q) = waiting
<1>1. Cardinality(waiting) \in Nat
  BY FS_CardinalityType
<1> QED BY <1>1 DEF InOrder

-----------------------------------------------------------------------------
(* Types.                                                                  *)

Detector == [alert : Modes \cup {NoMode}, adopted : BOOLEAN, distrusted : BOOLEAN,
             gen : Nat, selected : Selectable \cup {NoMode}, skipped : BOOLEAN]

\* The detector's fields, and what they say of each other.
DetSound(d) ==
  /\ d \in Detector
  /\ d.alert # NoMode => d.alert = d.selected
  /\ d.adopted => d.alert # NoMode /\ ~d.distrusted

PhaseTyped == phase \in {"down", "up", "stop", "close"} /\ keeps \in BOOLEAN
PagesTyped ==
  /\ buf \in Seq(Page)
  /\ held \in Page \cup {NoPage} /\ hand \in Page \cup {NoPage} /\ window \in BOOLEAN
QueueTyped == ops \in Seq(Op) /\ keeper \in Keeper
WorkTyped ==
  /\ doing \in Op \cup {NoOp} /\ timers \subseteq Op
  /\ record \in Record /\ synced \in Record
SettledTyped == keeper.settled # NoMode => doing = NoOp \/ doing.do = "mark"
BudgetTyped ==
  budget \in [pages : 0 .. MaxPages, moves : 0 .. MaxMoves,
              refusals : 0 .. MaxRefusals, runs : 0 .. MaxRuns]
HistoryTyped == told \in Modes \cup {NoMode} /\ news \in Modes \cup {NoMode} /\ journal \in Journal

\* The type in its parts, in this state and in the next.
LEMMA TypeParts ==
  /\ TypeOK <=> (PhaseTyped /\ DetSound(det) /\ PagesTyped /\ QueueTyped /\ WorkTyped
                   /\ SettledTyped /\ BudgetTyped /\ HistoryTyped)
  /\ TypeOK' <=> (PhaseTyped' /\ DetSound(det)' /\ PagesTyped' /\ QueueTyped' /\ WorkTyped'
                   /\ SettledTyped' /\ BudgetTyped' /\ HistoryTyped')
BY DEF TypeOK, PhaseTyped, DetSound, Detector, PagesTyped, QueueTyped, WorkTyped, SettledTyped,
       BudgetTyped, HistoryTyped

\* What is in no set it could be taken for.
LEMMA Nothings ==
  /\ NoPage \notin Page /\ NoOp \notin Op /\ NoOp.do # "mark" /\ NoOp.seq = 0
  /\ NoMode \notin Modes /\ LocalDirect \notin Modes /\ NoMode \notin Selectable
  /\ NoPage.mode = NoMode /\ NoOp.mode = NoMode
BY ModeAssumption DEF NoPage, Page, NoOp, Op, Selectable

\* What a change of the detector leaves is as sound as what it was.
LEMMA DetectorChanges ==
  ASSUME NEW d, DetSound(d)
  PROVE  /\ DetSound(Doubted(d)) /\ Doubted(d).selected = d.selected
         /\ Doubted(d).gen = d.gen /\ Doubted(d).alert = d.alert
         /\ DetSound(Ended(d)) /\ Ended(d).alert = NoMode /\ Ended(d).gen = d.gen + 1
         /\ \A mode \in Selectable, skipped \in BOOLEAN :
              LET e == [d EXCEPT !.selected = mode, !.skipped = skipped]
              IN  /\ d.selected = mode \/ d.alert = NoMode => DetSound(e)
                  /\ e.gen = d.gen /\ e.selected = mode /\ e.alert = d.alert
         /\ \A mode \in Modes \cup {NoMode} :
              /\ mode \in {NoMode, d.selected} => DetSound(PageMade(d, mode))
              /\ PageMade(d, mode).gen = d.gen
<1> USE ModeAssumption DEF DetSound, Detector, Selectable
<1>1. /\ DetSound(Doubted(d)) /\ Doubted(d).selected = d.selected
      /\ Doubted(d).gen = d.gen /\ Doubted(d).alert = d.alert
  BY DEF Doubted
<1>2. DetSound(Ended(d)) /\ Ended(d).alert = NoMode /\ Ended(d).gen = d.gen + 1
  <2>1. d.gen + 1 \in Nat
    OBVIOUS
  <2> QED BY <2>1 DEF Ended
<1>3. ASSUME NEW mode \in Selectable, NEW skipped \in BOOLEAN
      PROVE  LET e == [d EXCEPT !.selected = mode, !.skipped = skipped]
             IN  /\ d.selected = mode \/ d.alert = NoMode => DetSound(e)
                 /\ e.gen = d.gen /\ e.selected = mode /\ e.alert = d.alert
  OBVIOUS
<1>4. ASSUME NEW mode \in Modes \cup {NoMode}
      PROVE  /\ mode \in {NoMode, d.selected} => DetSound(PageMade(d, mode))
             /\ PageMade(d, mode).gen = d.gen
  BY DEF PageMade
<1> QED BY <1>1, <1>2, <1>3, <1>4

\* A new run's detector, in its parts.
LEMMA NewDetectorSound ==
  /\ DetSound(NewDetector) /\ NewDetector.alert = NoMode /\ NewDetector.gen = 0
  /\ ~NewDetector.adopted
BY DEF DetSound, NewDetector, Detector

\* A record that is taken over becomes an alert for its mode.
LEMMA AdoptionSound ==
  ASSUME NEW d, DetSound(d), NEW rec \in Record, rec.mode = d.selected, rec.mode # NoMode
  PROVE  /\ DetSound(Adopted(d, rec)) /\ Adopted(d, rec).gen = d.gen + 1
         /\ Adopted(d, rec).adopted <=> rec.mark = "boot"
         /\ Adopted(d, rec).selected = d.selected
<1>1. d.gen + 1 \in Nat
  BY DEF DetSound, Detector
<1> QED BY <1>1 DEF Adopted, DetSound, Detector, Record

\* What _queue does to the keeper's queue and its counter.
LEMMA Queues ==
  ASSUME QueueTyped, NEW do \in {"write", "refresh", "remove", "mark"},
         NEW mode \in Modes \cup {NoMode}, NEW gen \in Nat \cup {NoGen},
         QueueOp(do, mode, gen)
  PROVE  /\ Queued(do, mode, gen) \in Op /\ QueueTyped'
         /\ ops' = Append(ops, Queued(do, mode, gen))
         /\ keeper'.seq = keeper.seq + 1 /\ keeper'.last = keeper.last
         /\ keeper'.settled = keeper.settled
<1>1. keeper.seq \in Nat /\ keeper.seq + 1 \in Nat
  BY DEF QueueTyped, Keeper
<1>2. 0 \in 0 .. Listed
  BY BoundAssumption
<1>3. Queued(do, mode, gen) \in Op
  BY <1>1, <1>2 DEF Queued, Op
<1>4. ops' \in Seq(Op)
  BY <1>3, Appended DEF QueueOp, QueueTyped
<1>5. keeper' \in Keeper
  BY <1>1 DEF QueueOp, QueueTyped, Keeper
<1> QED BY <1>3, <1>4, <1>5 DEF QueueOp, QueueTyped, Keeper

\* What a bound has left when something of it is spent.
LEMMA Spends ==
  ASSUME BudgetTyped, NEW what \in {"pages", "moves", "refusals", "runs"}, Spend(what)
  PROVE  BudgetTyped'
BY BoundAssumption DEF BudgetTyped, Spend

\* So it begins.
LEMMA TypeInit == Init => TypeOK
<1> SUFFICES ASSUME Init PROVE TypeOK
  OBVIOUS
<1>1. DetSound(det)
  BY NewDetectorSound DEF Init
<1>2. NewKeeper \in Keeper /\ NewKeeper.settled = NoMode
  BY DEF NewKeeper, Keeper
<1>3. NoRecord \in Record
  BY DEF NoRecord, Record
<1>4. BudgetTyped
  <2>1. /\ MaxPages \in 0 .. MaxPages /\ MaxMoves \in 0 .. MaxMoves
        /\ MaxRefusals \in 0 .. MaxRefusals /\ MaxRuns \in 0 .. MaxRuns
    BY BoundAssumption
  <2> QED BY <2>1 DEF Init, BudgetTyped
<1>5. PhaseTyped /\ PagesTyped
  <2>1. phase = "down" /\ keeps = TRUE /\ buf = <<>> /\ held = NoPage /\ hand = NoPage
        /\ window = FALSE
    BY DEF Init
  <2>2. PhaseTyped
    BY <2>1 DEF PhaseTyped
  <2>3. buf \in Seq(Page)
    BY <2>1
  <2>4. held \in Page \cup {NoPage} /\ hand \in Page \cup {NoPage}
    BY <2>1
  <2>5. window \in BOOLEAN
    BY <2>1
  <2> QED BY <2>2, <2>3, <2>4, <2>5 DEF PagesTyped
<1>6. QueueTyped /\ WorkTyped /\ SettledTyped
  BY <1>2, <1>3 DEF Init, QueueTyped, WorkTyped, SettledTyped
<1>7. HistoryTyped
  BY DEF Init, HistoryTyped, Journal
<1> QED BY <1>1, <1>4, <1>5, <1>6, <1>7, TypeParts

\* The journal's fields may be set to any truth values.
LEMMA JournalType ==
  ASSUME journal \in Journal, NEW a \in BOOLEAN, NEW b \in BOOLEAN
  PROVE  /\ [journal EXCEPT !.wrote = FALSE, !.refused = a, !.graceful = FALSE] \in Journal
         /\ [journal EXCEPT !.wrote = TRUE, !.lapsed = a] \in Journal
         /\ [journal EXCEPT !.refused = TRUE] \in Journal
         /\ AfterRun(a, b) \in Journal
BY DEF Journal, AfterRun

\* The statuses of the exit check: `skipped` is one of the local mode alone.
LEMMA Statuses ==
  ASSUME NEW mode \in Selectable, NEW status \in StatusesOf(mode)
  PROVE  /\ status = "skipped" => mode = LocalDirect
         /\ (status = "skipped") \in BOOLEAN
         /\ status \in {"match", "mismatch"} => mode \in Modes
BY DEF StatusesOf, Selectable

\* What the start of a run finds on disk.
Found(readable) == IF readable THEN record ELSE NoRecord

\* The detector that a run starts with, before it has seen the record.
Fresh(mode, status) ==
  [NewDetector EXCEPT !.selected = mode, !.skipped = status = "skipped"]

\* What is known of that detector.
LEMMA FreshSound ==
  ASSUME NEW mode \in Selectable, NEW status \in StatusesOf(mode)
  PROVE  /\ DetSound(Fresh(mode, status)) /\ Fresh(mode, status).selected = mode
         /\ Fresh(mode, status).alert = NoMode /\ Fresh(mode, status).gen = 0
BY Statuses, ModeAssumption DEF Fresh, NewDetector, DetSound, Detector

\* The start of a run in its three cases: the record belongs to no alert of the
\* selected mode, to one, or there is none.
LEMMA SeedCases ==
  ASSUME Seed
  PROVE  \E mode \in Selectable, readable \in BOOLEAN : \E status \in StatusesOf(mode) :
           /\ phase = "down" /\ phase' = "up" /\ keeps' = TRUE
           /\ journal' = [journal EXCEPT !.wrote = FALSE, !.refused = ~readable,
                                         !.graceful = FALSE]
           /\ told' = IF told = mode THEN told ELSE NoMode
           /\ budget.runs > 0 /\ (readable \/ budget.refusals > 0)
           /\ budget' = [budget EXCEPT !.runs = @ - 1,
                                       !.refusals = IF readable THEN @ ELSE @ - 1]
           /\ UNCHANGED <<notifying, doing, timers, record, synced>>
           /\ \/ /\ status = "skipped" \/ Found(readable).mode \notin {NoMode, mode}
                 /\ det' = Ended(Fresh(mode, status))
                 /\ QueueOp("remove", NoMode, NoGen) /\ news' = NoMode
              \/ /\ status # "skipped" /\ Found(readable).mode = mode
                 /\ readable /\ record.mode = mode
                 /\ det' = Adopted(Fresh(mode, status), record) /\ UNCHANGED news
                 /\ IF det'.adopted THEN QueueOp("refresh", mode, det'.gen)
                                    ELSE UNCHANGED <<ops, keeper>>
              \/ /\ status # "skipped" /\ Found(readable).mode = NoMode
                 /\ det' = Fresh(mode, status) /\ UNCHANGED <<ops, keeper, news>>
<1>1. PICK mode \in Selectable, readable \in BOOLEAN : \E status \in StatusesOf(mode) :
        /\ CASE status = "skipped" \/ Found(readable).mode \notin {NoMode, mode} ->
                  /\ det' = Ended(Fresh(mode, status))
                  /\ QueueOp("remove", NoMode, NoGen) /\ news' = NoMode
             [] status # "skipped" /\ Found(readable).mode = mode ->
                  /\ det' = Adopted(Fresh(mode, status), Found(readable)) /\ UNCHANGED news
                  /\ IF det'.adopted THEN QueueOp("refresh", mode, det'.gen)
                                     ELSE UNCHANGED <<ops, keeper>>
             [] OTHER -> det' = Fresh(mode, status) /\ UNCHANGED <<ops, keeper, news>>
        /\ told' = IF told = mode THEN told ELSE NoMode
        /\ readable \/ budget.refusals > 0
        /\ budget' = [budget EXCEPT !.runs = @ - 1,
                                    !.refusals = IF readable THEN @ ELSE @ - 1]
        /\ journal' = [journal EXCEPT !.wrote = FALSE, !.refused = ~readable,
                                      !.graceful = FALSE]
  BY Zenon DEF Seed, Found, Fresh
<1>2. PICK status \in StatusesOf(mode) :
        /\ CASE status = "skipped" \/ Found(readable).mode \notin {NoMode, mode} ->
                  /\ det' = Ended(Fresh(mode, status))
                  /\ QueueOp("remove", NoMode, NoGen) /\ news' = NoMode
             [] status # "skipped" /\ Found(readable).mode = mode ->
                  /\ det' = Adopted(Fresh(mode, status), Found(readable)) /\ UNCHANGED news
                  /\ IF det'.adopted THEN QueueOp("refresh", mode, det'.gen)
                                     ELSE UNCHANGED <<ops, keeper>>
             [] OTHER -> det' = Fresh(mode, status) /\ UNCHANGED <<ops, keeper, news>>
  BY <1>1
<1>3. /\ phase = "down" /\ phase' = "up" /\ keeps' = TRUE /\ budget.runs > 0
      /\ UNCHANGED <<notifying, doing, timers, record, synced>>
  BY DEF Seed
<1>4. Found(readable).mode = mode => readable /\ Found(readable) = record
  BY Nothings DEF Found, NoRecord
<1>5. CASE status = "skipped" \/ Found(readable).mode \notin {NoMode, mode}
  BY <1>1, <1>2, <1>3, <1>5
<1>6. CASE status # "skipped" /\ Found(readable).mode = mode
  <2>1. mode # NoMode
    BY Nothings
  <2> QED BY <1>1, <1>2, <1>3, <1>4, <1>6, <2>1
<1>7. CASE status # "skipped" /\ Found(readable).mode = NoMode
  <2>1. mode # NoMode
    BY Nothings
  <2> QED BY <1>1, <1>2, <1>3, <1>7, <2>1
<1> QED BY <1>5, <1>6, <1>7

\* The detector of a tick, when it has looked at the selection and before it
\* looks at the exit.
Moved(mode, status) ==
  [IF SilentEnd(Doubted(det), mode, status) THEN Ended(Doubted(det)) ELSE Doubted(det)
     EXCEPT !.selected = mode, !.skipped = status = "skipped"]

\* It is sound, and of a new generation when an alert was ended without a page.
LEMMA MovedSound ==
  ASSUME DetSound(det), NEW mode \in Selectable, NEW status \in StatusesOf(mode)
  PROVE  /\ DetSound(Moved(mode, status)) /\ Moved(mode, status).selected = mode
         /\ Moved(mode, status).gen =
              IF SilentEnd(Doubted(det), mode, status) THEN det.gen + 1 ELSE det.gen
<1> DEFINE d0 == Doubted(det)
           d  == IF SilentEnd(d0, mode, status) THEN Ended(d0) ELSE d0
<1>1. DetSound(d0) /\ d0.selected = det.selected /\ d0.gen = det.gen
  BY DetectorChanges
<1>2. /\ DetSound(d)
      /\ d.selected = mode \/ d.alert = NoMode
      /\ d.gen = IF SilentEnd(d0, mode, status) THEN det.gen + 1 ELSE det.gen
  <2>1. CASE SilentEnd(d0, mode, status)
    <3>1. DetSound(Ended(d0)) /\ Ended(d0).alert = NoMode /\ Ended(d0).gen = d0.gen + 1
      BY <1>1, DetectorChanges
    <3> QED BY <1>1, <2>1, <3>1
  <2>2. CASE ~SilentEnd(d0, mode, status)
    BY <1>1, <2>2 DEF SilentEnd
  <2> QED BY <2>1, <2>2
<1> HIDE DEF d
<1>3. (status = "skipped") \in BOOLEAN
  OBVIOUS
<1>4. LET e == [d EXCEPT !.selected = mode, !.skipped = status = "skipped"]
      IN  DetSound(e) /\ e.gen = d.gen /\ e.selected = mode
  BY <1>2, <1>3 DEF DetSound, Detector, Selectable
<1>5. Moved(mode, status) = [d EXCEPT !.selected = mode, !.skipped = status = "skipped"]
  BY DEF Moved, d
<1> QED BY <1>2, <1>4, <1>5

\* What a tick does: it may end an alert, and may make a page of the generation
\* that it leaves.
LEMMA ObserveCases ==
  ASSUME TypeOK, Observe
  PROVE  \E ends \in BOOLEAN, paged \in BOOLEAN, about \in Modes \cup {NoMode} :
           /\ DetSound(det') /\ det'.gen = IF ends THEN det.gen + 1 ELSE det.gen
           /\ buf' = IF paged THEN Append(buf, [mode |-> about, gen |-> det'.gen]) ELSE buf
           /\ IF ends THEN /\ QueueOp("remove", NoMode, NoGen)
                           /\ news' = NoMode /\ told' = NoMode
                      ELSE UNCHANGED <<ops, keeper, news, told>>
           /\ BudgetTyped' /\ phase = "up" /\ keeps
           /\ UNCHANGED <<phase, keeps, held, window, hand, doing, timers, record,
                          synced, journal>>
<1>1. /\ phase = "up" /\ keeps
      /\ UNCHANGED <<phase, keeps, held, window, hand, doing, timers, record, synced, journal>>
  BY DEF Observe
<1>2. DetSound(det) /\ BudgetTyped
  BY TypeParts
<1>3. PICK mode \in Selectable : \E status \in StatusesOf(mode) :
        LET d1    == Moved(mode, status)
            ends  == SilentEnd(Doubted(det), mode, status)
            falls    == status = "mismatch" /\ (d1.alert = NoMode \/ d1.distrusted)
            restores == status = "match" /\ d1.alert # NoMode
            about    == IF falls THEN mode ELSE NoMode
        IN  /\ det' = IF falls \/ restores THEN PageMade(d1, about) ELSE d1
            /\ buf' = IF falls \/ restores
                      THEN Append(buf, [mode |-> about, gen |-> d1.gen]) ELSE buf
            /\ IF ends THEN /\ QueueOp("remove", NoMode, NoGen)
                            /\ news' = NoMode /\ told' = NoMode
                       ELSE UNCHANGED <<ops, keeper, news, told>>
            /\ budget' = [budget EXCEPT !.pages = IF falls \/ restores THEN @ - 1 ELSE @,
                                        !.moves = IF ends THEN @ - 1 ELSE @]
            /\ budget'.pages >= 0 /\ budget'.moves >= 0
  BY DEF Observe, Moved
<1>4. PICK status \in StatusesOf(mode) :
        LET d1    == Moved(mode, status)
            ends  == SilentEnd(Doubted(det), mode, status)
            falls    == status = "mismatch" /\ (d1.alert = NoMode \/ d1.distrusted)
            restores == status = "match" /\ d1.alert # NoMode
            about    == IF falls THEN mode ELSE NoMode
        IN  /\ det' = IF falls \/ restores THEN PageMade(d1, about) ELSE d1
            /\ buf' = IF falls \/ restores
                      THEN Append(buf, [mode |-> about, gen |-> d1.gen]) ELSE buf
            /\ IF ends THEN /\ QueueOp("remove", NoMode, NoGen)
                            /\ news' = NoMode /\ told' = NoMode
                       ELSE UNCHANGED <<ops, keeper, news, told>>
            /\ budget' = [budget EXCEPT !.pages = IF falls \/ restores THEN @ - 1 ELSE @,
                                        !.moves = IF ends THEN @ - 1 ELSE @]
            /\ budget'.pages >= 0 /\ budget'.moves >= 0
  BY <1>3
<1> DEFINE d1    == Moved(mode, status)
           ends  == SilentEnd(Doubted(det), mode, status)
           falls == status = "mismatch" /\ (d1.alert = NoMode \/ d1.distrusted)
           paged == falls \/ (status = "match" /\ d1.alert # NoMode)
           about == IF falls THEN mode ELSE NoMode
<1>5. /\ det' = IF paged THEN PageMade(d1, about) ELSE d1
      /\ buf' = IF paged THEN Append(buf, [mode |-> about, gen |-> d1.gen]) ELSE buf
      /\ IF ends THEN /\ QueueOp("remove", NoMode, NoGen)
                      /\ news' = NoMode /\ told' = NoMode
                 ELSE UNCHANGED <<ops, keeper, news, told>>
      /\ budget' = [budget EXCEPT !.pages = IF paged THEN @ - 1 ELSE @,
                                  !.moves = IF ends THEN @ - 1 ELSE @]
      /\ budget'.pages >= 0 /\ budget'.moves >= 0
  BY <1>4
<1>6. /\ DetSound(d1) /\ d1.selected = mode
      /\ d1.gen = IF ends THEN det.gen + 1 ELSE det.gen
  BY <1>2, MovedSound
<1>7. about \in Modes \cup {NoMode} /\ about \in {NoMode, mode}
  BY Statuses
<1>8. ends \in BOOLEAN /\ paged \in BOOLEAN
  BY DEF SilentEnd
<1>9. BudgetTyped'
  <2> HIDE DEF paged, ends
  <2>1. /\ budget.pages \in 0 .. MaxPages /\ budget.moves \in 0 .. MaxMoves
        /\ budget.refusals \in 0 .. MaxRefusals /\ budget.runs \in 0 .. MaxRuns
    BY <1>2 DEF BudgetTyped
  <2>2. /\ DOMAIN budget = {"pages", "moves", "refusals", "runs"}
        /\ budget = [pages |-> budget.pages, moves |-> budget.moves,
                     refusals |-> budget.refusals, runs |-> budget.runs]
    BY <1>2 DEF BudgetTyped
  <2>3. budget' = [pages |-> IF paged THEN budget.pages - 1 ELSE budget.pages,
                   moves |-> IF ends THEN budget.moves - 1 ELSE budget.moves,
                   refusals |-> budget.refusals, runs |-> budget.runs]
    BY <1>5, <2>2
  <2>4. budget'.pages \in 0 .. MaxPages /\ budget'.moves \in 0 .. MaxMoves
    BY <1>5, <2>1, <2>3, BoundAssumption
  <2> QED BY <2>1, <2>3, <2>4 DEF BudgetTyped
<1>10. DetSound(det') /\ det'.gen = d1.gen
  <2> HIDE DEF d1, paged, about
  <2>1. DetSound(PageMade(d1, about)) /\ PageMade(d1, about).gen = d1.gen
    BY <1>6, <1>7, DetectorChanges
  <2> QED BY <1>5, <1>6, <2>1
<1> HIDE DEF d1, ends, paged, about
<1> QED BY <1>1, <1>5, <1>6, <1>7, <1>8, <1>9, <1>10

\* What a page's exit 0 queues.
LEMMA SentType ==
  ASSUME TypeOK, hand # NoPage, OnSent(hand)
  PROVE  /\ QueueTyped' /\ keeper'.settled = keeper.settled /\ news' \in Modes \cup {NoMode}
<1>1. hand \in Page /\ QueueTyped /\ HistoryTyped
  BY TypeParts DEF PagesTyped
<1>2. hand.mode \in Modes \cup {NoMode} /\ hand.gen \in Nat \cup {NoGen}
  BY <1>1 DEF Page
<1>3. CASE phase = "close"
  BY <1>1, <1>3 DEF OnSent, QueueTyped, HistoryTyped
<1>4. CASE phase # "close"
  <2>1. QueueOp(IF hand.mode = NoMode THEN "remove" ELSE "write", hand.mode, hand.gen)
    BY <1>4 DEF OnSent
  <2>2. QueueTyped' /\ keeper'.settled = keeper.settled
    BY <1>1, <1>2, <2>1, Queues
  <2>3. news' \in Modes \cup {NoMode}
    BY <1>1, <1>2, <1>4 DEF OnSent, HistoryTyped
  <2> QED BY <2>2, <2>3
<1> QED BY <1>3, <1>4

\* The record an operation leaves, and what may be left of it.
LEMMA ResultType ==
  /\ \A op \in Op : Result(op) \in Record /\ Result(op).mode = op.mode
  /\ \A rec \in Record : Aged(rec) \in Record /\ Aged(rec).mode = rec.mode
                         /\ Aged(rec).mark # "boot"
  /\ WorkTyped => Left \subseteq Record
<1>1. \A op \in Op : Result(op) \in Record /\ Result(op).mode = op.mode
  BY DEF Op, Result, Record
<1>2. \A rec \in Record : Aged(rec) \in Record /\ Aged(rec).mode = rec.mode
                          /\ Aged(rec).mark # "boot"
  BY DEF Record, Aged
<1>3. WorkTyped => Left \subseteq Record
  BY <1>1 DEF WorkTyped, Left
<1> QED BY <1>1, <1>2, <1>3

\* What the end of a run leaves.
LEMMA EndType ==
  ASSUME TypeOK, NEW rec \in Record, NEW kept \in Record, EndWith(rec, kept),
         journal' \in Journal
  PROVE  TypeOK' /\ timers' = {}
<1>1. /\ phase' = "down" /\ det' = NewDetector /\ keeps' = TRUE
      /\ buf' = <<>> /\ held' = NoPage /\ window' = FALSE /\ hand' = NoPage
      /\ ops' = <<>> /\ doing' = NoOp /\ timers' = {} /\ keeper' = NewKeeper
      /\ record' = rec /\ synced' = kept /\ news' = rec.mode
      /\ told' \in {told} \cup (IF hand # NoPage THEN {Read(hand)} ELSE {})
      /\ UNCHANGED budget
  BY DEF EndWith
<1>2. PhaseTyped' /\ DetSound(det)'
  BY <1>1, NewDetectorSound DEF PhaseTyped
<1>3. PagesTyped'
  <2>1. buf' \in Seq(Page)
    BY <1>1
  <2>2. held' \in Page \cup {NoPage} /\ hand' \in Page \cup {NoPage} /\ window' \in BOOLEAN
    BY <1>1
  <2> QED BY <2>1, <2>2 DEF PagesTyped
<1>4. QueueTyped' /\ SettledTyped'
  BY <1>1 DEF QueueTyped, SettledTyped, NewKeeper, Keeper
<1>5. WorkTyped'
  BY <1>1 DEF WorkTyped
<1>6. BudgetTyped'
  BY <1>1, TypeParts DEF BudgetTyped
<1>7. HistoryTyped'
  <2>1. told \in Modes \cup {NoMode} /\ hand \in Page \cup {NoPage}
    BY TypeParts DEF HistoryTyped, PagesTyped
  <2>2. hand # NoPage => Read(hand) \in Modes \cup {NoMode}
    BY <2>1 DEF Read, Page
  <2>3. rec.mode \in Modes \cup {NoMode}
    BY DEF Record
  <2> QED BY <1>1, <2>1, <2>2, <2>3 DEF HistoryTyped
<1> QED BY <1>1, <1>2, <1>3, <1>4, <1>5, <1>6, <1>7, TypeParts

\* An operation to be tried again: the same one, with one try more.
LEMMA RetryType ==
  ASSUME NEW op \in Op
  PROVE  \A again \in Retries(op) : /\ again \in Op /\ again.do = op.do /\ again.mode = op.mode
                                    /\ again.gen = op.gen /\ again.seq = op.seq
<1>1. op.tries \in 0 .. Listed
  BY DEF Op
<1>2. \A n \in 0 .. Listed : (IF n < Listed THEN n + 1 ELSE n) \in 0 .. Listed
  BY BoundAssumption
<1>3. (IF op.tries < Listed THEN op.tries + 1 ELSE op.tries) \in 0 .. Listed
  BY <1>1, <1>2
<1> QED BY <1>3 DEF Retries, Op

\* What close() queues: the retries in their order, and the mark, if any, last.
LEMMA CloseQueues ==
  ASSUME TypeOK, IsFiniteSet(timers), Close
  PROVE  LET marks == MarkWorthy(det') /\ keeps
             mark  == Queued("mark", det'.alert, NoGen)
         IN  /\ DetSound(det') /\ det' = Doubted(det) /\ det'.gen = det.gen
             /\ marks => mark \in Op
             /\ \E pending \in InOrder(timers) :
                  LET more == pending \o IF marks THEN <<mark>> ELSE <<>>
                  IN  /\ pending \in Seq(Op) /\ Range(pending) = timers
                      /\ more \in Seq(Op) /\ ops' = ops \o more
                      /\ Range(more) = timers \cup IF marks THEN {mark} ELSE {}
             /\ keeper' = [keeper EXCEPT !.seq = IF marks THEN @ + 1 ELSE @]
<1> DEFINE marks == MarkWorthy(det') /\ keeps
           mark  == Queued("mark", det'.alert, NoGen)
           last  == IF marks THEN <<mark>> ELSE <<>>
<1>1. DetSound(det) /\ QueueTyped /\ WorkTyped /\ PhaseTyped
  BY TypeParts
<1>2. /\ det' = Doubted(det)
      /\ \E pending \in InOrder(timers) : ops' = ops \o (pending \o last)
      /\ keeper' = [keeper EXCEPT !.seq = IF marks THEN @ + 1 ELSE @]
  BY DEF Close, Closing
<1>3. DetSound(det') /\ det'.gen = det.gen
  BY <1>1, <1>2, DetectorChanges
<1>4. mark \in Op
  <2>1. keeper.seq + 1 \in Nat /\ 0 \in 0 .. Listed
    BY <1>1, BoundAssumption DEF QueueTyped, Keeper
  <2>2. det'.alert \in Modes \cup {NoMode}
    BY <1>3 DEF DetSound, Detector
  <2> QED BY <2>1, <2>2 DEF Queued, Op
<1>5. PICK pending \in InOrder(timers) : ops' = ops \o (pending \o last)
  BY <1>2
<1>6. pending \in Seq(timers) /\ Range(pending) = timers
  BY Ordered
<1>7. pending \in Seq(Op)
  BY <1>1, <1>6 DEF WorkTyped
<1> HIDE DEF mark, marks
<1>8. last \in Seq(Op) /\ Range(last) = IF marks THEN {mark} ELSE {}
  <2>1. CASE marks
    <3>1. last = <<mark>> /\ last \in Seq(Op) /\ DOMAIN last = {1} /\ last[1] = mark
      BY <1>4, <2>1
    <3> QED BY <2>1, <3>1 DEF Range
  <2>2. CASE ~marks
    <3>1. last = <<>> /\ DOMAIN last = {}
      BY <2>2
    <3> QED BY <2>2, <3>1 DEF Range
  <2> QED BY <2>1, <2>2
<1> HIDE DEF last
<1>9. /\ pending \o last \in Seq(Op)
      /\ Range(pending \o last) = timers \cup IF marks THEN {mark} ELSE {}
  BY <1>6, <1>7, <1>8, Joined
<1> QED BY <1>2, <1>3, <1>4, <1>5, <1>6, <1>7, <1>9 DEF mark, marks, last

\* There are only so many timers.
Typed == TypeOK /\ IsFiniteSet(timers)

\* Each step keeps the type.
LEMMA TypeStep == Typed /\ [Next]_vars => Typed'
<1> SUFFICES ASSUME TypeOK, IsFiniteSet(timers), [Next]_vars PROVE Typed'
  BY DEF Typed
<1>1. /\ PhaseTyped /\ DetSound(det) /\ PagesTyped /\ QueueTyped /\ WorkTyped
      /\ SettledTyped /\ BudgetTyped /\ HistoryTyped
  BY TypeParts
<1>2. CASE Seed
  <2>1. PICK mode \in Selectable, readable \in BOOLEAN : \E status \in StatusesOf(mode) :
           /\ phase = "down" /\ phase' = "up" /\ keeps' = TRUE
           /\ journal' = [journal EXCEPT !.wrote = FALSE, !.refused = ~readable,
                                         !.graceful = FALSE]
           /\ told' = IF told = mode THEN told ELSE NoMode
           /\ budget.runs > 0 /\ (readable \/ budget.refusals > 0)
           /\ budget' = [budget EXCEPT !.runs = @ - 1,
                                       !.refusals = IF readable THEN @ ELSE @ - 1]
           /\ UNCHANGED <<notifying, doing, timers, record, synced>>
           /\ \/ /\ status = "skipped" \/ Found(readable).mode \notin {NoMode, mode}
                 /\ det' = Ended(Fresh(mode, status))
                 /\ QueueOp("remove", NoMode, NoGen) /\ news' = NoMode
              \/ /\ status # "skipped" /\ Found(readable).mode = mode
                 /\ readable /\ record.mode = mode
                 /\ det' = Adopted(Fresh(mode, status), record) /\ UNCHANGED news
                 /\ IF det'.adopted THEN QueueOp("refresh", mode, det'.gen)
                                    ELSE UNCHANGED <<ops, keeper>>
              \/ /\ status # "skipped" /\ Found(readable).mode = NoMode
                 /\ det' = Fresh(mode, status) /\ UNCHANGED <<ops, keeper, news>>
    BY <1>2, SeedCases
  <2>2. PhaseTyped' /\ PagesTyped' /\ WorkTyped' /\ timers' = timers
    BY <1>1, <2>1 DEF PhaseTyped, PagesTyped, WorkTyped, notifying
  <2>3. HistoryTyped'
    <3>1. journal' \in Journal
      BY <1>1, <2>1, JournalType DEF HistoryTyped
    <3> QED BY <1>1, <2>1, <3>1 DEF HistoryTyped
  <2>4. BudgetTyped'
    <3>1. budget.runs - 1 \in 0 .. MaxRuns
      BY <1>1, <2>1, BoundAssumption DEF BudgetTyped
    <3>2. (IF readable THEN budget.refusals ELSE budget.refusals - 1) \in 0 .. MaxRefusals
      BY <1>1, <2>1, BoundAssumption DEF BudgetTyped
    <3> QED BY <1>1, <2>1, <3>1, <3>2 DEF BudgetTyped
  <2>5. DetSound(det') /\ QueueTyped' /\ keeper'.settled = keeper.settled
    <3>1. PICK status \in StatusesOf(mode) :
           \/ det' = Ended(Fresh(mode, status)) /\ QueueOp("remove", NoMode, NoGen)
           \/ /\ record.mode = mode
              /\ det' = Adopted(Fresh(mode, status), record)
              /\ IF det'.adopted THEN QueueOp("refresh", mode, det'.gen)
                                 ELSE UNCHANGED <<ops, keeper>>
           \/ det' = Fresh(mode, status) /\ UNCHANGED <<ops, keeper>>
      BY <2>1
    <3>2. DetSound(Fresh(mode, status)) /\ Fresh(mode, status).selected = mode
      BY FreshSound
    <3>3. CASE det' = Ended(Fresh(mode, status)) /\ QueueOp("remove", NoMode, NoGen)
      BY <1>1, <3>2, <3>3, DetectorChanges, Queues
    <3>4. CASE /\ record.mode = mode
               /\ det' = Adopted(Fresh(mode, status), record)
               /\ IF det'.adopted THEN QueueOp("refresh", mode, det'.gen)
                                  ELSE UNCHANGED <<ops, keeper>>
      <4>1. record \in Record /\ record.mode \in Modes \cup {NoMode} /\ mode # NoMode
        BY <1>1, Nothings DEF WorkTyped, Record
      <4>2. DetSound(det') /\ mode \in Modes \cup {NoMode}
        BY <3>2, <3>4, <4>1, AdoptionSound
      <4>3. det'.gen \in Nat \cup {NoGen}
        BY <4>2 DEF DetSound, Detector
      <4>4. CASE det'.adopted
        <5>1. QueueOp("refresh", mode, det'.gen)
          BY <3>4, <4>4
        <5> QED BY <1>1, <4>2, <4>3, <5>1, Queues
      <4>5. CASE ~det'.adopted
        BY <1>1, <3>4, <4>2, <4>5 DEF QueueTyped
      <4> QED BY <4>4, <4>5
    <3>5. CASE det' = Fresh(mode, status) /\ UNCHANGED <<ops, keeper>>
      BY <1>1, <3>2, <3>5 DEF QueueTyped
    <3> QED BY <3>1, <3>3, <3>4, <3>5
  <2>6. SettledTyped'
    BY <1>1, <2>1, <2>5 DEF SettledTyped
  <2> QED BY <2>2, <2>3, <2>4, <2>5, <2>6, TypeParts DEF Typed
<1>3. CASE StartWithoutRecord
  <2>1. /\ Spend("runs") /\ phase' = "up" /\ keeps' = FALSE
        /\ QueueOp("remove", NoMode, NoGen) /\ news' = NoMode
        /\ journal' = [journal EXCEPT !.wrote = FALSE, !.refused = FALSE, !.graceful = FALSE]
        /\ UNCHANGED <<det, notifying, doing, timers, record, synced, told>>
    BY <1>3 DEF StartWithoutRecord
  <2>2. PhaseTyped' /\ DetSound(det)' /\ PagesTyped' /\ WorkTyped'
    BY <1>1, <2>1 DEF PhaseTyped, PagesTyped, WorkTyped, notifying
  <2>3. HistoryTyped'
    BY <1>1, <2>1, JournalType DEF HistoryTyped
  <2>4. BudgetTyped' /\ QueueTyped' /\ keeper'.settled = keeper.settled
    BY <1>1, <2>1, Spends, Queues
  <2>5. SettledTyped'
    BY <1>1, <2>1, <2>4 DEF SettledTyped
  <2> QED BY <2>1, <2>2, <2>3, <2>4, <2>5, TypeParts DEF Typed
<1>4. CASE PageWithoutRecord
  BY <1>1, <1>4, TypeParts
  DEF Typed, PageWithoutRecord, PhaseTyped, PagesTyped, QueueTyped, WorkTyped, SettledTyped,
      BudgetTyped, HistoryTyped, detection, notifying, keeping
<1>5. CASE Observe
  <2>1. PICK ends \in BOOLEAN, paged \in BOOLEAN, about \in Modes \cup {NoMode} :
           /\ DetSound(det') /\ det'.gen = IF ends THEN det.gen + 1 ELSE det.gen
           /\ buf' = IF paged THEN Append(buf, [mode |-> about, gen |-> det'.gen]) ELSE buf
           /\ IF ends THEN /\ QueueOp("remove", NoMode, NoGen)
                           /\ news' = NoMode /\ told' = NoMode
                      ELSE UNCHANGED <<ops, keeper, news, told>>
           /\ BudgetTyped' /\ phase = "up" /\ keeps
           /\ UNCHANGED <<phase, keeps, held, window, hand, doing, timers, record,
                          synced, journal>>
    BY <1>5, ObserveCases
  <2>2. PhaseTyped' /\ WorkTyped' /\ HistoryTyped'
    BY <1>1, <2>1 DEF PhaseTyped, WorkTyped, HistoryTyped
  <2>3. PagesTyped'
    <3>1. [mode |-> about, gen |-> det'.gen] \in Page
      BY <2>1 DEF Page, DetSound, Detector
    <3>2. buf' \in Seq(Page)
      BY <1>1, <2>1, <3>1, Appended DEF PagesTyped
    <3> QED BY <1>1, <2>1, <3>2 DEF PagesTyped
  <2>4. QueueTyped' /\ keeper'.settled = keeper.settled
    <3>1. CASE ends
      BY <1>1, <2>1, <3>1, Queues
    <3>2. CASE ~ends
      BY <1>1, <2>1, <3>2 DEF QueueTyped
    <3> QED BY <3>1, <3>2
  <2>5. SettledTyped'
    BY <1>1, <2>1, <2>4 DEF SettledTyped
  <2> QED BY <2>1, <2>2, <2>3, <2>4, <2>5, TypeParts DEF Typed
<1>6. CASE WorkerAdmits \/ WorkerFlushes \/ SpoolRefuses \/ Overflow \/ WindowEnds
  <2>1. /\ UNCHANGED <<detection, keeping, budget, told, news, journal>>
        /\ buf' \in Seq(Page) /\ window' \in BOOLEAN
        /\ held' \in Page \cup {NoPage} /\ hand' \in Page \cup {NoPage}
    <3>1. CASE WorkerAdmits
      <4>1. Head(buf) \in Page /\ Tail(buf) \in Seq(Page)
        BY <1>1, <3>1, Taken DEF WorkerAdmits, PagesTyped
      <4> QED BY <1>1, <3>1, <4>1 DEF WorkerAdmits, PagesTyped, Sending
    <3>2. CASE WorkerFlushes
      BY <1>1, <3>2 DEF WorkerFlushes, PagesTyped, Sending
    <3>3. CASE SpoolRefuses
      BY <1>1, <3>3 DEF SpoolRefuses, PagesTyped
    <3>4. CASE Overflow
      <4>1. buf' \in Seq(Page)
        BY <1>1, <3>4, Lost DEF Overflow, PagesTyped
      <4> QED BY <1>1, <3>4, <4>1 DEF Overflow, PagesTyped
    <3>5. CASE WindowEnds
      BY <1>1, <3>5 DEF WindowEnds, PagesTyped
    <3> QED BY <1>6, <3>1, <3>2, <3>3, <3>4, <3>5
  <2> QED BY <1>1, <2>1, TypeParts
      DEF Typed, PhaseTyped, PagesTyped, QueueTyped, WorkTyped, SettledTyped,
          BudgetTyped, HistoryTyped, detection, keeping
<1>7. CASE SpoolAccepts
  <2>1. /\ hand # NoPage /\ hand' = NoPage /\ told' = Read(hand) /\ OnSent(hand)
        /\ UNCHANGED <<detection, buf, held, window, doing, timers, record, synced, budget,
                       journal>>
    BY <1>7 DEF SpoolAccepts
  <2>2. QueueTyped' /\ keeper'.settled = keeper.settled /\ news' \in Modes \cup {NoMode}
    BY <2>1, SentType
  <2>3. told' \in Modes \cup {NoMode}
    BY <1>1, <2>1 DEF Read, PagesTyped, HistoryTyped, Page
  <2> QED BY <1>1, <2>1, <2>2, <2>3, TypeParts
      DEF Typed, PhaseTyped, PagesTyped, WorkTyped, SettledTyped, BudgetTyped, HistoryTyped,
          detection
<1>8. CASE KeeperTakes
  <2>1. /\ doing = NoOp /\ ops # <<>> /\ ops' = Tail(ops)
        /\ \/ /\ doing' = Head(ops)
              /\ keeper' = IF Head(ops).do = "mark" THEN keeper
                           ELSE [keeper EXCEPT !.settled = NoMode]
           \/ UNCHANGED <<keeper, doing>>
        /\ UNCHANGED <<detection, notifying, timers, record, synced, budget, told, news, journal>>
    BY <1>8 DEF KeeperTakes
  <2>2. Head(ops) \in Op /\ ops' \in Seq(Op)
    BY <1>1, <2>1, Taken DEF QueueTyped
  <2>3. QueueTyped' /\ WorkTyped'
    BY <1>1, <2>1, <2>2 DEF QueueTyped, WorkTyped, Keeper
  <2>4. SettledTyped'
    BY <1>1, <2>1 DEF SettledTyped, QueueTyped, Keeper
  <2> QED BY <1>1, <2>1, <2>3, <2>4, TypeParts
      DEF Typed, PhaseTyped, PagesTyped, BudgetTyped, HistoryTyped, detection, notifying
<1>9. CASE KeeperDoes
  <2>1. /\ doing # NoOp /\ doing' = NoOp
        /\ record' = Result(doing) /\ synced' = Result(doing)
        /\ keeper' = [keeper EXCEPT !.last = doing.seq,
                                    !.settled = IF doing.do = "mark" THEN @ ELSE doing.mode]
        /\ journal' = [journal EXCEPT !.wrote = TRUE,
                                      !.lapsed = @ /\ doing.do \in {"refresh", "mark"}]
        /\ UNCHANGED <<detection, notifying, ops, timers, budget, told, news>>
    BY <1>9 DEF KeeperDoes
  <2>2. doing \in Op /\ doing.seq \in Nat /\ doing.mode \in Modes \cup {NoMode}
    BY <1>1, <2>1 DEF WorkTyped, Op
  <2>3. WorkTyped' /\ QueueTyped' /\ SettledTyped'
    <3>1. Result(doing) \in Record
      BY <2>2, ResultType
    <3> QED BY <1>1, <2>1, <2>2, <3>1 DEF WorkTyped, QueueTyped, SettledTyped, Keeper
  <2>4. HistoryTyped'
    <3>1. (journal.lapsed /\ doing.do \in {"refresh", "mark"}) \in BOOLEAN
      BY <1>1 DEF HistoryTyped, Journal
    <3>2. journal' \in Journal
      BY <1>1, <2>1, <3>1 DEF HistoryTyped, Journal
    <3> QED BY <1>1, <2>1, <3>2 DEF HistoryTyped
  <2> QED BY <1>1, <2>1, <2>3, <2>4, TypeParts
      DEF Typed, PhaseTyped, PagesTyped, BudgetTyped, detection, notifying
<1>10. CASE DiskRefuses
  <2>1. /\ doing # NoOp /\ Spend("refusals") /\ doing' = NoOp
        /\ record' \in {record, Result(doing)} /\ UNCHANGED synced
        /\ timers' = timers \cup Retries(doing)
        /\ keeper' = [keeper EXCEPT !.last = doing.seq,
                  !.unreliable = @ \/ (doing.do = "refresh" /\ doing.tries + 1 >= Listed)]
        /\ journal' = [journal EXCEPT !.refused = TRUE]
        /\ UNCHANGED <<detection, notifying, ops, told, news>>
    BY <1>10 DEF DiskRefuses
  <2>2. doing \in Op /\ doing.seq \in Nat
    BY <1>1, <2>1 DEF WorkTyped, Op
  <2>3. WorkTyped' /\ IsFiniteSet(timers')
    <3>1. Result(doing) \in Record /\ Retries(doing) \subseteq Op
      BY <2>2, ResultType, RetryType
    <3>2. IsFiniteSet(Retries(doing))
      BY FS_EmptySet, FS_Singleton DEF Retries
    <3>3. IsFiniteSet(timers')
      BY <2>1, <3>2, FS_Union
    <3> QED BY <1>1, <2>1, <3>1, <3>3 DEF WorkTyped
  <2>4. QueueTyped' /\ SettledTyped'
    <3>1. (keeper.unreliable \/ (doing.do = "refresh" /\ doing.tries + 1 >= Listed)) \in BOOLEAN
      BY <1>1 DEF QueueTyped, Keeper
    <3> QED BY <1>1, <2>1, <2>2, <3>1 DEF QueueTyped, SettledTyped, Keeper
  <2>5. HistoryTyped' /\ BudgetTyped'
    BY <1>1, <2>1, JournalType, Spends DEF HistoryTyped
  <2> QED BY <1>1, <2>1, <2>3, <2>4, <2>5, TypeParts
      DEF Typed, PhaseTyped, PagesTyped, detection, notifying
<1>11. CASE RetryDue
  <2>1. PICK op \in timers : ops' = Append(ops, op) /\ timers' = timers \ {op}
    BY <1>11 DEF RetryDue
  <2>2. UNCHANGED <<detection, notifying, doing, keeper, record, synced, budget, told, news,
                    journal>>
    BY <1>11 DEF RetryDue
  <2>3. op \in Op /\ ops' \in Seq(Op)
    BY <1>1, <2>1, Appended DEF WorkTyped, QueueTyped
  <2>4. IsFiniteSet(timers')
    BY <2>1, FS_RemoveElement
  <2> QED BY <1>1, <2>1, <2>2, <2>3, <2>4, TypeParts
      DEF Typed, PhaseTyped, PagesTyped, QueueTyped, WorkTyped, SettledTyped,
          BudgetTyped, HistoryTyped, detection, notifying
<1>12. CASE Stop
  BY <1>1, <1>12, TypeParts
  DEF Typed, Stop, PhaseTyped, PagesTyped, QueueTyped, WorkTyped, SettledTyped,
      BudgetTyped, HistoryTyped, notifying, keeping
<1>13. CASE Close
  <2>1. /\ phase' = "close" /\ timers' = {}
        /\ UNCHANGED <<keeps, notifying, doing, record, synced, budget, told, news, journal>>
    BY <1>13 DEF Close
  <2>2. DetSound(det') /\ \E n \in {0, 1}, more \in Seq(Op) :
          ops' = ops \o more /\ keeper' = [keeper EXCEPT !.seq = @ + n]
    <3>1. keeper = [keeper EXCEPT !.seq = @ + 0] /\ 0 \in {0, 1} /\ 1 \in {0, 1}
      BY <1>1 DEF QueueTyped, Keeper
    <3> QED BY <1>13, <3>1, CloseQueues
  <2>3. QueueTyped' /\ SettledTyped'
    <3>1. PICK n \in {0, 1}, more \in Seq(Op) :
            ops' = ops \o more /\ keeper' = [keeper EXCEPT !.seq = @ + n]
      BY <2>2
    <3>2. ops' \in Seq(Op)
      BY <1>1, <3>1, Joined DEF QueueTyped
    <3>3. keeper.seq + n \in Nat
      BY <1>1, <3>1 DEF QueueTyped, Keeper
    <3> QED BY <1>1, <2>1, <3>1, <3>2, <3>3 DEF QueueTyped, SettledTyped, Keeper
  <2>4. IsFiniteSet(timers')
    BY <2>1, FS_EmptySet
  <2> QED BY <1>1, <2>1, <2>2, <2>3, <2>4, TypeParts
      DEF Typed, PhaseTyped, PagesTyped, WorkTyped, BudgetTyped, HistoryTyped, notifying
<1>14. CASE Exit
  <2>1. \E rec \in Left : EndWith(rec, synced)
    BY <1>14 DEF Exit
  <2>2. \E graceful \in BOOLEAN : journal' = AfterRun(graceful, FALSE)
    BY <1>14 DEF Exit, WorkerDone
  <2>3. journal' \in Journal /\ Left \subseteq Record /\ synced \in Record
    BY <1>1, <2>2, JournalType, ResultType DEF HistoryTyped, WorkTyped
  <2> QED BY <2>1, <2>3, EndType, FS_EmptySet DEF Typed
<1>15. CASE PowerLoss
  <2>1. PICK rec \in Left \cup {synced} : EndWith(Aged(rec), Aged(rec))
    BY <1>15 DEF PowerLoss
  <2>2. journal' = AfterRun(FALSE, TRUE)
    BY <1>15 DEF PowerLoss
  <2>3. journal' \in Journal /\ Left \subseteq Record /\ synced \in Record
    BY <1>1, <2>2, JournalType, ResultType DEF HistoryTyped, WorkTyped
  <2>4. Aged(rec) \in Record
    BY <2>3, ResultType
  <2> QED BY <2>1, <2>3, <2>4, EndType, FS_EmptySet DEF Typed
<1>16. CASE UNCHANGED vars
  BY <1>1, <1>16, TypeParts
  DEF Typed, vars, PhaseTyped, PagesTyped, QueueTyped, WorkTyped, SettledTyped,
      BudgetTyped, HistoryTyped, detection, notifying, keeping
<1> QED BY <1>2, <1>3, <1>4, <1>5, <1>6, <1>7, <1>8, <1>9, <1>10, <1>11, <1>12, <1>13,
       <1>14, <1>15, <1>16 DEF Next

\* What the alert, its pages and its record are keeps its type, whatever the
\* threads' order, the crashes and the refusals of the disk (notify.py).
THEOREM TypeCorrect == Spec => []TypeOK
<1>1. Init => Typed
  BY TypeInit, FS_EmptySet DEF Typed, Init
<1>2. Typed => TypeOK
  BY DEF Typed
<1> QED BY <1>1, <1>2, TypeStep, PTL DEF Spec

-----------------------------------------------------------------------------
(* The queue: what its operations, the timers and the pages under way can  *)
(* be, whatever order the threads go in.                                   *)

\* The operations of the keeper, and the pages of the notifier.
Waiting == Range(ops) \cup timers
Known   == Waiting \cup ({doing} \ {NoOp})
Pages   == (Range(buf) \cup {held, hand}) \ {NoPage}

\* Without a run there is nothing in memory, and the record is what was last told.
NothingWhenDown ==
  phase = "down" =>
    /\ keeps /\ det = NewDetector /\ buf = <<>> /\ held = NoPage /\ hand = NoPage
    /\ ops = <<>> /\ doing = NoOp /\ timers = {} /\ keeper = NewKeeper
    /\ news = record.mode

\* A run that cannot keep the record makes no page the record would follow.
NothingPagedUnkept == ~keeps => det = NewDetector /\ Pages = {} /\ news = NoMode

\* No two operations have the same number, and none one yet to be given.
SeqsApart ==
  /\ keeper.last <= keeper.seq
  /\ \A op \in Known : op.seq \in 1 .. keeper.seq
  /\ \A i, j \in DOMAIN ops : ops[i].seq = ops[j].seq => i = j
  /\ \A op1 \in Range(ops), op2 \in timers : op1.seq # op2.seq
  /\ \A op1, op2 \in timers : op1.seq = op2.seq => op1 = op2
  /\ doing # NoOp => /\ doing.seq >= keeper.last
                     /\ \A op \in Waiting : op.seq # doing.seq

\* No generation is yet to come.
GensKnown ==
  /\ \A op \in Known : op.gen <= det.gen
  /\ \A page \in Pages : page.gen <= det.gen

\* A mark is the last operation of a run that closes, and names a mode.
MarksLast ==
  /\ \A op \in timers : op.do # "mark"
  /\ \A i \in DOMAIN ops : ops[i].do = "mark" => phase = "close" /\ i = Len(ops)
  /\ doing.do = "mark" => phase = "close" /\ ops = <<>>
  /\ \A op \in Known : op.do = "mark" => op.mode # NoMode
  /\ phase = "close" => timers = {}

\* The record a run has written is on disk, and marked only as what it is.
SettledShown ==
  /\ keeper.settled # NoMode =>
       record.mode = keeper.settled /\ synced.mode = keeper.settled /\ journal.wrote
  /\ doing.do = "mark" => keeper.settled = doing.mode

Queue == /\ NothingWhenDown /\ NothingPagedUnkept /\ SeqsApart /\ GensKnown
         /\ MarksLast /\ SettledShown

\* An empty queue, and nothing else to do, is in order.
LEMMA QueueEmpty ==
  ASSUME ops = <<>>, doing = NoOp, timers = {}, keeper = NewKeeper, det = NewDetector,
         Pages = {}
  PROVE  SeqsApart /\ GensKnown /\ MarksLast /\ SettledShown
<1>1. Known = {} /\ Waiting = {} /\ DOMAIN ops = {} /\ Range(ops) = {}
  BY DEF Known, Waiting, Range
<1> QED BY <1>1, Nothings DEF SeqsApart, GensKnown, MarksLast, SettledShown, NewKeeper

\* So it begins.
LEMMA QueueInit == Init => Queue
<1> SUFFICES ASSUME Init PROVE Queue
  OBVIOUS
<1>1. /\ ops = <<>> /\ doing = NoOp /\ timers = {} /\ keeper = NewKeeper /\ det = NewDetector
      /\ buf = <<>> /\ held = NoPage /\ hand = NoPage /\ keeps = TRUE
      /\ record = NoRecord /\ news = NoMode
  BY DEF Init
<1>2. Pages = {}
  BY <1>1 DEF Pages, Range
<1> QED BY <1>1, <1>2, QueueEmpty DEF Queue, NothingWhenDown, NothingPagedUnkept, NoRecord

\* So every run ends.
LEMMA QueueEnds ==
  ASSUME NEW rec, NEW kept, EndWith(rec, kept)
  PROVE  Queue'
<1>1. /\ ops' = <<>> /\ doing' = NoOp /\ timers' = {} /\ keeper' = NewKeeper
      /\ det' = NewDetector /\ buf' = <<>> /\ held' = NoPage /\ hand' = NoPage
      /\ keeps' = TRUE /\ record' = rec /\ news' = rec.mode
  BY DEF EndWith
<1>2. Pages' = {}
  BY <1>1 DEF Pages, Range
<1>3. Known' = {} /\ Waiting' = {} /\ DOMAIN ops' = {} /\ Range(ops') = {}
  BY <1>1 DEF Known, Waiting, Range
<1>4. SeqsApart' /\ GensKnown' /\ MarksLast' /\ SettledShown'
  BY <1>1, <1>2, <1>3, Nothings DEF SeqsApart, GensKnown, MarksLast, SettledShown, NewKeeper
<1> QED BY <1>1, <1>2, <1>4 DEF Queue, NothingWhenDown, NothingPagedUnkept

\* What the types say of an operation's numbers.
LEMMA Numbers ==
  ASSUME TypeOK
  PROVE  /\ keeper.seq \in Nat /\ keeper.last \in Nat /\ det.gen \in Nat
         /\ \A op \in Op : op.seq \in Nat /\ op.gen \in Int
         /\ Known \subseteq Op /\ Waiting \subseteq Op /\ Range(ops) \subseteq Op
         /\ \A page \in Pages : page \in Page /\ page.gen \in Nat
         /\ ops \in Seq(Op) /\ DOMAIN ops = 1 .. Len(ops) /\ Len(ops) \in Nat
<1>1. QueueTyped /\ WorkTyped /\ PagesTyped /\ DetSound(det)
  BY TypeParts
<1>2. keeper.seq \in Nat /\ keeper.last \in Nat /\ det.gen \in Nat
  BY <1>1 DEF QueueTyped, Keeper, DetSound, Detector
<1>3. \A op \in Op : op.seq \in Nat /\ op.gen \in Int
  BY DEF Op, NoGen
<1>4. ops \in Seq(Op) /\ DOMAIN ops = 1 .. Len(ops) /\ Len(ops) \in Nat
  BY <1>1 DEF QueueTyped
<1>5. Range(ops) \subseteq Op
  BY <1>4 DEF Range
<1>6. Known \subseteq Op /\ Waiting \subseteq Op
  BY <1>1, <1>5 DEF Known, Waiting, WorkTyped
<1>7. Range(buf) \subseteq Page
  BY <1>1 DEF PagesTyped, Range
<1>8. \A page \in Pages : page \in Page /\ page.gen \in Nat
  BY <1>1, <1>7 DEF Pages, PagesTyped, Page
<1> QED BY <1>2, <1>3, <1>4, <1>5, <1>6, <1>8

\* An operation newly numbered and put on the queue is in order, of whatever
\* generation there is.
LEMMA QueueGrows ==
  ASSUME TypeOK, SeqsApart, MarksLast, phase # "close", phase' = phase,
         \A op \in Known : op.gen <= det'.gen, det'.gen \in Nat,
         NEW do \in {"write", "refresh", "remove"},
         NEW mode \in Modes \cup {NoMode}, NEW gen \in Nat \cup {NoGen}, gen <= det'.gen,
         QueueOp(do, mode, gen), UNCHANGED <<doing, timers>>
  PROVE  /\ SeqsApart' /\ MarksLast' /\ \A op \in Known' : op.gen <= det'.gen
         /\ Known' = Known \cup {Queued(do, mode, gen)}
         /\ Range(ops') = Range(ops) \cup {Queued(do, mode, gen)}
<1> DEFINE op == Queued(do, mode, gen)
<1>1. /\ op \in Op /\ ops' = Append(ops, op) /\ keeper'.seq = keeper.seq + 1
      /\ keeper'.last = keeper.last
  <2>1. QueueTyped
    BY TypeParts
  <2> QED BY <2>1, Queues
<1>2. op.seq = keeper.seq + 1 /\ op.do = do /\ op.gen = gen
  BY DEF Queued
<1> HIDE DEF op
<1>3. /\ Len(ops') = Len(ops) + 1 /\ DOMAIN ops' = 1 .. Len(ops) + 1
      /\ \A i \in DOMAIN ops : ops'[i] = ops[i]
      /\ ops'[Len(ops) + 1] = op /\ Range(ops') = Range(ops) \cup {op}
  BY <1>1, Numbers, Appended
<1>4. Known' = Known \cup {op} /\ Waiting' = Waiting \cup {op}
  BY <1>3 DEF Known, Waiting
<1>5. \A o \in Known : o.seq \in 1 .. keeper.seq /\ o.seq # op.seq /\ o.seq \in 1 .. keeper'.seq
  BY <1>1, <1>2, Numbers DEF SeqsApart
<1>6. SeqsApart'
  <2>1. keeper'.last <= keeper'.seq
    BY <1>1, Numbers DEF SeqsApart
  <2>2. \A o \in Known' : o.seq \in 1 .. keeper'.seq
    BY <1>1, <1>2, <1>4, <1>5, Numbers
  <2>3. \A i, j \in DOMAIN ops' : ops'[i].seq = ops'[j].seq => i = j
    <3>1. \A i \in DOMAIN ops : ops[i] \in Known
      BY DEF Known, Waiting, Range
    <3>2. \A i \in DOMAIN ops' : i \in DOMAIN ops \/ i = Len(ops) + 1
      BY <1>3, Numbers
    <3> QED BY <1>3, <1>5, <3>1, <3>2 DEF SeqsApart
  <2>4. \A o1 \in Range(ops'), o2 \in timers' : o1.seq # o2.seq
    <3>1. timers \subseteq Known
      BY DEF Known, Waiting
    <3> QED BY <1>3, <1>5, <3>1 DEF SeqsApart
  <2>5. \A o1, o2 \in timers' : o1.seq = o2.seq => o1 = o2
    BY DEF SeqsApart
  <2>6. doing' # NoOp => /\ doing'.seq >= keeper'.last
                         /\ \A o \in Waiting' : o.seq # doing'.seq
    <3>1. doing # NoOp => doing \in Known
      BY DEF Known
    <3> QED BY <1>1, <1>4, <1>5, <3>1 DEF SeqsApart
  <2> QED BY <2>1, <2>2, <2>3, <2>4, <2>5, <2>6 DEF SeqsApart
<1>7. MarksLast'
  <2>1. \A i \in DOMAIN ops' : i \in DOMAIN ops \/ i = Len(ops) + 1
    BY <1>3, Numbers
  <2>2. \A i \in DOMAIN ops' : ops'[i].do # "mark"
    BY <1>2, <1>3, <2>1 DEF MarksLast
  <2> QED BY <1>2, <1>4, <2>2 DEF MarksLast
<1>8. \A o \in Known' : o.gen <= det'.gen
  BY <1>2, <1>4
<1> QED BY <1>3, <1>4, <1>6, <1>7, <1>8 DEF op

\* A step that leaves the queue alone, and makes no page.
LEMMA QueueQuiet ==
  ASSUME Queue, UNCHANGED <<keeping, det, keeps, news, journal>>,
         phase' # "down", phase' = "close" <=> phase = "close", Pages' \subseteq Pages
  PROVE  Queue'
<1>1. Known' = Known /\ Waiting' = Waiting /\ ops' = ops /\ timers' = timers /\ doing' = doing
      /\ keeper' = keeper /\ record' = record /\ synced' = synced
  BY DEF Known, Waiting, keeping
<1>2. SeqsApart' /\ MarksLast' /\ SettledShown'
  BY <1>1 DEF Queue, SeqsApart, MarksLast, SettledShown
<1>3. GensKnown' /\ NothingPagedUnkept' /\ NothingWhenDown'
  BY <1>1 DEF Queue, GensKnown, NothingPagedUnkept, NothingWhenDown
<1> QED BY <1>2, <1>3 DEF Queue

\* What the worker does, and loses, makes no page.
LEMMA PagesShrink ==
  ASSUME TypeOK, WorkerAdmits \/ WorkerFlushes \/ SpoolRefuses \/ Overflow \/ WindowEnds
  PROVE  /\ Pages' \subseteq Pages /\ UNCHANGED <<detection, keeping, budget, told, news, journal>>
         /\ hand # NoPage \/ phase # "down"
<1>1. buf \in Seq(Page)
  BY TypeParts DEF PagesTyped
<1>2. CASE WorkerAdmits
  <2>1. Range(buf) = {Head(buf)} \cup Range(Tail(buf))
    BY <1>1, <1>2, Taken DEF WorkerAdmits
  <2> QED BY <1>2, <2>1 DEF WorkerAdmits, Sending, Pages
<1>3. CASE WorkerFlushes
  BY <1>3 DEF WorkerFlushes, Sending, Pages
<1>4. CASE SpoolRefuses
  BY <1>4 DEF SpoolRefuses, Pages
<1>5. CASE Overflow
  <2>1. PICK i \in DOMAIN buf : buf' = RemoveAt(buf, i)
    BY <1>5 DEF Overflow
  <2>2. Range(buf') \subseteq Range(buf)
    BY <1>1, <2>1, Lost
  <2> QED BY <1>5, <2>2 DEF Overflow, Pages
<1>6. CASE WindowEnds
  BY <1>6 DEF WindowEnds, Pages
<1> QED BY <1>2, <1>3, <1>4, <1>5, <1>6

\* What leaves the queue alone in a run.
Quiet == /\ WorkerAdmits \/ WorkerFlushes \/ SpoolRefuses \/ Overflow \/ WindowEnds
            \/ Stop \/ PageWithoutRecord

\* It leaves the queue in order.
LEMMA QueueWhenQuiet ==
  ASSUME TypeOK, Queue, Quiet
  PROVE  /\ Queue' /\ phase # "down" /\ UNCHANGED <<keeping, det, keeps, news, journal>>
         /\ phase' # "down" /\ (phase' = "close" <=> phase = "close")
         /\ phase \in {"up", "stop"} <=> phase' \in {"up", "stop"}
<1>1. hand # NoPage => phase # "down"
  BY DEF Queue, NothingWhenDown
<1>2. CASE Stop \/ PageWithoutRecord
  <2>1. /\ UNCHANGED <<notifying, keeping, det, keeps, news, journal>>
        /\ phase = "up" /\ phase' \in {"up", "stop"}
    BY <1>2 DEF Stop, PageWithoutRecord, detection
  <2>2. Pages' = Pages
    BY <2>1 DEF Pages, notifying
  <2> QED BY <2>1, <2>2, QueueQuiet
<1>3. CASE WorkerAdmits \/ WorkerFlushes \/ SpoolRefuses \/ Overflow \/ WindowEnds
  BY <1>1, <1>3, PagesShrink, QueueQuiet DEF detection
<1> QED BY <1>2, <1>3 DEF Quiet

\* A run's first operation, if any, on a keeper that is new.
LEMMA QueueBegins ==
  ASSUME TypeOK, Queue, phase = "down", phase' = "up", DetSound(det'),
         UNCHANGED <<notifying, doing, timers, record, synced>>,
         keeps' \/ (det' = NewDetector /\ news' = NoMode),
         \/ UNCHANGED <<ops, keeper>>
         \/ \E do \in {"write", "refresh", "remove"}, mode \in Modes \cup {NoMode},
               gen \in Nat \cup {NoGen} : gen <= det'.gen /\ QueueOp(do, mode, gen)
  PROVE  Queue' /\ Pages' = {}
<1>1. /\ ops = <<>> /\ doing = NoOp /\ timers = {} /\ keeper = NewKeeper
      /\ buf = <<>> /\ held = NoPage /\ hand = NoPage
  BY DEF Queue, NothingWhenDown
<1>2. Pages = {} /\ Pages' = {}
  BY <1>1 DEF Pages, Range, notifying
<1>3. Known = {} /\ Waiting = {} /\ Range(ops) = {} /\ DOMAIN ops = {}
  BY <1>1 DEF Known, Waiting, Range
<1>4. SettledShown'
  <2>1. keeper'.settled = NoMode
    <3>1. QueueTyped /\ keeper.settled = NoMode
      BY <1>1, TypeParts DEF NewKeeper
    <3> QED BY <3>1, Queues
  <2> QED BY <1>1, <2>1, Nothings DEF SettledShown
<1>5. det'.gen \in Nat
  BY DEF DetSound, Detector
<1>6. SeqsApart' /\ MarksLast' /\ GensKnown'
  <2>1. CASE UNCHANGED <<ops, keeper>>
    <3>1. Known' = {} /\ Waiting' = {} /\ Range(ops') = {} /\ DOMAIN ops' = {}
      BY <1>1, <1>3, <2>1 DEF Known, Waiting
    <3> QED BY <1>1, <1>2, <2>1, <3>1, Nothings
        DEF SeqsApart, MarksLast, GensKnown, NewKeeper
  <2>2. CASE \E do \in {"write", "refresh", "remove"}, mode \in Modes \cup {NoMode},
               gen \in Nat \cup {NoGen} : gen <= det'.gen /\ QueueOp(do, mode, gen)
    <3>1. PICK do \in {"write", "refresh", "remove"}, mode \in Modes \cup {NoMode},
               gen \in Nat \cup {NoGen} : gen <= det'.gen /\ QueueOp(do, mode, gen)
      BY <2>2
    <3>2. Queued(do, mode, gen) \in Op /\ ops' = Append(ops, Queued(do, mode, gen))
          /\ keeper'.seq = keeper.seq + 1 /\ keeper'.last = keeper.last
      <4>1. QueueTyped
        BY TypeParts
      <4> QED BY <3>1, <4>1, Queues
    <3> DEFINE op == Queued(do, mode, gen)
    <3>3. op.seq = keeper.seq + 1 /\ op.do = do /\ op.gen = gen
      BY DEF Queued
    <3> HIDE DEF op
    <3>4. /\ DOMAIN ops' = 1 .. 1 /\ ops'[1] = op /\ Range(ops') = {op} /\ Len(ops') = 1
      <4>1. ops \in Seq(Op) /\ op \in Op
        BY <3>2, Numbers DEF op
      <4>2. ops' = Append(ops, op)
        BY <3>2 DEF op
      <4>3. /\ Len(Append(ops, op)) = Len(ops) + 1 /\ DOMAIN Append(ops, op) = 1 .. Len(ops) + 1
            /\ Append(ops, op)[Len(ops) + 1] = op
            /\ Range(Append(ops, op)) = Range(ops) \cup {op}
        BY <4>1, Appended
      <4>4. Len(ops) = 0
        BY <1>1
      <4> QED BY <1>3, <4>2, <4>3, <4>4
    <3>5. Known' = {op} /\ Waiting' = {op}
      BY <1>1, <3>4 DEF Known, Waiting
    <3>6. keeper'.seq = 1 /\ keeper'.last = 0 /\ op.seq = 1
      BY <1>1, <3>2, <3>3 DEF NewKeeper
    <3>7. SeqsApart'
      BY <1>1, <3>4, <3>5, <3>6 DEF SeqsApart
    <3>8. MarksLast'
      BY <1>1, <3>1, <3>3, <3>4, <3>5, Nothings DEF MarksLast
    <3>9. GensKnown'
      BY <1>2, <3>1, <3>3, <3>5 DEF GensKnown
    <3> QED BY <3>7, <3>8, <3>9
  <2> QED BY <2>1, <2>2
<1>7. NothingWhenDown' /\ NothingPagedUnkept'
  BY <1>2 DEF NothingWhenDown, NothingPagedUnkept
<1> QED BY <1>2, <1>4, <1>6, <1>7 DEF Queue

\* A tick of the controller.
LEMMA QueueObserves ==
  ASSUME TypeOK, Queue, Observe
  PROVE  Queue'
<1>1. PICK ends \in BOOLEAN, paged \in BOOLEAN, about \in Modes \cup {NoMode} :
           /\ DetSound(det') /\ det'.gen = IF ends THEN det.gen + 1 ELSE det.gen
           /\ buf' = IF paged THEN Append(buf, [mode |-> about, gen |-> det'.gen]) ELSE buf
           /\ IF ends THEN /\ QueueOp("remove", NoMode, NoGen)
                           /\ news' = NoMode /\ told' = NoMode
                      ELSE UNCHANGED <<ops, keeper, news, told>>
           /\ BudgetTyped' /\ phase = "up" /\ keeps
           /\ UNCHANGED <<phase, keeps, held, window, hand, doing, timers, record,
                          synced, journal>>
  BY ObserveCases
<1>2. det'.gen \in Nat /\ det'.gen >= det.gen
  BY <1>1, Numbers
<1>3. \A op \in Known : op.gen <= det'.gen
  BY <1>1, <1>2, Numbers DEF Queue, GensKnown
<1>4. SeqsApart' /\ MarksLast' /\ (\A op \in Known' : op.gen <= det'.gen)
      /\ keeper'.settled = keeper.settled
  <2>1. CASE ends
    <3>1. NoGen \in Nat \cup {NoGen} /\ NoGen <= det'.gen
      BY <1>2 DEF NoGen
    <3>2. QueueOp("remove", NoMode, NoGen) /\ QueueTyped
      BY <1>1, <2>1, TypeParts
    <3>3. keeper'.settled = keeper.settled
      BY <3>1, <3>2, Queues
    <3> QED BY <1>1, <1>2, <1>3, <3>1, <3>2, <3>3, QueueGrows DEF Queue
  <2>2. CASE ~ends
    <3>1. Known' = Known /\ Waiting' = Waiting /\ ops' = ops /\ keeper' = keeper
      BY <1>1, <2>2 DEF Known, Waiting
    <3> QED BY <1>1, <1>3, <3>1 DEF Queue, SeqsApart, MarksLast
  <2> QED BY <2>1, <2>2
<1>5. \A page \in Pages' : page.gen <= det'.gen
  <2>1. Pages' \subseteq Pages \cup {[mode |-> about, gen |-> det'.gen]}
    <3>1. buf \in Seq(Page) /\ [mode |-> about, gen |-> det'.gen] \in Page
      BY <1>2, TypeParts DEF PagesTyped, Page
    <3>2. Range(buf') \subseteq Range(buf) \cup {[mode |-> about, gen |-> det'.gen]}
      BY <1>1, <3>1, Appended
    <3> QED BY <1>1, <3>2 DEF Pages
  <2> QED BY <1>2, <2>1, Numbers DEF Queue, GensKnown
<1>6. SettledShown'
  BY <1>1, <1>4 DEF Queue, SettledShown
<1>7. NothingWhenDown' /\ NothingPagedUnkept'
  BY <1>1 DEF NothingWhenDown, NothingPagedUnkept
<1> QED BY <1>4, <1>5, <1>6, <1>7 DEF Queue, GensKnown

\* A page accepted.
LEMMA QueueAccepts ==
  ASSUME TypeOK, Queue, SpoolAccepts
  PROVE  Queue' /\ phase # "down"
<1>1. /\ hand # NoPage /\ hand' = NoPage /\ told' = Read(hand) /\ OnSent(hand)
      /\ UNCHANGED <<det, keeps, phase, buf, held, window, doing, timers, record, synced, budget,
                     journal>>
  BY DEF SpoolAccepts, detection
<1>2. phase # "down" /\ phase' = phase
  BY <1>1 DEF Queue, NothingWhenDown
<1>3. Pages' \subseteq Pages
  BY <1>1 DEF Pages
<1>4. hand \in Pages /\ keeps
  BY <1>1 DEF Pages, Queue, NothingPagedUnkept
<1>5. CASE phase = "close"
  <2>1. UNCHANGED <<keeping, news>>
    BY <1>1, <1>5 DEF OnSent, keeping
  <2> QED BY <1>1, <1>2, <1>3, <2>1, QueueQuiet
<1>6. CASE phase # "close"
  <2>1. /\ QueueOp(IF hand.mode = NoMode THEN "remove" ELSE "write", hand.mode, hand.gen)
        /\ QueueTyped
    BY <1>1, <1>6, TypeParts DEF OnSent
  <2>2. hand.mode \in Modes \cup {NoMode} /\ hand.gen \in Nat \cup {NoGen}
        /\ hand.gen <= det'.gen /\ det'.gen \in Nat
    BY <1>1, <1>4, Numbers DEF Queue, GensKnown, Page
  <2>3. \A op \in Known : op.gen <= det'.gen
    BY <1>1 DEF Queue, GensKnown
  <2>4. keeper'.settled = keeper.settled
    BY <2>1, <2>2, Queues
  <2>5. SeqsApart' /\ MarksLast' /\ \A op \in Known' : op.gen <= det'.gen
    BY <1>1, <1>2, <1>6, <2>1, <2>2, <2>3, QueueGrows DEF Queue
  <2>6. GensKnown'
    BY <1>1, <1>3, <2>5 DEF Queue, GensKnown
  <2>7. SettledShown'
    BY <1>1, <2>4 DEF Queue, SettledShown
  <2>8. NothingWhenDown' /\ NothingPagedUnkept'
    BY <1>1, <1>2, <1>4 DEF NothingWhenDown, NothingPagedUnkept
  <2> QED BY <1>2, <2>5, <2>6, <2>7, <2>8 DEF Queue
<1> QED BY <1>2, <1>5, <1>6

\* What the keeper finds when it takes an operation.
LEMMA TakesFirst ==
  ASSUME TypeOK, Queue, KeeperTakes
  PROVE  /\ phase # "down" /\ doing = NoOp /\ ops # <<>> /\ ops' = Tail(ops)
         /\ Head(ops) \in Op /\ Head(ops) = ops[1] /\ Head(ops) \in Waiting
         /\ Len(ops) \in Nat \ {0} /\ Len(ops') = Len(ops) - 1
         /\ DOMAIN ops = 1 .. Len(ops) /\ DOMAIN ops' = 1 .. Len(ops) - 1
         /\ \A i \in DOMAIN ops' : i + 1 \in DOMAIN ops /\ ops'[i] = ops[i + 1]
         /\ Range(ops) = {Head(ops)} \cup Range(ops')
         /\ \A op \in Range(ops') \cup timers : op.seq # Head(ops).seq
         /\ \/ Runs(Head(ops)) /\ doing' = Head(ops)
               /\ keeper' = IF Head(ops).do = "mark" THEN keeper
                            ELSE [keeper EXCEPT !.settled = NoMode]
            \/ ~Runs(Head(ops)) /\ UNCHANGED <<keeper, doing>>
         /\ UNCHANGED <<detection, notifying, timers, record, synced, budget, told, news, journal>>
<1>1. ops # <<>> /\ ops' = Tail(ops)
  BY DEF KeeperTakes
<1>2. /\ Head(ops) \in Op /\ Head(ops) = ops[1]
      /\ Len(ops) \in Nat \ {0} /\ Len(ops') = Len(ops) - 1
      /\ DOMAIN ops = 1 .. Len(ops) /\ DOMAIN ops' = 1 .. Len(ops) - 1
      /\ \A i \in DOMAIN ops' : ops'[i] = ops[i + 1]
      /\ Range(ops) = {Head(ops)} \cup Range(ops')
  BY <1>1, Numbers, Taken
<1>3. \A i \in DOMAIN ops' : i + 1 \in DOMAIN ops /\ i + 1 # 1
  BY <1>2
<1>4. 1 \in DOMAIN ops
  BY <1>2
<1>5. \A op \in Range(ops') : op.seq # Head(ops).seq
  <2>1. \A i \in DOMAIN ops' : ops[i + 1].seq # ops[1].seq
    BY <1>3, <1>4 DEF Queue, SeqsApart
  <2> QED BY <1>2, <2>1 DEF Range
<1>6. \A op \in timers : op.seq # Head(ops).seq
  BY <1>2 DEF Queue, SeqsApart
<1>7. /\ doing = NoOp /\ phase # "down"
      /\ UNCHANGED <<detection, notifying, timers, record, synced, budget, told, news, journal>>
      /\ \/ Runs(Head(ops)) /\ doing' = Head(ops)
            /\ keeper' = IF Head(ops).do = "mark" THEN keeper
                         ELSE [keeper EXCEPT !.settled = NoMode]
         \/ ~Runs(Head(ops)) /\ UNCHANGED <<keeper, doing>>
  BY DEF KeeperTakes
<1> QED BY <1>1, <1>2, <1>3, <1>5, <1>6, <1>7 DEF Waiting

\* The keeper takes an operation, or drops it.
LEMMA QueueTakes ==
  ASSUME TypeOK, Queue, KeeperTakes
  PROVE  Queue'
<1> DEFINE op == Head(ops)
<1>1. /\ phase # "down" /\ doing = NoOp /\ ops # <<>> /\ op \in Op /\ op = ops[1]
      /\ Len(ops) \in Nat \ {0} /\ Len(ops') = Len(ops) - 1
      /\ DOMAIN ops = 1 .. Len(ops) /\ DOMAIN ops' = 1 .. Len(ops) - 1
      /\ \A i \in DOMAIN ops' : i + 1 \in DOMAIN ops /\ ops'[i] = ops[i + 1]
      /\ Range(ops) = {op} \cup Range(ops')
      /\ \A o \in Range(ops') \cup timers : o.seq # op.seq
  BY TakesFirst
<1>2. \/ Runs(op) /\ doing' = op
         /\ keeper' = IF op.do = "mark" THEN keeper ELSE [keeper EXCEPT !.settled = NoMode]
      \/ ~Runs(op) /\ UNCHANGED <<keeper, doing>>
  BY TakesFirst
<1>3. UNCHANGED <<det, keeps, phase, buf, held, hand, timers, record, synced, news, journal>>
  BY TakesFirst DEF detection, notifying
<1> HIDE DEF op
<1>4. Pages' = Pages
  BY <1>3 DEF Pages
<1>5. keeper'.seq = keeper.seq /\ keeper'.last = keeper.last
      /\ keeper'.settled = IF Runs(op) /\ op.do # "mark" THEN NoMode ELSE keeper.settled
  <2>1. keeper \in Keeper
    BY TypeParts DEF QueueTyped
  <2> QED BY <1>2, <2>1 DEF Keeper
<1>6. Known' \subseteq Known /\ Waiting' \subseteq Waiting /\ op \in Known
  BY <1>1, <1>2, <1>3 DEF Known, Waiting
<1>7. SeqsApart'
  <2>1. \A i, j \in DOMAIN ops' : ops'[i].seq = ops'[j].seq => i = j
    <3>1. \A i, j \in DOMAIN ops' : i + 1 = j + 1 => i = j
      BY <1>1
    <3> QED BY <1>1, <3>1 DEF Queue, SeqsApart
  <2>2. \A o1 \in Range(ops'), o2 \in timers' : o1.seq # o2.seq
    BY <1>1, <1>3 DEF Queue, SeqsApart
  <2>3. doing' # NoOp => /\ doing'.seq >= keeper'.last
                         /\ \A o \in Waiting' : o.seq # doing'.seq
    BY <1>1, <1>2, <1>3, <1>5 DEF Runs, Waiting
  <2>4. \A o1, o2 \in timers' : o1.seq = o2.seq => o1 = o2
    BY <1>3 DEF Queue, SeqsApart
  <2>5. keeper'.last <= keeper'.seq /\ \A o \in Known' : o.seq \in 1 .. keeper'.seq
    BY <1>5, <1>6 DEF Queue, SeqsApart
  <2> QED BY <2>1, <2>2, <2>3, <2>4, <2>5 DEF SeqsApart
<1>8. GensKnown'
  BY <1>3, <1>4, <1>6 DEF Queue, GensKnown
<1>9. MarksLast'
  <2>1. op.do = "mark" => phase = "close" /\ Len(ops) = 1 /\ op.mode # NoMode
    BY <1>1, <1>6 DEF Queue, MarksLast
  <2>2. op.do = "mark" => ops' = <<>>
    <3>1. ops' \in Seq(Op) /\ (op.do = "mark" => Len(ops') = 0)
      <4>1. ops' = Tail(ops) /\ ops \in Seq(Op)
        BY Numbers DEF KeeperTakes
      <4> QED BY <1>1, <2>1, <4>1, Taken
    <3> QED BY <3>1
  <2>3. doing'.do = "mark" => phase' = "close" /\ ops' = <<>>
    BY <1>1, <1>2, <1>3, <2>1, <2>2, Nothings
  <2>4. \A i \in DOMAIN ops' : ops'[i].do = "mark" => phase' = "close" /\ i = Len(ops')
    <3>1. \A i \in DOMAIN ops' : i + 1 = Len(ops) => i = Len(ops')
      BY <1>1
    <3> QED BY <1>1, <1>3, <3>1 DEF Queue, MarksLast
  <2> QED BY <1>3, <1>6, <2>3, <2>4 DEF Queue, MarksLast
<1>10. SettledShown'
  BY <1>1, <1>2, <1>3, <1>5, Nothings DEF Queue, SettledShown, Runs
<1>11. NothingWhenDown' /\ NothingPagedUnkept'
  BY <1>1, <1>3, <1>4 DEF Queue, NothingWhenDown, NothingPagedUnkept
<1> QED BY <1>7, <1>8, <1>9, <1>10, <1>11 DEF Queue

\* The operation under way succeeds.
LEMMA QueueDoes ==
  ASSUME TypeOK, Queue, KeeperDoes
  PROVE  Queue'
<1>1. /\ phase # "down" /\ doing # NoOp /\ doing' = NoOp
      /\ record' = Result(doing) /\ synced' = Result(doing)
      /\ keeper' = [keeper EXCEPT !.last = doing.seq,
                                  !.settled = IF doing.do = "mark" THEN @ ELSE doing.mode]
      /\ journal' = [journal EXCEPT !.wrote = TRUE,
                                    !.lapsed = @ /\ doing.do \in {"refresh", "mark"}]
      /\ UNCHANGED <<det, keeps, phase, buf, held, window, hand, ops, timers, budget, told, news>>
  BY DEF KeeperDoes, detection, notifying
<1>2. doing \in Op /\ doing \in Known /\ keeper \in Keeper /\ journal \in Journal
  BY <1>1, TypeParts DEF WorkTyped, QueueTyped, HistoryTyped, Known
<1>3. /\ keeper'.seq = keeper.seq /\ keeper'.last = doing.seq
      /\ keeper'.settled = IF doing.do = "mark" THEN keeper.settled ELSE doing.mode
      /\ journal'.wrote
  BY <1>1, <1>2 DEF Keeper, Journal
<1>4. Pages' = Pages /\ Waiting' = Waiting /\ Known' \subseteq Known
  BY <1>1 DEF Pages, Waiting, Known
<1>5. SeqsApart'
  <2>1. doing.seq <= keeper.seq
    BY <1>2, Numbers DEF Queue, SeqsApart
  <2> QED BY <1>1, <1>3, <1>4, <2>1 DEF Queue, SeqsApart
<1>6. GensKnown'
  BY <1>1, <1>4 DEF Queue, GensKnown
<1>7. MarksLast'
  BY <1>1, <1>4, Nothings DEF Queue, MarksLast
<1>8. SettledShown'
  <2>1. record'.mode = doing.mode /\ synced'.mode = doing.mode
    BY <1>1, <1>2, ResultType
  <2> QED BY <1>1, <1>3, <2>1, Nothings DEF Queue, SettledShown
<1>9. NothingWhenDown' /\ NothingPagedUnkept'
  BY <1>1, <1>4 DEF Queue, NothingWhenDown, NothingPagedUnkept
<1> QED BY <1>5, <1>6, <1>7, <1>8, <1>9 DEF Queue

\* The operation under way is refused.
LEMMA QueueRefused ==
  ASSUME TypeOK, Queue, DiskRefuses
  PROVE  Queue'
<1>1. /\ phase # "down" /\ doing # NoOp /\ doing' = NoOp
      /\ record' \in {record, Result(doing)} /\ UNCHANGED synced
      /\ timers' = timers \cup Retries(doing)
      /\ keeper' = [keeper EXCEPT !.last = doing.seq,
                !.unreliable = @ \/ (doing.do = "refresh" /\ doing.tries + 1 >= Listed)]
      /\ journal' = [journal EXCEPT !.refused = TRUE]
      /\ UNCHANGED <<det, keeps, phase, buf, held, window, hand, ops, told, news>>
  BY DEF DiskRefuses, detection, notifying
<1>2. doing \in Op /\ doing \in Known /\ keeper \in Keeper /\ journal \in Journal
  BY <1>1, TypeParts DEF WorkTyped, QueueTyped, HistoryTyped, Known
<1>3. /\ keeper'.seq = keeper.seq /\ keeper'.last = doing.seq
      /\ keeper'.settled = keeper.settled /\ journal'.wrote = journal.wrote
  BY <1>1, <1>2 DEF Keeper, Journal
<1>4. Pages' = Pages /\ Waiting' = Waiting \cup Retries(doing)
  BY <1>1 DEF Pages, Waiting
<1>5. /\ \A again \in Retries(doing) : /\ again \in Op /\ again.do = doing.do
                                       /\ again.mode = doing.mode /\ again.gen = doing.gen
                                       /\ again.seq = doing.seq
      /\ \A a1, a2 \in Retries(doing) : a1 = a2
      /\ phase = "close" => Retries(doing) = {}
  BY <1>2, RetryType DEF Retries
<1>6. Known' = Waiting \cup Retries(doing)
  BY <1>1, <1>4 DEF Known
<1>7. SeqsApart'
  <2>1. doing.seq \in 1 .. keeper.seq
    BY <1>2 DEF Queue, SeqsApart
  <2>2. keeper'.last <= keeper'.seq
    BY <1>3, <2>1, Numbers
  <2>3. \A o \in Known' : o.seq \in 1 .. keeper'.seq
    BY <1>3, <1>5, <1>6, <2>1 DEF Queue, SeqsApart, Known
  <2>4. \A o1 \in Range(ops'), o2 \in timers' : o1.seq # o2.seq
    <3>1. \A o1 \in Range(ops) : o1.seq # doing.seq
      BY <1>1 DEF Queue, SeqsApart, Waiting
    <3> QED BY <1>1, <1>5, <3>1 DEF Queue, SeqsApart
  <2>5. \A o1, o2 \in timers' : o1.seq = o2.seq => o1 = o2
    <3>1. \A o1 \in timers : o1.seq # doing.seq
      BY <1>1 DEF Queue, SeqsApart, Waiting
    <3> QED BY <1>1, <1>5, <3>1 DEF Queue, SeqsApart
  <2> QED BY <1>1, <2>2, <2>3, <2>4, <2>5 DEF Queue, SeqsApart
<1>8. GensKnown'
  BY <1>1, <1>2, <1>4, <1>5, <1>6 DEF Queue, GensKnown, Known
<1>9. MarksLast'
  <2>1. \A again \in Retries(doing) : again.do # "mark"
    BY <1>5 DEF Queue, MarksLast
  <2> QED BY <1>1, <1>5, <1>6, <2>1, Nothings DEF Queue, MarksLast, Known
<1>10. SettledShown'
  <2>1. Result(doing).mode = doing.mode /\ (keeper.settled # NoMode => doing.do = "mark")
    BY <1>1, <1>2, ResultType, TypeParts DEF SettledTyped
  <2> QED BY <1>1, <1>3, <2>1, Nothings DEF Queue, SettledShown
<1>11. NothingWhenDown' /\ NothingPagedUnkept'
  BY <1>1, <1>4 DEF Queue, NothingWhenDown, NothingPagedUnkept
<1> QED BY <1>7, <1>8, <1>9, <1>10, <1>11 DEF Queue

\* A retry that is due goes behind the others.
LEMMA QueueRetries ==
  ASSUME TypeOK, Queue, RetryDue
  PROVE  Queue' /\ Known' = Known /\ Waiting' = Waiting /\ phase \in {"up", "stop"}
<1>1. /\ phase \in {"up", "stop"}
      /\ UNCHANGED <<det, keeps, phase, buf, held, window, hand, doing, keeper, record, synced,
                     news, journal>>
  BY DEF RetryDue, detection, notifying
<1>2. PICK op \in timers : ops' = Append(ops, op) /\ timers' = timers \ {op}
  BY DEF RetryDue
<1>3. ops \in Seq(Op) /\ op \in Op
  BY TypeParts DEF WorkTyped, QueueTyped
<1>4. /\ Len(Append(ops, op)) = Len(ops) + 1 /\ DOMAIN Append(ops, op) = 1 .. Len(ops) + 1
      /\ Append(ops, op)[Len(ops) + 1] = op /\ Range(Append(ops, op)) = Range(ops) \cup {op}
      /\ \A i \in DOMAIN ops : Append(ops, op)[i] = ops[i]
      /\ DOMAIN ops = 1 .. Len(ops) /\ Len(ops) \in Nat
  BY <1>3, Appended
<1>5. Waiting' = Waiting /\ Known' = Known /\ Pages' = Pages
  BY <1>1, <1>2, <1>4 DEF Waiting, Known, Pages
<1>6. SeqsApart'
  <2>1. \A i \in DOMAIN ops : ops[i].seq # op.seq
    BY <1>2 DEF Queue, SeqsApart, Range
  <2>2. \A i, j \in DOMAIN ops' : ops'[i].seq = ops'[j].seq => i = j
    <3>1. \A i \in DOMAIN ops' : i \in DOMAIN ops \/ i = Len(ops) + 1
      BY <1>2, <1>4
    <3> QED BY <1>2, <1>4, <2>1, <3>1 DEF Queue, SeqsApart
  <2>3. \A o1 \in Range(ops'), o2 \in timers' : o1.seq # o2.seq
    BY <1>2, <1>4 DEF Queue, SeqsApart
  <2>4. \A o1, o2 \in timers' : o1.seq = o2.seq => o1 = o2
    BY <1>2 DEF Queue, SeqsApart
  <2> QED BY <1>1, <1>5, <2>2, <2>3, <2>4 DEF Queue, SeqsApart
<1>7. GensKnown'
  BY <1>1, <1>5 DEF Queue, GensKnown
<1>8. MarksLast'
  <2>1. op.do # "mark" /\ \A i \in DOMAIN ops : ops[i].do # "mark"
    BY <1>1, <1>2 DEF Queue, MarksLast
  <2>2. \A i \in DOMAIN ops' : ops'[i].do # "mark"
    <3>1. \A i \in DOMAIN ops' : i \in DOMAIN ops \/ i = Len(ops) + 1
      BY <1>2, <1>4
    <3> QED BY <1>2, <1>4, <2>1, <3>1
  <2>3. doing'.do # "mark" /\ \A o \in timers' : o.do # "mark"
    BY <1>1, <1>2 DEF Queue, MarksLast
  <2> QED BY <1>1, <1>5, <2>2, <2>3 DEF Queue, MarksLast
<1>9. SettledShown'
  BY <1>1 DEF Queue, SettledShown
<1>10. NothingWhenDown' /\ NothingPagedUnkept'
  BY <1>1, <1>5 DEF Queue, NothingWhenDown, NothingPagedUnkept
<1> QED BY <1>1, <1>5, <1>6, <1>7, <1>8, <1>9, <1>10 DEF Queue

\* The row that close() puts behind the queue: no number twice, the mark last.
LEMMA CloseRow ==
  ASSUME Typed, Queue, Close
  PROVE  LET marks == MarkWorthy(det') /\ keeps
             mark  == Queued("mark", det'.alert, NoGen)
         IN  \E more \in Seq(Op) :
               /\ ops' = ops \o more
               /\ Range(more) = timers \cup IF marks THEN {mark} ELSE {}
               /\ \A i, j \in DOMAIN more : more[i].seq = more[j].seq => i = j
               /\ \A i \in DOMAIN more : more[i].do = "mark" => i = Len(more)
               /\ marks => Len(more) > 0 /\ more[Len(more)] = mark /\ mark \in Op
<1> DEFINE marks == MarkWorthy(det') /\ keeps
           mark  == Queued("mark", det'.alert, NoGen)
           last  == IF marks THEN <<mark>> ELSE <<>>
<1>1. PICK pending \in InOrder(timers) :
        /\ pending \in Seq(Op) /\ Range(pending) = timers
        /\ pending \o last \in Seq(Op) /\ ops' = ops \o (pending \o last)
        /\ Range(pending \o last) = timers \cup IF marks THEN {mark} ELSE {}
  BY CloseQueues DEF Typed
<1>2. marks => mark \in Op
  BY CloseQueues DEF Typed
<1>3. mark.do = "mark" /\ mark.seq = keeper.seq + 1
  BY DEF Queued
<1>4. /\ pending \in Seq(Op) /\ Len(pending) \in Nat /\ DOMAIN pending = 1 .. Len(pending)
      /\ \A i, j \in DOMAIN pending : i < j => pending[i].seq < pending[j].seq
  BY <1>1 DEF InOrder
<1>5. \A i \in DOMAIN pending : /\ pending[i] \in timers /\ pending[i] \in Op
                                /\ pending[i].do # "mark"
                                /\ pending[i].seq \in 1 .. keeper.seq
  <2>1. \A i \in DOMAIN pending : pending[i] \in timers
    BY <1>1 DEF Range
  <2> QED BY <1>4, <2>1 DEF Queue, MarksLast, SeqsApart, Known, Waiting
<1>6. \A i, j \in DOMAIN pending : pending[i].seq = pending[j].seq => i = j
  <2>1. \A i, j \in DOMAIN pending : i < j \/ j < i \/ i = j
    BY <1>4
  <2>2. \A i \in DOMAIN pending : pending[i].seq \in Nat
    BY <1>5
  <2> QED BY <1>4, <2>1, <2>2
<1> HIDE DEF marks, mark, last
<1>7. CASE marks
  <2>1. last = <<mark>> /\ mark \in Op
    BY <1>2, <1>7 DEF last
  <2>2. pending \o last = Append(pending, mark)
    BY <1>4, <2>1
  <2>3. /\ Len(Append(pending, mark)) = Len(pending) + 1
        /\ DOMAIN Append(pending, mark) = 1 .. Len(pending) + 1
        /\ Append(pending, mark)[Len(pending) + 1] = mark
        /\ \A i \in DOMAIN pending : Append(pending, mark)[i] = pending[i]
    BY <1>4, <2>1, Appended
  <2>4. \A i \in DOMAIN Append(pending, mark) : i \in DOMAIN pending \/ i = Len(pending) + 1
    BY <1>4, <2>3
  <2>5. \A i \in DOMAIN pending : pending[i].seq # mark.seq
    BY <1>3, <1>5, Numbers DEF Typed
  <2> DEFINE more == pending \o last
  <2>6. /\ \A i, j \in DOMAIN more : more[i].seq = more[j].seq => i = j
        /\ \A i \in DOMAIN more : more[i].do = "mark" => i = Len(more)
        /\ Len(more) > 0 /\ more[Len(more)] = mark
    BY <1>4, <1>5, <1>6, <2>2, <2>3, <2>4, <2>5
  <2> HIDE DEF more
  <2> QED BY <1>1, <1>7, <2>1, <2>6 DEF marks, mark, more
<1>8. CASE ~marks
  <2>1. last = <<>>
    BY <1>8 DEF last
  <2>2. pending \o last = pending
    BY <1>4, <2>1
  <2> QED BY <1>1, <1>5, <1>6, <1>8, <2>2 DEF marks, mark
<1> QED BY <1>7, <1>8

\* The keeper is closed.
LEMMA QueueCloses ==
  ASSUME Typed, Queue, Close
  PROVE  Queue'
<1> DEFINE marks == MarkWorthy(det') /\ keeps
           mark  == Queued("mark", det'.alert, NoGen)
<1>1. /\ phase = "stop" /\ phase' = "close" /\ timers' = {}
      /\ UNCHANGED <<keeps, buf, held, window, hand, doing, record, synced, news, journal>>
      /\ keeper' = [keeper EXCEPT !.seq = IF marks THEN @ + 1 ELSE @]
  BY DEF Close, notifying
<1>2. PICK more \in Seq(Op) :
        /\ ops' = ops \o more
        /\ Range(more) = timers \cup IF marks THEN {mark} ELSE {}
        /\ \A i, j \in DOMAIN more : more[i].seq = more[j].seq => i = j
        /\ \A i \in DOMAIN more : more[i].do = "mark" => i = Len(more)
        /\ marks => mark \in Op
  BY CloseRow
<1>3. DetSound(det') /\ det' = Doubted(det) /\ det'.gen = det.gen
  BY CloseQueues DEF Typed
<1>4. /\ mark.do = "mark" /\ mark.seq = keeper.seq + 1 /\ mark.gen = NoGen
      /\ marks => mark.mode # NoMode
  BY DEF Queued, MarkWorthy
<1>5. /\ keeper'.last = keeper.last /\ keeper'.settled = keeper.settled
      /\ keeper'.seq = IF marks THEN keeper.seq + 1 ELSE keeper.seq
  <2>1. keeper \in Keeper
    BY TypeParts DEF Typed, QueueTyped
  <2> QED BY <1>1, <2>1 DEF Keeper
<1> HIDE DEF mark, marks
<1>6. /\ ops \in Seq(Op) /\ Len(ops) \in Nat /\ Len(more) \in Nat
      /\ Len(ops \o more) = Len(ops) + Len(more)
      /\ DOMAIN ops = 1 .. Len(ops) /\ DOMAIN more = 1 .. Len(more)
      /\ DOMAIN (ops \o more) = 1 .. Len(ops) + Len(more)
      /\ \A i \in DOMAIN ops : (ops \o more)[i] = ops[i]
      /\ \A i \in DOMAIN more : (ops \o more)[Len(ops) + i] = more[i]
      /\ Range(ops \o more) = Range(ops) \cup Range(more)
  <2>1. ops \in Seq(Op)
    BY TypeParts DEF Typed, QueueTyped
  <2> QED BY <2>1, Joined
<1>7. \A i \in DOMAIN ops' : \/ i \in DOMAIN ops /\ ops'[i] = ops[i]
                             \/ /\ i - Len(ops) \in DOMAIN more
                                /\ ops'[i] = more[i - Len(ops)]
  <2>1. \A i \in 1 .. Len(ops) + Len(more) :
           i \in 1 .. Len(ops) \/ (i - Len(ops) \in 1 .. Len(more) /\ Len(ops) + (i - Len(ops)) = i)
    BY <1>6
  <2> QED BY <1>2, <1>6, <2>1
<1>8. Waiting' = Waiting \cup (IF marks THEN {mark} ELSE {})
      /\ Known' = Known \cup (IF marks THEN {mark} ELSE {}) /\ Pages' = Pages
  BY <1>1, <1>2, <1>6 DEF Waiting, Known, Pages
<1>9. keeper.seq \in Nat /\ keeper.last \in Nat
  BY Numbers DEF Typed
<1>10. SeqsApart'
  <2>1. keeper'.last <= keeper'.seq
    BY <1>5, <1>9 DEF Queue, SeqsApart
  <2>2. \A o \in Known' : o.seq \in 1 .. keeper'.seq
    BY <1>4, <1>5, <1>8, <1>9 DEF Queue, SeqsApart
  <2>3. \A i \in DOMAIN ops : \A o \in Range(more) : ops[i].seq # o.seq
    <3>1. \A i \in DOMAIN ops : ops[i] \in Range(ops) /\ ops[i] \in Known
      BY DEF Range, Known, Waiting
    <3>2. \A i \in DOMAIN ops : ops[i].seq # keeper.seq + 1
      BY <1>9, <3>1 DEF Queue, SeqsApart
    <3> QED BY <1>2, <1>4, <3>1, <3>2 DEF Queue, SeqsApart
  <2>4. \A i, j \in DOMAIN ops' : ops'[i].seq = ops'[j].seq => i = j
    <3>1. \A i \in DOMAIN more : more[i] \in Range(more)
      BY DEF Range
    <3>2. \A i, j \in DOMAIN ops' : i - Len(ops) = j - Len(ops) => i = j
      BY <1>2, <1>6
    <3> QED BY <1>2, <1>7, <2>3, <3>1, <3>2 DEF Queue, SeqsApart
  <2>5. doing' # NoOp => /\ doing'.seq >= keeper'.last
                         /\ \A o \in Waiting' : o.seq # doing'.seq
    <3>1. doing # NoOp => doing \in Known
      BY DEF Known
    <3> QED BY <1>1, <1>4, <1>5, <1>8, <1>9, <3>1 DEF Queue, SeqsApart
  <2> QED BY <1>1, <2>1, <2>2, <2>4, <2>5 DEF SeqsApart
<1>11. GensKnown'
  <2>1. det'.gen \in Nat /\ NoGen <= det'.gen
    BY <1>3 DEF DetSound, Detector, NoGen
  <2> QED BY <1>3, <1>4, <1>8, <2>1 DEF Queue, GensKnown
<1>12. MarksLast'
  <2>1. \A i \in DOMAIN ops' : ops'[i].do = "mark" => i = Len(ops')
    <3>1. \A i \in DOMAIN ops : ops[i].do # "mark"
      BY <1>1 DEF Queue, MarksLast
    <3>2. \A i \in DOMAIN ops' : i - Len(ops) = Len(more) => i = Len(ops')
      BY <1>2, <1>6
    <3> QED BY <1>2, <1>7, <3>1, <3>2
  <2>2. doing'.do # "mark"
    BY <1>1 DEF Queue, MarksLast
  <2> QED BY <1>1, <1>4, <1>8, <2>1, <2>2 DEF Queue, MarksLast
<1>13. SettledShown'
  BY <1>1, <1>5 DEF Queue, SettledShown
<1>14. NothingWhenDown' /\ NothingPagedUnkept'
  <2>1. ~keeps => det' = NewDetector
    BY <1>3 DEF Queue, NothingPagedUnkept, NewDetector, Doubted
  <2> QED BY <1>1, <1>8, <2>1 DEF Queue, NothingWhenDown, NothingPagedUnkept
<1> QED BY <1>10, <1>11, <1>12, <1>13, <1>14 DEF Queue

\* A run begins, with its record or without.
LEMMA QueueStarts ==
  ASSUME Typed, Queue, Seed \/ StartWithoutRecord
  PROVE  Queue' /\ phase = "down" /\ phase' = "up" /\ Pages' = {}
<1>1. TypeOK
  BY DEF Typed
<1>2. NoGen \in Nat \cup {NoGen} /\ NoMode \in Modes \cup {NoMode}
  OBVIOUS
<1>3. CASE Seed
  <2>1. PICK mode \in Selectable, readable \in BOOLEAN : \E status \in StatusesOf(mode) :
          /\ phase = "down" /\ phase' = "up" /\ keeps'
          /\ UNCHANGED <<notifying, doing, timers, record, synced>>
          /\ \/ det' = Ended(Fresh(mode, status)) /\ QueueOp("remove", NoMode, NoGen)
             \/ /\ record.mode = mode
                /\ det' = Adopted(Fresh(mode, status), record)
                /\ IF det'.adopted THEN QueueOp("refresh", mode, det'.gen)
                                   ELSE UNCHANGED <<ops, keeper>>
             \/ det' = Fresh(mode, status) /\ UNCHANGED <<ops, keeper>>
    BY <1>3, SeedCases
  <2>2. PICK status \in StatusesOf(mode) :
          \/ det' = Ended(Fresh(mode, status)) /\ QueueOp("remove", NoMode, NoGen)
          \/ /\ record.mode = mode
             /\ det' = Adopted(Fresh(mode, status), record)
             /\ IF det'.adopted THEN QueueOp("refresh", mode, det'.gen)
                                ELSE UNCHANGED <<ops, keeper>>
          \/ det' = Fresh(mode, status) /\ UNCHANGED <<ops, keeper>>
    BY <2>1
  <2>3. DetSound(det')
    BY <1>1, <1>3, TypeStep, TypeParts DEF Typed, Next
  <2>4. det'.gen \in Nat /\ NoGen <= det'.gen
    BY <2>3 DEF DetSound, Detector, NoGen
  <2>5. \/ UNCHANGED <<ops, keeper>>
        \/ QueueOp("remove", NoMode, NoGen)
        \/ mode \in Modes \cup {NoMode} /\ QueueOp("refresh", mode, det'.gen)
    <3>1. record.mode \in Modes \cup {NoMode}
      BY <1>1, TypeParts DEF WorkTyped, Record
    <3> QED BY <2>2, <3>1
  <2>6. \/ UNCHANGED <<ops, keeper>>
        \/ \E do \in {"write", "refresh", "remove"}, m \in Modes \cup {NoMode},
              gen \in Nat \cup {NoGen} : gen <= det'.gen /\ QueueOp(do, m, gen)
    <3>1. CASE QueueOp("remove", NoMode, NoGen)
      BY <1>2, <2>4, <3>1
    <3>2. CASE mode \in Modes \cup {NoMode} /\ QueueOp("refresh", mode, det'.gen)
      BY <2>4, <3>2
    <3> QED BY <2>5, <3>1, <3>2
  <2> QED BY <1>1, <2>1, <2>3, <2>6, QueueBegins
<1>4. CASE StartWithoutRecord
  <2>1. /\ phase = "down" /\ phase' = "up" /\ QueueOp("remove", NoMode, NoGen) /\ news' = NoMode
        /\ UNCHANGED <<det, notifying, doing, timers, record, synced>>
    BY <1>4 DEF StartWithoutRecord
  <2>2. det' = NewDetector /\ DetSound(det') /\ NoGen <= det'.gen
    BY <2>1, NewDetectorSound DEF Queue, NothingWhenDown, NoGen
  <2> QED BY <1>1, <1>2, <2>1, <2>2, QueueBegins
<1> QED BY <1>3, <1>4

\* Whatever a step does, the queue stays in order.
LEMMA QueueStep == Typed /\ Queue /\ [Next]_vars => Queue'
<1> SUFFICES ASSUME Typed, Queue, [Next]_vars PROVE Queue'
  OBVIOUS
<1>1. TypeOK
  BY DEF Typed
<1>2. CASE Seed \/ StartWithoutRecord
  BY <1>2, QueueStarts
<1>3. CASE Quiet
  BY <1>1, <1>3, QueueWhenQuiet
<1>4. CASE Observe
  BY <1>1, <1>4, QueueObserves
<1>5. CASE SpoolAccepts
  BY <1>1, <1>5, QueueAccepts
<1>6. CASE KeeperTakes
  BY <1>1, <1>6, QueueTakes
<1>7. CASE KeeperDoes
  BY <1>1, <1>7, QueueDoes
<1>8. CASE DiskRefuses
  BY <1>1, <1>8, QueueRefused
<1>9. CASE RetryDue
  BY <1>1, <1>9, QueueRetries
<1>10. CASE Close
  BY <1>10, QueueCloses
<1>11. CASE Exit \/ PowerLoss
  BY <1>11, QueueEnds DEF Exit, PowerLoss
<1>12. CASE UNCHANGED vars
  <2>1. UNCHANGED <<keeping, det, keeps, news, journal, phase, buf, held, hand>>
    BY <1>12 DEF vars, detection, notifying
  <2>2. Known' = Known /\ Waiting' = Waiting /\ Pages' = Pages
    BY <2>1 DEF Known, Waiting, Pages, keeping
  <2> QED BY <2>1, <2>2 DEF Queue, NothingWhenDown, NothingPagedUnkept, SeqsApart, GensKnown,
            MarksLast, SettledShown, keeping
<1> QED BY <1>2, <1>3, <1>4, <1>5, <1>6, <1>7, <1>8, <1>9, <1>10, <1>11, <1>12 DEF Next, Quiet

\* The queue is in order, whatever the threads' order, the retries and the
\* closing of the keeper (EgressRecordKeeper).
LEMMA QueueCorrect == Spec => [](Typed /\ Queue)
<1>1. Init => Typed
  BY TypeInit, FS_EmptySet DEF Typed, Init
<1> QED BY <1>1, QueueInit, TypeStep, QueueStep, PTL DEF Spec

-----------------------------------------------------------------------------
(* What is still to be written, and what the record was last told.         *)

\* The operation that leaves the record at what it was last told.
Leads(op) == /\ op \in Outstanding /\ Counts(op) /\ op.mode = news
             /\ \A other \in Outstanding : other.seq <= op.seq

\* While a run lasts, the last change told is the last to be written, or the
\* record shows it.  Only a refusal while the keeper closes may lose it, and
\* then no mark will tell the next start to trust the record.
LastTold ==
  phase # "down" =>
    \/ \E op \in Outstanding : Leads(op)
    \/ /\ Outstanding = {}
       /\ \/ news = record.mode
          \/ phase = "close" /\ journal.refused /\ keeper.settled = NoMode

\* What is outstanding is known, and apart in its numbers.
LEMMA OutstandingKnown ==
  ASSUME TypeOK, Queue
  PROVE  /\ Outstanding \subseteq Known /\ Outstanding \subseteq Op
         /\ \A op1, op2 \in Known : op1.seq = op2.seq => op1 = op2
         /\ Outstanding = {op \in Waiting : Changes(op) /\ Counts(op)}
                            \cup {op \in {doing} : Changes(op)}
         /\ ~Changes(NoOp)
<1>1. ~Changes(NoOp)
  BY DEF Changes, NoOp
<1>2. Outstanding \subseteq Known
  BY <1>1 DEF Outstanding, Known, Waiting
<1>3. \A op1, op2 \in Range(ops) : op1.seq = op2.seq => op1 = op2
  BY DEF Queue, SeqsApart, Range
<1>4. \A op1, op2 \in Known : op1.seq = op2.seq => op1 = op2
  BY <1>3 DEF Queue, SeqsApart, Known, Waiting
<1> QED BY <1>1, <1>2, <1>4, Numbers DEF Outstanding, Waiting

\* A step that leaves the queue and the generation alone.
LEMMA OwedUnchanged ==
  ASSUME Waiting' = Waiting, doing' = doing, keeper'.last = keeper.last, det'.gen = det.gen
  PROVE  Outstanding' = Outstanding /\ \A op : Counts(op)' <=> Counts(op)
BY DEF Outstanding, Waiting, Counts, Changes

\* An operation more on the queue: it counts, or nothing changes.
LEMMA OwedGrows ==
  ASSUME TypeOK, Queue, det'.gen \in Nat, det'.gen >= det.gen,
         NEW do \in {"write", "refresh", "remove"},
         NEW mode \in Modes \cup {NoMode}, NEW gen \in Nat \cup {NoGen},
         gen \in {NoGen, det'.gen} \/ det'.gen = det.gen,
         QueueOp(do, mode, gen), UNCHANGED <<doing, timers>>,
         NEW op, op = Queued(do, mode, gen)
  PROVE  /\ gen \notin {NoGen, det'.gen} => Outstanding' = Outstanding
                                            /\ \A o : Counts(o)' <=> Counts(o)
         /\ gen \in {NoGen, det'.gen} =>
              /\ op \in Outstanding' /\ Outstanding' \subseteq Outstanding \cup {op}
              /\ Counts(op)' /\ op.mode = mode /\ \A o \in Outstanding' : o.seq <= op.seq
<1>1. /\ op \in Op /\ ops' = Append(ops, op) /\ keeper'.last = keeper.last
  <2>1. QueueTyped
    BY TypeParts
  <2> QED BY <2>1, Queues
<1>2. op.seq = keeper.seq + 1 /\ op.do = do /\ op.gen = gen /\ op.mode = mode
  BY DEF Queued
<1>3. Range(ops') = Range(ops) \cup {op}
  BY <1>1, Numbers, Appended
<1>4. Waiting' = Waiting \cup {op}
  BY <1>3 DEF Waiting
<1>5. Changes(op) /\ (Counts(op)' <=> gen \in {NoGen, det'.gen})
  <2>1. op.seq >= keeper'.last
    BY <1>1, <1>2, Numbers DEF Queue, SeqsApart
  <2> QED BY <1>2, <2>1 DEF Changes, Counts
<1>6. \A o \in Known : Counts(o)' => Counts(o)
  BY <1>1, Numbers DEF Counts, Queue, GensKnown, NoGen
<1>7. /\ Outstanding' = {o \in Waiting' : Changes(o) /\ Counts(o)'}
                          \cup {o \in {doing} : Changes(o)}
      /\ Outstanding = {o \in Waiting : Changes(o) /\ Counts(o)}
                          \cup {o \in {doing} : Changes(o)}
  BY DEF Outstanding, Waiting, Changes
<1>8. Waiting \subseteq Known
  BY DEF Known
<1>9. CASE gen \notin {NoGen, det'.gen}
  <2>1. \A o : Counts(o)' <=> Counts(o)
    BY <1>1, <1>9 DEF Counts
  <2>2. \A o \in {op} : ~Counts(o)
    BY <1>5, <1>9, <2>1
  <2>3. Outstanding' = Outstanding
    BY <1>4, <1>7, <2>1, <2>2
  <2> QED BY <1>9, <2>1, <2>3
<1>10. CASE gen \in {NoGen, det'.gen}
  <2>1. op \in Outstanding' /\ Outstanding' \subseteq Outstanding \cup {op}
    <3>1. \A o \in Waiting : Counts(o)' => Counts(o)
      BY <1>6, <1>8
    <3>2. Counts(op)'
      BY <1>5, <1>10
    <3> QED BY <1>4, <1>5, <1>7, <3>1, <3>2
  <2>2. \A o \in Outstanding' : o.seq <= op.seq
    <3>1. \A o \in Outstanding : o.seq <= op.seq
      BY <1>2, OutstandingKnown, Numbers DEF Queue, SeqsApart
    <3> QED BY <1>1, <2>1, <3>1, Numbers
  <2> QED BY <1>2, <1>5, <1>10, <2>1, <2>2
<1> QED BY <1>9, <1>10

\* The keeper takes what counts, and drops what does not.
LEMMA OwedTaken ==
  ASSUME TypeOK, Queue, KeeperTakes
  PROVE  Outstanding' = Outstanding /\ \A op : Counts(op)' <=> Counts(op)
<1> DEFINE first == Head(ops)
<1>1. /\ doing = NoOp /\ Range(ops) = {first} \cup Range(ops')
      /\ det' = det /\ timers' = timers
      /\ \/ Runs(first) /\ doing' = first
            /\ keeper' = IF first.do = "mark" THEN keeper
                         ELSE [keeper EXCEPT !.settled = NoMode]
         \/ ~Runs(first) /\ UNCHANGED <<keeper, doing>>
      /\ first \in Op
  BY TakesFirst DEF detection
<1> HIDE DEF first
<1>2. keeper'.last = keeper.last
  <2>1. keeper \in Keeper
    BY TypeParts DEF QueueTyped
  <2> QED BY <1>1, <2>1 DEF Keeper
<1>3. \A op : Counts(op)' <=> Counts(op)
  BY <1>1, <1>2 DEF Counts
<1>4. Changes(first) => (Runs(first) <=> Counts(first))
  BY DEF Changes, Runs, Counts
<1>5. /\ Outstanding' = {o \in Range(ops') \cup timers : Changes(o) /\ Counts(o)}
                          \cup {o \in {doing'} : Changes(o)}
      /\ Outstanding = {o \in Range(ops) \cup timers : Changes(o) /\ Counts(o)}
                          \cup {o \in {doing} : Changes(o)}
  BY <1>1, <1>3 DEF Outstanding, Changes
<1>6. ~Changes(NoOp)
  BY DEF Changes, NoOp
<1>7. CASE Runs(first) /\ doing' = first
  BY <1>1, <1>3, <1>4, <1>5, <1>6, <1>7
<1>8. CASE ~Runs(first) /\ doing' = doing
  BY <1>1, <1>3, <1>4, <1>5, <1>6, <1>8
<1> QED BY <1>1, <1>3, <1>7, <1>8

\* An operation done or refused makes those before it count no more; it counts
\* itself as long as it is to be tried again.
LEMMA OwedWorked ==
  ASSUME TypeOK, Queue, doing # NoOp, doing' = NoOp, UNCHANGED <<ops, det>>,
         keeper'.last = doing.seq,
         NEW again, timers' = timers \cup again, again \subseteq Retries(doing)
  PROVE  /\ Outstanding' = {op \in Outstanding : op.seq > doing.seq}
                              \cup {op \in again : Changes(op) /\ op.gen \in {NoGen, det.gen}}
         /\ \A op \in Outstanding : op.seq > doing.seq => (Counts(op)' <=> Counts(op))
         /\ \A op \in again : Counts(op)' <=> op.gen \in {NoGen, det.gen}
<1>1. doing \in Op /\ doing \in Known
  BY TypeParts DEF WorkTyped, Known
<1>2. \A op \in again : op \in Op /\ op.seq = doing.seq
  BY <1>1, RetryType
<1>3. doing.seq \in Nat /\ keeper.last \in Nat /\ doing.seq >= keeper.last
  BY <1>1, Numbers DEF Queue, SeqsApart
<1>4. \A op \in Waiting : op.seq # doing.seq /\ op.seq \in Nat
  BY Numbers DEF Queue, SeqsApart
<1>5. Waiting' = Waiting \cup again
  BY DEF Waiting
<1>6. \A op \in Waiting : Counts(op)' <=> Counts(op) /\ op.seq > doing.seq
  BY <1>3, <1>4 DEF Counts
<1>7. \A op \in again : Counts(op)' <=> op.gen \in {NoGen, det.gen}
  BY <1>2, <1>3 DEF Counts
<1>8. Outstanding' = {op \in Waiting' : Changes(op) /\ Counts(op)'}
  <2>1. ~Changes(NoOp)
    BY DEF Changes, NoOp
  <2> QED BY <2>1 DEF Outstanding, Waiting, Changes
<1>9. Outstanding = {op \in Waiting : Changes(op) /\ Counts(op)}
                       \cup {op \in {doing} : Changes(op)}
  BY DEF Outstanding, Waiting
<1>10. Outstanding' = {op \in Outstanding : op.seq > doing.seq}
                         \cup {op \in again : Changes(op) /\ op.gen \in {NoGen, det.gen}}
  BY <1>3, <1>5, <1>6, <1>7, <1>8, <1>9
<1>11. \A op \in Outstanding : op.seq > doing.seq => (Counts(op)' <=> Counts(op))
  BY <1>3, <1>6, <1>9
<1> QED BY <1>7, <1>10, <1>11

\* close() queues again what waits, and a mark, which changes nothing.
LEMMA OwedCloses ==
  ASSUME Typed, Queue, Close
  PROVE  Outstanding' = Outstanding /\ \A op : Counts(op)' <=> Counts(op)
<1> DEFINE marks == MarkWorthy(det') /\ keeps
           mark  == Queued("mark", det'.alert, NoGen)
<1>1. PICK more \in Seq(Op) :
        /\ ops' = ops \o more
        /\ Range(more) = timers \cup IF marks THEN {mark} ELSE {}
  BY CloseRow
<1>2. det'.gen = det.gen
  BY CloseQueues DEF Typed
<1>3. timers' = {} /\ doing' = doing /\ keeper' = [keeper EXCEPT !.seq = IF marks THEN @ + 1 ELSE @]
  BY DEF Close
<1>4. keeper'.last = keeper.last
  <2>1. keeper \in Keeper
    BY TypeParts DEF Typed, QueueTyped
  <2> QED BY <1>3, <2>1 DEF Keeper
<1>5. ~Changes(mark)
  BY DEF Changes, Queued
<1> HIDE DEF marks, mark
<1>6. Range(ops') \cup timers' = Waiting \cup IF marks THEN {mark} ELSE {}
  <2>1. ops \in Seq(Op)
    BY TypeParts DEF Typed, QueueTyped
  <2>2. Range(ops \o more) = Range(ops) \cup Range(more)
    BY <1>1, <2>1, Joined
  <2> QED BY <1>1, <1>3, <2>2 DEF Waiting
<1>7. \A op : Counts(op)' <=> Counts(op)
  BY <1>2, <1>4 DEF Counts
<1>8. /\ Outstanding' = {o \in Range(ops') \cup timers' : Changes(o) /\ Counts(o)}
                          \cup {o \in {doing} : Changes(o)}
      /\ Outstanding = {o \in Waiting : Changes(o) /\ Counts(o)}
                          \cup {o \in {doing} : Changes(o)}
  BY <1>3, <1>7 DEF Outstanding, Changes, Waiting
<1> QED BY <1>5, <1>6, <1>7, <1>8

-----------------------------------------------------------------------------
(* The record is a register, written late.                                 *)

Owed   == {op.mode : op \in Outstanding}
IsOpen == phase \in {"up", "stop"}

\* A step of the register, or none.
RegisterStep == Register!Next \/ UNCHANGED Register!vars

\* The register's steps in the terms of the record.
LEMMA RegisterSteps ==
  /\ (UNCHANGED <<news, Owed, record, synced>> /\ (IsOpen' <=> IsOpen)) => RegisterStep
  /\ (/\ ~IsOpen /\ IsOpen' /\ UNCHANGED <<record, synced>>
      /\ UNCHANGED <<news, Owed>> \/ (news' \in Modes \cup {NoMode} /\ Owed' = {news'}))
       => RegisterStep
  /\ (/\ IsOpen /\ IsOpen' /\ news' \in Modes \cup {NoMode} /\ UNCHANGED <<record, synced>>
      /\ Owed' \subseteq Owed \cup {news'} /\ news' \in Owed')
       => RegisterStep
  /\ (/\ Owed # {} /\ Owed' \subseteq Owed /\ UNCHANGED news /\ (IsOpen' <=> IsOpen)
      /\ record'.mode \in {record.mode} \cup Owed
      /\ synced'.mode \in {synced.mode, record'.mode}
      /\ IsOpen /\ Owed' = {} => news = record'.mode /\ news = synced'.mode)
       => RegisterStep
  /\ (IsOpen /\ ~IsOpen' /\ UNCHANGED <<news, Owed, record, synced>>) => RegisterStep
  /\ (/\ record'.mode \in {record.mode, synced.mode} \cup Owed
      /\ synced'.mode \in {synced.mode, record'.mode}
      /\ ~IsOpen' /\ Owed' = {} /\ news' = record'.mode)
       => RegisterStep
<1> USE DEF RegisterStep, Owed, IsOpen, Register!Next, Register!vars
<1>1. (UNCHANGED <<news, Owed, record, synced>> /\ (IsOpen' <=> IsOpen)) => RegisterStep
  OBVIOUS
<1>2. (/\ ~IsOpen /\ IsOpen' /\ UNCHANGED <<record, synced>>
       /\ UNCHANGED <<news, Owed>> \/ (news' \in Modes \cup {NoMode} /\ Owed' = {news'}))
       => RegisterStep
  BY DEF Register!Open, Register!Any
<1>3. (/\ IsOpen /\ IsOpen' /\ news' \in Modes \cup {NoMode} /\ UNCHANGED <<record, synced>>
       /\ Owed' \subseteq Owed \cup {news'} /\ news' \in Owed')
       => RegisterStep
  BY DEF Register!Tell, Register!Any
<1>4. (/\ Owed # {} /\ Owed' \subseteq Owed /\ UNCHANGED news /\ (IsOpen' <=> IsOpen)
       /\ record'.mode \in {record.mode} \cup Owed
       /\ synced'.mode \in {synced.mode, record'.mode}
       /\ IsOpen /\ Owed' = {} => news = record'.mode /\ news = synced'.mode)
       => RegisterStep
  BY DEF Register!Work
<1>5. (IsOpen /\ ~IsOpen' /\ UNCHANGED <<news, Owed, record, synced>>) => RegisterStep
  BY DEF Register!Close
<1>6. (/\ record'.mode \in {record.mode, synced.mode} \cup Owed
       /\ synced'.mode \in {synced.mode, record'.mode}
       /\ ~IsOpen' /\ Owed' = {} /\ news' = record'.mode)
       => RegisterStep
  BY DEF Register!End
<1> QED BY <1>1, <1>2, <1>3, <1>4, <1>5, <1>6

\* A change told and queued leads, and is a step of the register's.
LEMMA ToldLeads ==
  ASSUME TypeOK, Queue, det'.gen \in Nat, det'.gen >= det.gen,
         NEW do \in {"write", "refresh", "remove"},
         NEW mode \in Modes \cup {NoMode}, NEW gen \in Nat \cup {NoGen},
         gen \in {NoGen, det'.gen},
         QueueOp(do, mode, gen), UNCHANGED <<doing, timers>>, news' = mode
  PROVE  /\ (\E op \in Outstanding : Leads(op))' /\ LastTold'
         /\ Owed' \subseteq Owed \cup {news'} /\ news' \in Owed'
<1>1. PICK op : op = Queued(do, mode, gen)
  OBVIOUS
<1>2. /\ op \in Outstanding' /\ Outstanding' \subseteq Outstanding \cup {op}
      /\ Counts(op)' /\ op.mode = mode /\ \A o \in Outstanding' : o.seq <= op.seq
  BY <1>1, OwedGrows
<1>3. Leads(op)'
  BY <1>2 DEF Leads
<1>4. (\E o \in Outstanding : Leads(o))'
  BY <1>2, <1>3
<1> QED BY <1>2, <1>4 DEF LastTold, Owed

\* A step that changes neither what is outstanding nor the record.
LEMMA ToldUnchanged ==
  ASSUME LastTold, phase # "down", Outstanding' = Outstanding,
         \A op : Counts(op)' <=> Counts(op), UNCHANGED <<news, record, synced, journal>>,
         phase = "close" => phase' = "close",
         \/ keeper'.settled = keeper.settled
         \/ Outstanding # {}
         \/ keeper'.settled = NoMode
  PROVE  LastTold' /\ Owed' = Owed
<1>1. \A op : Leads(op)' <=> Leads(op)
  BY DEF Leads
<1>2. Owed' = Owed
  BY DEF Owed
<1>3. CASE \E op \in Outstanding : Leads(op)
  <2>1. (\E op \in Outstanding : Leads(op))'
    BY <1>1, <1>3
  <2> QED BY <1>2, <2>1 DEF LastTold
<1>4. CASE Outstanding = {} /\ (news = record.mode \/ (phase = "close" /\ journal.refused
                                                       /\ keeper.settled = NoMode))
  BY <1>2, <1>4 DEF LastTold
<1> QED BY <1>3, <1>4 DEF LastTold

\* A run begins with what it finds, or is told of an end.
LEMMA RegisterOpens ==
  ASSUME Typed, Queue, Seed \/ StartWithoutRecord
  PROVE  /\ LastTold' /\ RegisterStep
         /\ \/ news' = NoMode
            \/ Outstanding' = {} /\ keeper'.last = 0
            \/ \A op \in Outstanding' : op.do = "refresh"
<1>1. /\ ops = <<>> /\ doing = NoOp /\ timers = {} /\ keeper = NewKeeper /\ news = record.mode
      /\ det.gen = 0 /\ phase = "down" /\ phase' = "up" /\ TypeOK /\ det'.gen \in Nat
      /\ UNCHANGED <<doing, timers, record, synced>> /\ det' \in Detector
      /\ news \in Modes \cup {NoMode}
  <2>1. phase = "down" /\ phase' = "up"
    BY QueueStarts
  <2>2. UNCHANGED <<doing, timers, record, synced>>
    BY DEF Seed, StartWithoutRecord
  <2>3. TypeOK /\ DetSound(det')
    BY TypeStep, TypeParts DEF Typed, Next
  <2> QED BY <2>1, <2>2, <2>3, NewDetectorSound, TypeParts
      DEF Queue, NothingWhenDown, DetSound, Detector, HistoryTyped
<1>2. Outstanding = {} /\ Owed = {}
  BY <1>1, Nothings DEF Outstanding, Range, Changes, NoOp, Owed
<1>3. det'.gen >= det.gen
  BY <1>1
<1>4. ASSUME NEW do \in {"refresh", "remove"}, NEW mode \in Modes \cup {NoMode},
             NEW gen \in {NoGen, det'.gen}, QueueOp(do, mode, gen), news' = mode
      PROVE  LastTold' /\ RegisterStep /\ \A op \in Outstanding' : op.do = do
  <2>1. gen \in Nat \cup {NoGen}
    BY <1>1
  <2>2. LastTold' /\ Owed' \subseteq Owed \cup {news'} /\ news' \in Owed'
    BY <1>1, <1>3, <1>4, <2>1, ToldLeads
  <2>3. PICK op : op = Queued(do, mode, gen)
    OBVIOUS
  <2>4. Outstanding' \subseteq Outstanding \cup {op}
    <3>1. /\ TypeOK /\ Queue /\ det'.gen \in Nat /\ det'.gen >= det.gen
          /\ do \in {"write", "refresh", "remove"} /\ gen \in {NoGen, det'.gen}
          /\ QueueOp(do, mode, gen) /\ UNCHANGED <<doing, timers>>
      BY <1>1, <1>3, <1>4
    <3> QED BY <2>1, <2>3, <3>1, OwedGrows
  <2>5. op.do = do
    BY <2>3 DEF Queued
  <2>6. Owed' = {news'}
    BY <1>2, <2>2
  <2>7. ~IsOpen /\ IsOpen'
    BY <1>1 DEF IsOpen
  <2> QED BY <1>1, <1>2, <1>4, <2>2, <2>4, <2>5, <2>6, <2>7, RegisterSteps
<1>5. ASSUME UNCHANGED <<ops, keeper, news>>
      PROVE  LastTold' /\ RegisterStep /\ Outstanding' = {} /\ keeper'.last = 0
  <2>1. Outstanding' = {} /\ Owed' = {}
    BY <1>1, <1>5, Nothings DEF Outstanding, Range, Changes, NoOp, Owed
  <2>2. ~IsOpen /\ IsOpen'
    BY <1>1 DEF IsOpen
  <2>3. LastTold'
    BY <1>1, <1>5, <2>1 DEF LastTold
  <2> QED BY <1>1, <1>2, <1>5, <2>1, <2>2, <2>3, RegisterSteps DEF NewKeeper
<1>6. CASE Seed
  <2>1. PICK mode \in Selectable :
          \/ QueueOp("remove", NoMode, NoGen) /\ news' = NoMode
          \/ /\ record.mode = mode /\ UNCHANGED news
             /\ IF det'.adopted THEN QueueOp("refresh", mode, det'.gen)
                                ELSE UNCHANGED <<ops, keeper>>
          \/ UNCHANGED <<ops, keeper, news>>
    BY <1>6, SeedCases
  <2>2. CASE QueueOp("remove", NoMode, NoGen) /\ news' = NoMode
    BY <1>4, <2>2
  <2>3. CASE record.mode = mode /\ UNCHANGED news /\ QueueOp("refresh", mode, det'.gen)
    BY <1>1, <1>4, <2>3
  <2>4. CASE UNCHANGED <<ops, keeper, news>>
    BY <1>5, <2>4
  <2> QED BY <2>1, <2>2, <2>3, <2>4
<1>7. CASE StartWithoutRecord
  BY <1>4, <1>7 DEF StartWithoutRecord
<1> QED BY <1>6, <1>7

\* A tick tells the register of an end, or of nothing.
LEMMA RegisterObserves ==
  ASSUME TypeOK, Queue, LastTold, Observe
  PROVE  LastTold' /\ RegisterStep
<1>1. PICK ends \in BOOLEAN :
           /\ DetSound(det') /\ det'.gen = IF ends THEN det.gen + 1 ELSE det.gen
           /\ IF ends THEN /\ QueueOp("remove", NoMode, NoGen)
                           /\ news' = NoMode /\ told' = NoMode
                      ELSE UNCHANGED <<ops, keeper, news, told>>
           /\ phase = "up"
           /\ UNCHANGED <<phase, doing, timers, record, synced, journal>>
  BY ObserveCases
<1>2. det'.gen \in Nat /\ det'.gen >= det.gen
  BY <1>1, Numbers
<1>3. IsOpen /\ IsOpen'
  BY <1>1 DEF IsOpen
<1>4. CASE ends
  <2>1. LastTold' /\ Owed' \subseteq Owed \cup {news'} /\ news' \in Owed'
    <3>1. QueueOp("remove", NoMode, NoGen) /\ news' = NoMode /\ UNCHANGED <<doing, timers>>
      BY <1>1, <1>4
    <3> QED BY <1>2, <3>1, ToldLeads
  <2> QED BY <1>1, <1>3, <1>4, <2>1, RegisterSteps
<1>5. CASE ~ends
  <2>1. Waiting' = Waiting
    BY <1>1, <1>5 DEF Waiting
  <2>2. Outstanding' = Outstanding /\ \A op : Counts(op)' <=> Counts(op)
    BY <1>1, <1>5, <2>1, OwedUnchanged
  <2>3. LastTold' /\ Owed' = Owed
    BY <1>1, <1>5, <2>2, ToldUnchanged
  <2> QED BY <1>1, <1>3, <1>5, <2>3, RegisterSteps
<1> QED BY <1>4, <1>5

\* A page accepted tells the register, unless a change without a page came first.
LEMMA RegisterAccepts ==
  ASSUME TypeOK, Queue, LastTold, SpoolAccepts
  PROVE  LastTold' /\ RegisterStep
<1>1. /\ hand # NoPage /\ OnSent(hand)
      /\ UNCHANGED <<det, phase, doing, timers, record, synced, journal>>
  BY DEF SpoolAccepts, detection
<1>2. phase # "down" /\ det'.gen \in Nat /\ det'.gen >= det.gen /\ hand \in Page
  BY <1>1, QueueAccepts, Numbers, TypeParts DEF PagesTyped
<1>3. CASE phase = "close"
  <2>1. UNCHANGED <<ops, keeper, news>>
    BY <1>1, <1>3 DEF OnSent
  <2>2. Waiting' = Waiting
    BY <1>1, <2>1 DEF Waiting
  <2>3. Outstanding' = Outstanding /\ \A op : Counts(op)' <=> Counts(op)
    BY <1>1, <2>1, <2>2, OwedUnchanged
  <2>4. LastTold' /\ Owed' = Owed
    BY <1>1, <1>2, <2>1, <2>3, ToldUnchanged
  <2> QED BY <1>1, <2>1, <2>4, RegisterSteps DEF IsOpen
<1>4. CASE phase # "close"
  <2> DEFINE do == IF hand.mode = NoMode THEN "remove" ELSE "write"
  <2>1. /\ QueueOp(do, hand.mode, hand.gen) /\ do \in {"write", "refresh", "remove"}
        /\ news' = IF hand.gen = det.gen THEN hand.mode ELSE news
    BY <1>1, <1>4 DEF OnSent
  <2>2. hand.mode \in Modes \cup {NoMode} /\ hand.gen \in Nat \cup {NoGen} /\ hand.gen \in Nat
    BY <1>2 DEF Page
  <2>3. IsOpen /\ IsOpen'
    BY <1>1, <1>2, <1>4, TypeParts DEF IsOpen, PhaseTyped
  <2> HIDE DEF do
  <2>4. CASE hand.gen = det.gen
    <3>1. LastTold' /\ Owed' \subseteq Owed \cup {news'} /\ news' \in Owed'
      BY <1>1, <1>2, <2>1, <2>2, <2>4, ToldLeads
    <3> QED BY <1>1, <2>1, <2>2, <2>3, <2>4, <3>1, RegisterSteps
  <2>5. CASE hand.gen # det.gen
    <3>1. PICK op : op = Queued(do, hand.mode, hand.gen)
      OBVIOUS
    <3>2. hand.gen \notin {NoGen, det'.gen}
      BY <1>1, <2>2, <2>5 DEF NoGen
    <3>3. Outstanding' = Outstanding /\ \A o : Counts(o)' <=> Counts(o)
      BY <1>1, <1>2, <2>1, <2>2, <3>1, <3>2, OwedGrows
    <3>4. keeper'.settled = keeper.settled
      BY <2>1, <2>2, Queues, TypeParts
    <3>5. LastTold' /\ Owed' = Owed
      BY <1>1, <1>2, <2>1, <2>5, <3>3, <3>4, ToldUnchanged
    <3> QED BY <1>1, <2>1, <2>3, <2>5, <3>5, RegisterSteps
  <2> QED BY <2>4, <2>5
<1> QED BY <1>3, <1>4

\* What is done makes the record what was told, or something told before it.
LEMMA RegisterDoes ==
  ASSUME TypeOK, Queue, LastTold, KeeperDoes
  PROVE  LastTold' /\ RegisterStep
<1>1. /\ phase # "down" /\ doing # NoOp /\ doing' = NoOp
      /\ record' = Result(doing) /\ synced' = Result(doing)
      /\ keeper' = [keeper EXCEPT !.last = doing.seq,
                                  !.settled = IF doing.do = "mark" THEN @ ELSE doing.mode]
      /\ journal' = [journal EXCEPT !.wrote = TRUE,
                                    !.lapsed = @ /\ doing.do \in {"refresh", "mark"}]
      /\ UNCHANGED <<det, phase, ops, timers, news>>
  BY DEF KeeperDoes, detection
<1>2. doing \in Op /\ doing \in Known /\ keeper \in Keeper /\ journal \in Journal
      /\ doing.seq \in Nat
  BY <1>1, Numbers, TypeParts DEF WorkTyped, QueueTyped, HistoryTyped, Known
<1>3. /\ keeper'.last = doing.seq /\ journal'.refused = journal.refused
      /\ keeper'.settled = IF doing.do = "mark" THEN keeper.settled ELSE doing.mode
      /\ record'.mode = doing.mode /\ synced'.mode = doing.mode
      /\ (IsOpen' <=> IsOpen)
  BY <1>1, <1>2, ResultType DEF Keeper, Journal, IsOpen
<1>4. /\ Outstanding' = {op \in Outstanding : op.seq > doing.seq}
      /\ \A op \in Outstanding : op.seq > doing.seq => (Counts(op)' <=> Counts(op))
  <2>1. PICK again : again = {}
    OBVIOUS
  <2>2. timers' = timers \cup again /\ again \subseteq Retries(doing) /\ UNCHANGED <<ops, det>>
    BY <1>1, <2>1
  <2> QED BY <1>1, <1>3, <2>1, <2>2, OwedWorked
<1>5. Owed' \subseteq Owed
  BY <1>4 DEF Owed
<1>6. /\ Outstanding \subseteq Known /\ \A op \in Outstanding : op.seq \in Nat
      /\ \A op1, op2 \in Known : op1.seq = op2.seq => op1 = op2
  BY OutstandingKnown, Numbers
<1>7. CASE doing.do = "mark"
  <2>1. record.mode = doing.mode /\ synced.mode = doing.mode
    BY <1>2, <1>7 DEF Queue, SettledShown, MarksLast
  <2>2. Outstanding = {} /\ Outstanding' = {}
    <3>1. Waiting = {} /\ ~Changes(doing)
      BY <1>7 DEF Queue, MarksLast, Waiting, Range, Changes
    <3> QED BY <1>4, <3>1, OutstandingKnown
  <2>3. Owed = {} /\ Owed' = {}
    BY <2>2 DEF Owed
  <2>4. LastTold'
    BY <1>1, <1>3, <1>7, <2>1, <2>2 DEF LastTold
  <2>5. RegisterStep
    <3>1. Register!vars' = Register!vars
      BY <1>1, <1>3, <2>1, <2>3 DEF Register!vars, Owed, IsOpen
    <3> QED BY <3>1 DEF RegisterStep
  <2> QED BY <2>4, <2>5
<1>8. CASE doing.do # "mark"
  <2>1. doing \in Outstanding
    BY <1>2, <1>8, OutstandingKnown DEF Changes, Op
  <2>2. PICK op \in Outstanding : Leads(op)
    BY <1>1, <2>1 DEF LastTold
  <2>3. CASE op = doing
    <3>1. Outstanding' = {}
      BY <1>4, <1>6, <2>2, <2>3 DEF Leads
    <3>2. news = doing.mode
      BY <2>2, <2>3 DEF Leads
    <3>3. LastTold' /\ Owed' = {}
      BY <1>1, <1>3, <3>1, <3>2 DEF LastTold, Owed
    <3>4. doing.mode \in Owed
      BY <2>1 DEF Owed
    <3> QED BY <1>1, <1>3, <1>5, <3>2, <3>3, <3>4, RegisterSteps
  <2>4. CASE op # doing
    <3>1. op.seq > doing.seq
      BY <1>2, <1>6, <2>1, <2>2, <2>4 DEF Leads
    <3>2. op \in Outstanding' /\ Counts(op)'
      BY <1>4, <2>2, <3>1 DEF Leads
    <3>3. Leads(op)'
      BY <1>1, <1>4, <2>2, <3>2 DEF Leads
    <3>4. LastTold'
      BY <3>2, <3>3 DEF LastTold
    <3>5. Owed' # {} /\ doing.mode \in Owed
      BY <2>1, <3>2 DEF Owed
    <3> QED BY <1>1, <1>3, <1>5, <3>4, <3>5, RegisterSteps
  <2> QED BY <2>3, <2>4
<1> QED BY <1>7, <1>8

\* What is refused may show, and is tried again while the run lasts.
LEMMA RegisterRefused ==
  ASSUME TypeOK, Queue, LastTold, DiskRefuses
  PROVE  LastTold' /\ RegisterStep
<1>1. /\ phase # "down" /\ doing # NoOp /\ doing' = NoOp
      /\ record' \in {record, Result(doing)} /\ UNCHANGED synced
      /\ timers' = timers \cup Retries(doing)
      /\ keeper' = [keeper EXCEPT !.last = doing.seq,
                !.unreliable = @ \/ (doing.do = "refresh" /\ doing.tries + 1 >= Listed)]
      /\ journal' = [journal EXCEPT !.refused = TRUE]
      /\ UNCHANGED <<det, phase, ops, news>>
  BY DEF DiskRefuses, detection
<1>2. doing \in Op /\ doing \in Known /\ keeper \in Keeper /\ journal \in Journal
      /\ doing.seq \in Nat
  BY <1>1, Numbers, TypeParts DEF WorkTyped, QueueTyped, HistoryTyped, Known
<1>3. /\ keeper'.last = doing.seq /\ journal'.refused
      /\ keeper'.settled = keeper.settled
      /\ record'.mode \in {record.mode, doing.mode}
      /\ (IsOpen' <=> IsOpen)
  BY <1>1, <1>2, ResultType DEF Keeper, Journal, IsOpen
<1>4. \A again \in Retries(doing) :
        /\ again.do = doing.do /\ again.mode = doing.mode
        /\ again.gen = doing.gen /\ again.seq = doing.seq
  BY <1>2, RetryType
<1>5. /\ Outstanding' = {op \in Outstanding : op.seq > doing.seq}
                \cup {op \in Retries(doing) : Changes(op) /\ op.gen \in {NoGen, det.gen}}
      /\ \A op \in Outstanding : op.seq > doing.seq => (Counts(op)' <=> Counts(op))
      /\ \A op \in Retries(doing) : Counts(op)' <=> op.gen \in {NoGen, det.gen}
  <2>1. PICK again : again = Retries(doing)
    OBVIOUS
  <2>2. timers' = timers \cup again /\ again \subseteq Retries(doing) /\ UNCHANGED <<ops, det>>
    BY <1>1, <2>1
  <2> QED BY <1>1, <1>3, <2>1, <2>2, OwedWorked
<1>6. /\ Outstanding \subseteq Known /\ \A op \in Outstanding : op.seq \in Nat
      /\ \A op1, op2 \in Known : op1.seq = op2.seq => op1 = op2
  BY OutstandingKnown, Numbers
<1>7. CASE doing.do = "mark"
  <2>1. record.mode = doing.mode /\ record'.mode = record.mode
    BY <1>2, <1>3, <1>7 DEF Queue, SettledShown, MarksLast
  <2>2. Outstanding = {} /\ Outstanding' = {}
    <3>1. Waiting = {} /\ ~Changes(doing) /\ \A again \in Retries(doing) : ~Changes(again)
      BY <1>4, <1>7 DEF Queue, MarksLast, Waiting, Range, Changes
    <3> QED BY <1>5, <3>1, OutstandingKnown
  <2>3. Owed = {} /\ Owed' = {}
    BY <2>2 DEF Owed
  <2>4. LastTold'
    BY <1>1, <1>3, <2>1, <2>2 DEF LastTold
  <2>5. RegisterStep
    <3>1. Register!vars' = Register!vars
      BY <1>1, <1>3, <2>1, <2>3 DEF Register!vars, Owed, IsOpen
    <3> QED BY <3>1 DEF RegisterStep
  <2> QED BY <2>4, <2>5
<1>8. CASE doing.do # "mark"
  <2>1. doing \in Outstanding /\ doing.mode \in Owed
    BY <1>2, <1>8, OutstandingKnown DEF Changes, Op, Owed
  <2>2. PICK op \in Outstanding : Leads(op)
    BY <1>1, <2>1 DEF LastTold
  <2>3. Owed' \subseteq Owed
    BY <1>4, <1>5, <2>1 DEF Owed
  <2>4. CASE op = doing /\ phase = "close"
    <3>1. Outstanding' = {}
      <4>1. Retries(doing) = {}
        BY <2>4 DEF Retries
      <4> QED BY <1>5, <1>6, <2>2, <2>4, <4>1 DEF Leads
    <3>2. keeper'.settled = NoMode
      BY <1>1, <1>3, <1>8, TypeParts DEF SettledTyped
    <3>3. LastTold'
      BY <1>1, <1>3, <2>4, <3>1, <3>2 DEF LastTold
    <3>4. ~IsOpen
      BY <2>4 DEF IsOpen
    <3> QED BY <1>1, <1>3, <2>1, <2>3, <3>3, <3>4, RegisterSteps
  <2>5. CASE op = doing /\ phase # "close"
    <3>1. PICK again \in Retries(doing) : TRUE
      BY <2>5 DEF Retries
    <3>2. again.gen \in {NoGen, det.gen} /\ Changes(again) /\ again.mode = news
          /\ again.seq = doing.seq
      BY <1>4, <2>1, <2>2, <2>5, <1>8, <1>2 DEF Leads, Counts, Changes, Op
    <3>3. again \in Outstanding' /\ Counts(again)'
      BY <1>5, <3>2
    <3>4. \A other \in Outstanding' : other.seq <= again.seq
      BY <1>2, <1>4, <1>5, <1>6, <2>2, <2>5, <3>2 DEF Leads
    <3>5. Leads(again)'
      BY <1>1, <3>2, <3>3, <3>4 DEF Leads
    <3>6. LastTold' /\ Owed' # {}
      BY <3>3, <3>5 DEF LastTold, Owed
    <3> QED BY <1>1, <1>3, <2>1, <2>3, <3>6, RegisterSteps
  <2>6. CASE op # doing
    <3>1. op.seq > doing.seq
      BY <1>2, <1>6, <2>1, <2>2, <2>6 DEF Leads
    <3>2. op \in Outstanding' /\ Counts(op)'
      BY <1>5, <2>2, <3>1 DEF Leads
    <3>3. \A other \in Outstanding' : other.seq <= op.seq
      BY <1>2, <1>4, <1>5, <1>6, <2>2, <3>1 DEF Leads
    <3>4. Leads(op)'
      BY <1>1, <2>2, <3>2, <3>3 DEF Leads
    <3>5. LastTold' /\ Owed' # {}
      BY <3>2, <3>4 DEF LastTold, Owed
    <3> QED BY <1>1, <1>3, <2>1, <2>3, <3>5, RegisterSteps
  <2> QED BY <2>4, <2>5, <2>6
<1> QED BY <1>7, <1>8

\* The end of a run shows what the record was, had on disk or was about to be.
LEMMA RegisterEnds ==
  ASSUME TypeOK, Queue, NEW rec \in Left \cup {synced}, NEW seen, NEW kept,
         EndWith(seen, kept), seen.mode = rec.mode, kept.mode \in {synced.mode, seen.mode}
  PROVE  LastTold' /\ RegisterStep
<1>1. /\ phase' = "down" /\ ops' = <<>> /\ doing' = NoOp /\ timers' = {}
      /\ record' = seen /\ synced' = kept /\ news' = seen.mode
  BY DEF EndWith
<1>2. Outstanding' = {} /\ Owed' = {}
  <2>1. Outstanding' = {}
    BY <1>1 DEF Outstanding, Range, Changes, NoOp
  <2> QED BY <2>1 DEF Owed
<1>3. rec.mode \in {record.mode, synced.mode} \cup Owed
  <2>1. CASE rec \in {record, synced}
    BY <2>1
  <2>2. CASE doing # NoOp /\ rec = Result(doing)
    <3>1. doing \in Op /\ doing \in Known /\ rec.mode = doing.mode
      BY <2>2, ResultType, TypeParts DEF WorkTyped, Known
    <3>2. CASE doing.do = "mark"
      BY <3>1, <3>2 DEF Queue, MarksLast, SettledShown
    <3>3. CASE doing.do # "mark"
      <4>1. doing \in Outstanding
        BY <3>1, <3>3, OutstandingKnown DEF Changes, Op
      <4> QED BY <3>1, <4>1 DEF Owed
    <3> QED BY <3>2, <3>3
  <2> QED BY <2>1, <2>2 DEF Left
<1>4. LastTold'
  BY <1>1 DEF LastTold
<1>5. ~IsOpen'
  BY <1>1 DEF IsOpen
<1> QED BY <1>1, <1>2, <1>3, <1>4, <1>5, RegisterSteps

\* A step that leaves what is told, what is owed and the record alone.
LEMMA RegisterQuiet ==
  ASSUME TypeOK, Queue, LastTold,
         Quiet \/ KeeperTakes \/ RetryDue \/ UNCHANGED vars
  PROVE  LastTold' /\ RegisterStep
<1>1. CASE UNCHANGED vars
  <2>1. UNCHANGED <<phase, ops, timers, doing, keeper, det, news, record, synced, journal>>
    BY <1>1 DEF vars, detection, keeping
  <2>2. Waiting' = Waiting
    BY <2>1 DEF Waiting
  <2>3. Outstanding' = Outstanding /\ \A op : Counts(op)' <=> Counts(op)
    BY <2>1, <2>2, OwedUnchanged
  <2>4. CASE phase = "down"
    BY <2>1, <2>3, <2>4, RegisterSteps DEF LastTold, Owed, IsOpen
  <2>5. CASE phase # "down"
    BY <2>1, <2>3, <2>5, ToldUnchanged, RegisterSteps DEF IsOpen
  <2> QED BY <2>4, <2>5
<1>2. CASE Quiet
  <2>1. /\ phase # "down" /\ UNCHANGED <<ops, timers, doing, keeper, record, synced, det, news,
                                         journal>>
        /\ (phase' = "close" <=> phase = "close") /\ (IsOpen <=> IsOpen')
    BY <1>2, QueueWhenQuiet DEF keeping, IsOpen
  <2>2. Waiting' = Waiting
    BY <2>1 DEF Waiting
  <2>3. Outstanding' = Outstanding /\ \A op : Counts(op)' <=> Counts(op)
    BY <2>1, <2>2, OwedUnchanged
  <2> QED BY <2>1, <2>3, ToldUnchanged, RegisterSteps
<1>3. CASE KeeperTakes
  <2>1. /\ phase # "down" /\ UNCHANGED <<phase, record, synced, news, journal>>
        /\ keeper' \in {keeper, [keeper EXCEPT !.settled = NoMode]}
    BY <1>3, TakesFirst DEF detection
  <2>2. keeper'.settled \in {keeper.settled, NoMode}
    <3>1. keeper \in Keeper
      BY TypeParts DEF QueueTyped
    <3> QED BY <2>1, <3>1 DEF Keeper
  <2>3. Outstanding' = Outstanding /\ \A op : Counts(op)' <=> Counts(op)
    BY <1>3, OwedTaken
  <2> QED BY <2>1, <2>2, <2>3, ToldUnchanged, RegisterSteps DEF IsOpen
<1>4. CASE RetryDue
  <2>1. Waiting' = Waiting /\ phase \in {"up", "stop"}
    BY <1>4, QueueRetries
  <2>2. UNCHANGED <<phase, doing, keeper, det, record, synced, news, journal>>
    BY <1>4 DEF RetryDue, detection
  <2>3. Outstanding' = Outstanding /\ \A op : Counts(op)' <=> Counts(op)
    BY <2>1, <2>2, OwedUnchanged
  <2> QED BY <2>1, <2>2, <2>3, ToldUnchanged, RegisterSteps DEF IsOpen
<1> QED BY <1>1, <1>2, <1>3, <1>4

\* The register is closed with the keeper.
LEMMA RegisterCloses ==
  ASSUME Typed, Queue, LastTold, Close
  PROVE  LastTold' /\ RegisterStep
<1>1. /\ phase = "stop" /\ phase' = "close" /\ UNCHANGED <<record, synced, news, journal>>
      /\ keeper'.settled = keeper.settled
  <2>1. /\ phase = "stop" /\ phase' = "close" /\ UNCHANGED <<record, synced, news, journal>>
        /\ \E n \in Nat : keeper' = [keeper EXCEPT !.seq = n]
    <3>1. keeper.seq \in Nat /\ keeper.seq + 1 \in Nat
      BY Numbers DEF Typed
    <3> QED BY <3>1 DEF Close
  <2>2. keeper \in Keeper
    BY TypeParts DEF Typed, QueueTyped
  <2> QED BY <2>1, <2>2 DEF Keeper
<1>2. Outstanding' = Outstanding /\ \A op : Counts(op)' <=> Counts(op)
  BY OwedCloses
<1>3. LastTold' /\ Owed' = Owed
  BY <1>1, <1>2, ToldUnchanged
<1>4. IsOpen /\ ~IsOpen'
  BY <1>1 DEF IsOpen
<1> QED BY <1>1, <1>3, <1>4, RegisterSteps

\* The register's types and its steps are those of the record.
LEMMA ToldStep ==
  Typed /\ Queue /\ LastTold /\ [Next]_vars => LastTold' /\ RegisterStep
<1> SUFFICES ASSUME Typed, Queue, LastTold, [Next]_vars PROVE LastTold' /\ RegisterStep
  OBVIOUS
<1>1. TypeOK
  BY DEF Typed
<1>2. CASE Seed \/ StartWithoutRecord
  BY <1>2, RegisterOpens
<1>3. CASE Observe
  BY <1>1, <1>3, RegisterObserves
<1>4. CASE SpoolAccepts
  BY <1>1, <1>4, RegisterAccepts
<1>5. CASE Quiet \/ KeeperTakes \/ RetryDue \/ UNCHANGED vars
  BY <1>1, <1>5, RegisterQuiet
<1>6. CASE KeeperDoes
  BY <1>1, <1>6, RegisterDoes
<1>7. CASE DiskRefuses
  BY <1>1, <1>7, RegisterRefused
<1>8. CASE Close
  BY <1>8, RegisterCloses
<1>9. CASE Exit
  <2>1. PICK rec \in Left : EndWith(rec, synced)
    BY <1>9 DEF Exit
  <2> QED BY <1>1, <2>1, RegisterEnds
<1>10. CASE PowerLoss
  <2>1. PICK rec \in Left \cup {synced} : EndWith(Aged(rec), Aged(rec))
    BY <1>10 DEF PowerLoss
  <2>2. Left \cup {synced} \subseteq Record
    BY <1>1, ResultType, TypeParts DEF WorkTyped
  <2>3. Aged(rec).mode = rec.mode
    BY <2>2, ResultType
  <2> QED BY <1>1, <2>1, <2>3, RegisterEnds
<1> QED BY <1>2, <1>3, <1>4, <1>5, <1>6, <1>7, <1>8, <1>9, <1>10 DEF Next, Quiet

\* A register that is told nothing shows nothing.
LEMMA ToldInit == Init => LastTold /\ Register!Init
<1> SUFFICES ASSUME Init PROVE LastTold /\ Register!Init
  OBVIOUS
<1>1. /\ phase = "down" /\ ops = <<>> /\ doing = NoOp /\ timers = {}
      /\ record = NoRecord /\ synced = NoRecord /\ news = NoMode
  BY DEF Init
<1>2. Outstanding = {}
  BY <1>1 DEF Outstanding, Range, Changes, NoOp
<1>3. ~IsOpen /\ {op.mode : op \in Outstanding} = {}
  BY <1>1, <1>2 DEF IsOpen
<1> QED BY <1>1, <1>3 DEF LastTold, Register!Init, Register!Any, NoRecord, IsOpen

\* While a run lasts, the record is, or is about to be, what was last told.
LEMMA ToldCorrect == Spec => [](Typed /\ Queue /\ LastTold)
<1> QED BY QueueCorrect, ToldInit, ToldStep, PTL DEF Spec

\* The egress alert record is a register: of the pages spool-notify accepted and
\* the changes made without a page, it shows none that was not told, and the last
\* of them, on disk, once nothing is outstanding (EventDetector, "What holds once
\* the queue has run").  Refused and retried operations, crashes and power losses
\* do not alter that.
THEOREM RecordIsARegister == Spec => KeepsRegister
<1>1. Init => Register!Init
  BY ToldInit
<1>2. Typed /\ Queue /\ LastTold /\ [Next]_vars => [Register!Next]_(Register!vars)
  BY ToldStep DEF RegisterStep
<1> QED BY <1>1, <1>2, ToldCorrect, PTL DEF Spec, KeepsRegister, Register!Spec

-----------------------------------------------------------------------------
(* Restarts: which record the next start may trust.                        *)

\* A run's mark is the last thing it does, on the record it was last told.
MarkedLast ==
  phase # "down" /\ (doing.do = "mark" \/ (journal.wrote /\ record.mark = "boot")) =>
    phase = "close" /\ ops = <<>> /\ news = record.mode

\* What wrote has a number, and what is marked is an alert.
Marked ==
  /\ MarkedLast
  /\ phase # "down" /\ journal.wrote => keeper.last > 0
  /\ record.mark = "boot" => record.mode # NoMode

\* A step that leaves the mark alone: of the pages, or while there is none yet.
LEMMA MarkedQuiet ==
  ASSUME Marked, phase # "down", phase' # "down",
         UNCHANGED <<doing, journal, record>>, keeper'.last = keeper.last,
         phase = "close" => phase' = "close" /\ UNCHANGED <<ops, news>>
  PROVE  Marked'
BY DEF Marked, MarkedLast

\* So it is with each step.
LEMMA MarkedStep == Typed /\ Queue /\ LastTold /\ Marked /\ [Next]_vars => Marked'
<1> SUFFICES ASSUME Typed, Queue, LastTold, Marked, [Next]_vars PROVE Marked'
  OBVIOUS
<1>1. TypeOK /\ keeper \in Keeper /\ journal \in Journal
  BY TypeParts DEF Typed, QueueTyped, HistoryTyped
<1>2. CASE Seed \/ StartWithoutRecord
  <2>1. doing' = NoOp /\ record' = record /\ ~journal'.wrote
    <3>1. CASE Seed
      <4>1. phase = "down" /\ UNCHANGED <<doing, record>>
        BY <3>1 DEF Seed
      <4>2. \E readable \in BOOLEAN :
              journal' = [journal EXCEPT !.wrote = FALSE, !.refused = ~readable, !.graceful = FALSE]
        BY <3>1, SeedCases
      <4> QED BY <1>1, <4>1, <4>2 DEF Queue, NothingWhenDown, Journal
    <3>2. CASE StartWithoutRecord
      BY <1>1, <3>2 DEF StartWithoutRecord, Queue, NothingWhenDown, Journal
    <3> QED BY <1>2, <3>1, <3>2
  <2> QED BY <2>1, Nothings DEF Marked, MarkedLast
<1>3. CASE Quiet
  BY <1>1, <1>3, QueueWhenQuiet, MarkedQuiet DEF keeping
<1>4. CASE Observe
  <2>1. phase = "up" /\ UNCHANGED <<phase, doing, journal, record>>
    BY <1>1, <1>4, ObserveCases
  <2>2. keeper'.last = keeper.last
    <3>1. \E ends \in BOOLEAN :
            IF ends THEN QueueOp("remove", NoMode, NoGen) ELSE UNCHANGED <<ops, keeper>>
      BY <1>1, <1>4, ObserveCases
    <3> QED BY <1>1, <3>1 DEF QueueOp, Keeper
  <2> QED BY <2>1, <2>2, MarkedQuiet
<1>5. CASE SpoolAccepts
  <2>1. phase # "down" /\ UNCHANGED <<phase, doing, journal, record>> /\ OnSent(hand)
    BY <1>1, <1>5, QueueAccepts DEF SpoolAccepts, detection
  <2>2. /\ phase = "close" => UNCHANGED <<ops, news>>
        /\ keeper'.last = keeper.last
    BY <1>1, <2>1 DEF OnSent, QueueOp, Keeper
  <2> QED BY <2>1, <2>2, MarkedQuiet
<1>6. CASE RetryDue
  <2>1. phase \in {"up", "stop"} /\ UNCHANGED <<phase, doing, journal, record, keeper>>
    BY <1>6 DEF RetryDue, detection
  <2> QED BY <2>1, MarkedQuiet
<1>7. CASE Close
  <2>1. phase = "stop" /\ phase' = "close" /\ UNCHANGED <<doing, journal, record>>
    BY <1>7 DEF Close
  <2>2. keeper'.last = keeper.last
    <3>1. \E n \in Nat : keeper' = [keeper EXCEPT !.seq = n]
      <4>1. keeper.seq \in Nat /\ keeper.seq + 1 \in Nat
        BY <1>1, Numbers
      <4> QED BY <1>7, <4>1 DEF Close
    <3> QED BY <1>1, <3>1 DEF Keeper
  <2> QED BY <2>1, <2>2, MarkedQuiet
<1>8. CASE KeeperTakes
  <2> DEFINE op == Head(ops)
  <2>1. /\ phase # "down" /\ doing = NoOp /\ op \in Op /\ op = ops[1]
        /\ DOMAIN ops = 1 .. Len(ops) /\ Len(ops) \in Nat \ {0}
        /\ Range(ops) = {op} \cup Range(ops') /\ op \in Waiting
        /\ UNCHANGED <<phase, timers, record, news, journal>>
        /\ \/ Runs(op) /\ doing' = op
              /\ keeper' = IF op.do = "mark" THEN keeper
                           ELSE [keeper EXCEPT !.settled = NoMode]
           \/ ~Runs(op) /\ UNCHANGED <<keeper, doing>>
    BY <1>1, <1>8, TakesFirst DEF detection
  <2>2. ops # <<>>
    BY <1>8 DEF KeeperTakes
  <2> HIDE DEF op
  <2>3. ~(journal.wrote /\ record.mark = "boot")
    BY <2>1, <2>2 DEF Marked, MarkedLast
  <2>4. keeper'.last = keeper.last
    BY <1>1, <2>1 DEF Keeper
  <2>5. CASE doing' = op /\ op.do = "mark"
    <3>1. phase = "close" /\ Len(ops) = 1 /\ op.mode # NoMode /\ timers = {}
      BY <2>1, <2>5 DEF Queue, MarksLast, Known
    <3>2. Runs(op)
      BY <2>1, <2>5, Nothings
    <3>3. Outstanding = {}
      <4>1. Range(ops) = {op}
        BY <2>1, <3>1 DEF Range
      <4> QED BY <1>1, <2>1, <2>5, <3>1, <4>1, OutstandingKnown DEF Waiting, Changes
    <3>4. keeper.settled # NoMode
      BY <2>5, <3>1, <3>2 DEF Runs
    <3>5. news = record.mode
      BY <2>1, <3>3, <3>4 DEF LastTold
    <3>6. phase' = "close" /\ ops' = <<>>
      <4>1. Queue'
        BY <1>1, <1>8, QueueTakes
      <4> QED BY <2>5, <4>1 DEF Queue, MarksLast
    <3> QED BY <2>1, <2>4, <3>5, <3>6 DEF Marked, MarkedLast
  <2>6. CASE ~(doing' = op /\ op.do = "mark")
    <3>1. doing'.do # "mark"
      BY <2>1, <2>6, Nothings
    <3> QED BY <2>1, <2>3, <2>4, <3>1 DEF Marked, MarkedLast
  <2> QED BY <2>5, <2>6
<1>9. CASE KeeperDoes
  <2>1. /\ phase # "down" /\ doing # NoOp /\ doing' = NoOp
        /\ record' = Result(doing)
        /\ keeper' = [keeper EXCEPT !.last = doing.seq,
                                    !.settled = IF doing.do = "mark" THEN @ ELSE doing.mode]
        /\ UNCHANGED <<phase, ops, news>>
    BY <1>9 DEF KeeperDoes, detection
  <2>2. doing \in Op /\ doing \in Known /\ doing.seq \in 1 .. keeper.seq
    BY <1>1, <2>1, TypeParts DEF WorkTyped, Known, Queue, SeqsApart
  <2>3. keeper'.last > 0
    BY <1>1, <2>1, <2>2 DEF Keeper
  <2>4. record'.mode = doing.mode /\ (record'.mark = "boot" <=> doing.do = "mark")
    BY <2>1, <2>2, ResultType DEF Result
  <2>5. doing.do = "mark" => doing.mode = record.mode /\ doing.mode # NoMode
    BY <2>2 DEF Queue, SettledShown, MarksLast
  <2>6. MarkedLast'
    BY <2>1, <2>4, <2>5, Nothings DEF Marked, MarkedLast
  <2> QED BY <2>3, <2>4, <2>5, <2>6 DEF Marked
<1>10. CASE DiskRefuses
  <2>1. /\ phase # "down" /\ doing # NoOp /\ doing' = NoOp
        /\ record' \in {record, Result(doing)}
        /\ keeper' = [keeper EXCEPT !.last = doing.seq,
                  !.unreliable = @ \/ (doing.do = "refresh" /\ doing.tries + 1 >= Listed)]
        /\ journal' = [journal EXCEPT !.refused = TRUE]
        /\ UNCHANGED <<phase, ops, news>>
    BY <1>10 DEF DiskRefuses, detection
  <2>2. doing \in Op /\ doing \in Known /\ doing.seq \in 1 .. keeper.seq
    BY <1>1, <2>1, TypeParts DEF WorkTyped, Known, Queue, SeqsApart
  <2>3. keeper'.last > 0 /\ journal'.wrote = journal.wrote
    BY <1>1, <2>1, <2>2 DEF Keeper, Journal
  <2>4. Result(doing).mode = doing.mode /\ (Result(doing).mark = "boot" <=> doing.do = "mark")
    BY <2>2, ResultType DEF Result
  <2>5. doing.do = "mark" => doing.mode = record.mode /\ doing.mode # NoMode
    BY <2>2 DEF Queue, SettledShown, MarksLast
  <2>6. MarkedLast'
    BY <2>1, <2>3, <2>4, <2>5, Nothings DEF Marked, MarkedLast
  <2> QED BY <2>1, <2>3, <2>4, <2>5, <2>6 DEF Marked
<1>11. CASE Exit
  <2>1. PICK rec \in Left : phase' = "down" /\ record' = rec
    BY <1>11 DEF Exit, EndWith
  <2>2. rec.mark = "boot" => rec.mode # NoMode
    <3>1. CASE doing # NoOp /\ rec = Result(doing)
      <4>1. doing \in Op /\ doing \in Known
        BY <1>1, <3>1, TypeParts DEF WorkTyped, Known
      <4> QED BY <3>1, <4>1 DEF Queue, MarksLast, Result
    <3>2. CASE rec = record
      BY <3>2 DEF Marked
    <3> QED BY <2>1, <3>1, <3>2 DEF Left
  <2> QED BY <2>1, <2>2 DEF Marked, MarkedLast
<1>12. CASE PowerLoss
  <2>1. PICK rec \in Left \cup {synced} : phase' = "down" /\ record' = Aged(rec)
    BY <1>12 DEF PowerLoss, EndWith
  <2>2. rec \in Record
    BY <1>1, ResultType, TypeParts DEF WorkTyped
  <2>3. record'.mark # "boot"
    BY <2>1, <2>2, ResultType
  <2> QED BY <2>1, <2>3 DEF Marked, MarkedLast
<1>13. CASE UNCHANGED vars
  BY <1>13 DEF vars, detection, keeping, Marked, MarkedLast
<1> QED BY <1>2, <1>3, <1>4, <1>5, <1>6, <1>7, <1>8, <1>9, <1>10, <1>11, <1>12, <1>13
    DEF Next, Quiet

\* What the record was last told is what the operator was last told, or an end;
\* or it comes from the run before, which nothing of this run has confirmed: then
\* nothing is written, or only what leaves a lapse a lapse.
NewsRead ==
  phase # "down" =>
    \/ news = told
    \/ news = NoMode
    \/ keeper.last = 0 /\ Outstanding = {}
    \/ journal.lapsed /\ \A op \in Outstanding : op.do = "refresh"

\* With the pages sent in time, the operator hears no more once a run closes.
Heard == /\ phase = "close" => WorkerDone
         /\ NewsRead
         /\ TrustedMeansTold

\* A step that tells nobody anything.
LEMMA HeardQuiet ==
  ASSUME Heard, phase # "down", phase' # "down", UNCHANGED <<news, told>>,
         keeper'.last = keeper.last, journal'.lapsed = journal.lapsed,
         Outstanding' \subseteq Outstanding,
         phase' = "close" => WorkerDone'
  PROVE  Heard'
BY DEF Heard, NewsRead, TrustedMeansTold

\* The worker, done with its pages, has no more of them.
LEMMA WorkerStaysDone ==
  ASSUME Heard, Quiet, phase' = "close"
  PROVE  WorkerDone'
<1>1. phase = "close" /\ WorkerDone
  BY DEF Heard, Quiet, WorkerAdmits, WorkerFlushes, SpoolRefuses, Overflow, WindowEnds, Stop,
         PageWithoutRecord, detection
<1> QED BY <1>1 DEF WorkerDone, Quiet, WorkerAdmits, WorkerFlushes, SpoolRefuses, Overflow,
         WindowEnds, Stop, PageWithoutRecord, detection

\* A run begins with what it may trust, or with an end.
LEMMA HeardStarts ==
  ASSUME Typed, Queue, Heard, Seed \/ StartWithoutRecord
  PROVE  Heard'
<1>1. phase = "down" /\ phase' = "up"
  BY QueueStarts
<1>2. CASE Seed
  <2>1. PICK mode \in Selectable, readable \in BOOLEAN : \E status \in StatusesOf(mode) :
          /\ journal' = [journal EXCEPT !.wrote = FALSE, !.refused = ~readable, !.graceful = FALSE]
          /\ told' = IF told = mode THEN told ELSE NoMode
          /\ UNCHANGED <<doing, timers>>
          /\ \/ news' = NoMode
             \/ /\ record.mode = mode /\ UNCHANGED news
                /\ det' = Adopted(Fresh(mode, status), record)
                /\ IF det'.adopted THEN QueueOp("refresh", mode, det'.gen)
                                   ELSE UNCHANGED <<ops, keeper>>
             \/ UNCHANGED <<ops, keeper, news>>
    BY <1>2, SeedCases
  <2>2. journal'.lapsed = journal.lapsed
    BY <2>1, TypeParts DEF Typed, HistoryTyped, Journal
  <2>3. CASE UNCHANGED <<ops, keeper>>
    <3>1. ops' = <<>> /\ doing' = NoOp /\ timers' = {} /\ keeper' = NewKeeper
      BY <1>1, <2>1, <2>3 DEF Queue, NothingWhenDown
    <3>2. keeper'.last = 0 /\ Outstanding' = {}
      BY <3>1, Nothings DEF NewKeeper, Outstanding, Range, Changes, NoOp
    <3> QED BY <1>1, <3>2 DEF Heard, NewsRead, TrustedMeansTold
  <2>4. CASE news' = NoMode
    BY <1>1, <2>4 DEF Heard, NewsRead, TrustedMeansTold
  <2>5. ASSUME NEW status \in StatusesOf(mode), record.mode = mode, UNCHANGED news,
               det' = Adopted(Fresh(mode, status), record), det'.adopted
        PROVE  Heard'
    <3>1. record.mark = "boot"
      <4>1. DetSound(Fresh(mode, status)) /\ Fresh(mode, status).selected = mode
        BY FreshSound
      <4>2. record \in Record /\ record.mode # NoMode
        BY <2>5, Nothings, TypeParts DEF Typed, WorkTyped
      <4> QED BY <2>5, <4>1, <4>2, AdoptionSound
    <3>2. news = mode
      BY <1>1, <2>5 DEF Queue, NothingWhenDown
    <3>3. CASE journal.lapsed
      <4>1. \/ news' = NoMode
            \/ Outstanding' = {} /\ keeper'.last = 0
            \/ \A op \in Outstanding' : op.do = "refresh"
        BY <1>2, RegisterOpens
      <4> QED BY <1>1, <2>2, <3>3, <4>1 DEF Heard, NewsRead, TrustedMeansTold
    <3>4. CASE ~journal.lapsed
      <4>1. told = record.mode
        BY <1>1, <3>1, <3>4 DEF Heard, TrustedMeansTold
      <4>2. told' = news'
        BY <2>1, <2>5, <3>2, <4>1
      <4> QED BY <1>1, <4>2 DEF Heard, NewsRead, TrustedMeansTold
    <3> QED BY <3>3, <3>4
  <2> QED BY <2>1, <2>3, <2>4, <2>5
<1>3. CASE StartWithoutRecord
  BY <1>1, <1>3 DEF StartWithoutRecord, Heard, NewsRead, TrustedMeansTold
<1> QED BY <1>2, <1>3

\* A run ends: the record it marked says what the operator was told.
LEMMA HeardEnds ==
  ASSUME Typed, Queue, LastTold, Marked, Heard, Exit \/ PowerLoss
  PROVE  Heard'
<1>1. TypeOK /\ journal \in Journal
  BY TypeParts DEF Typed, HistoryTyped
<1>2. CASE Exit
  <2>1. PICK rec \in Left :
          /\ phase' = "down" /\ record' = rec
          /\ told' \in {told} \cup (IF hand # NoPage THEN {Read(hand)} ELSE {})
    BY <1>2 DEF Exit, EndWith
  <2>2. phase # "down" /\ (journal'.lapsed <=> (journal.lapsed \/ ~journal.wrote))
    <3>1. \E graceful \in BOOLEAN : journal' = AfterRun(graceful, FALSE)
      BY <1>2 DEF Exit, WorkerDone
    <3> QED BY <1>1, <1>2, <3>1 DEF AfterRun, Journal, Exit
  <2>3. ASSUME record'.mark = "boot", ~journal'.lapsed
        PROVE  told' = record'.mode
    <3>1. ~journal.lapsed /\ journal.wrote
      BY <2>2, <2>3
    <3>2. /\ phase = "close" /\ news = record.mode
          /\ record'.mode = record.mode /\ record.mode # NoMode
      <4>1. CASE rec = record
        BY <2>1, <2>2, <2>3, <3>1, <4>1 DEF Marked, MarkedLast
      <4>2. CASE doing # NoOp /\ rec = Result(doing)
        <5>1. doing \in Op /\ doing \in Known
          BY <1>1, <4>2, TypeParts DEF WorkTyped, Known
        <5>2. doing.do = "mark" /\ rec.mode = doing.mode
          BY <2>1, <2>3, <4>2, <5>1 DEF Result
        <5>3. doing.mode = record.mode /\ doing.mode # NoMode
          BY <5>1, <5>2 DEF Queue, SettledShown, MarksLast
        <5> QED BY <2>1, <2>2, <5>2, <5>3 DEF Marked, MarkedLast
      <4> QED BY <4>1, <4>2 DEF Left
    <3>3. told' = told
      BY <2>1, <3>2 DEF Heard, WorkerDone
    <3>4. news = told
      <4>1. keeper.last > 0
        BY <2>2, <3>1 DEF Marked
      <4>2. keeper.last # 0
        BY <1>1, <4>1, Numbers
      <4> QED BY <2>2, <3>1, <3>2, <4>2 DEF Heard, NewsRead
    <3> QED BY <3>2, <3>3, <3>4
  <2> QED BY <2>1, <2>3 DEF Heard, NewsRead, TrustedMeansTold
<1>3. CASE PowerLoss
  <2>1. PICK rec \in Left \cup {synced} : phase' = "down" /\ record' = Aged(rec)
    BY <1>3 DEF PowerLoss, EndWith
  <2>2. rec \in Record
    BY <1>1, ResultType, TypeParts DEF WorkTyped
  <2>3. record'.mark # "boot"
    BY <2>1, <2>2, ResultType
  <2> QED BY <2>1, <2>3 DEF Heard, NewsRead, TrustedMeansTold
<1> QED BY <1>2, <1>3

\* So it is with each step, if the pages in hand at a shutdown are sent in time.
LEMMA HeardStep ==
  ASSUME StopOutlasts, Typed, Queue, LastTold, Marked, Heard, [Next]_vars
  PROVE  Heard'
<1>1. TypeOK /\ keeper \in Keeper /\ journal \in Journal
  BY TypeParts DEF Typed, QueueTyped, HistoryTyped
<1>2. CASE Quiet
  <2>1. phase # "down" /\ phase' # "down" /\ UNCHANGED <<keeping, det, news, journal>>
    BY <1>1, <1>2, QueueWhenQuiet
  <2>2. Outstanding' = Outstanding
    <3>1. Waiting' = Waiting /\ doing' = doing /\ keeper' = keeper /\ det' = det
      BY <2>1 DEF Waiting, keeping
    <3> QED BY <3>1, OwedUnchanged
  <2>3. phase' = "close" => WorkerDone'
    BY <1>2, WorkerStaysDone
  <2>4. CASE PageWithoutRecord
    <3>1. news' = NoMode
      BY <2>1, <2>4 DEF PageWithoutRecord, Queue, NothingPagedUnkept
    <3> QED BY <2>1, <2>3, <3>1 DEF Heard, NewsRead, TrustedMeansTold
  <2>5. CASE ~PageWithoutRecord
    <3>1. told' = told
      BY <1>2, <2>5 DEF Quiet, WorkerAdmits, WorkerFlushes, SpoolRefuses, Overflow, WindowEnds,
                        Stop
    <3> QED BY <2>1, <2>2, <2>3, <3>1, HeardQuiet DEF keeping
  <2> QED BY <2>4, <2>5
<1>3. CASE Observe
  <2>1. PICK ends \in BOOLEAN :
           /\ det'.gen = IF ends THEN det.gen + 1 ELSE det.gen
           /\ IF ends THEN news' = NoMode ELSE UNCHANGED <<ops, keeper, news, told>>
           /\ phase = "up" /\ UNCHANGED <<phase, doing, timers, journal>>
    BY <1>1, <1>3, ObserveCases
  <2>2. CASE ends
    BY <2>1, <2>2 DEF Heard, NewsRead, TrustedMeansTold
  <2>3. CASE ~ends
    <3>1. Outstanding' = Outstanding
      <4>1. Waiting' = Waiting
        BY <2>1, <2>3 DEF Waiting
      <4> QED BY <2>1, <2>3, <4>1, OwedUnchanged
    <3> QED BY <2>1, <2>3, <3>1, HeardQuiet
  <2> QED BY <2>2, <2>3
<1>4. CASE SpoolAccepts
  <2>1. /\ hand # NoPage /\ told' = Read(hand) /\ OnSent(hand)
        /\ UNCHANGED <<det, phase, doing, timers, journal>>
    BY <1>4 DEF SpoolAccepts, detection
  <2>2. phase # "down" /\ phase # "close" /\ det'.gen \in Nat /\ hand \in Page
        /\ det'.gen >= det.gen
    BY <1>1, <1>4, <2>1, QueueAccepts, Numbers, TypeParts DEF PagesTyped, Heard, WorkerDone
  <2> DEFINE do == IF hand.mode = NoMode THEN "remove" ELSE "write"
  <2>3. /\ QueueOp(do, hand.mode, hand.gen) /\ do \in {"write", "refresh", "remove"}
        /\ news' = IF hand.gen = det.gen THEN hand.mode ELSE news
    BY <2>1, <2>2 DEF OnSent
  <2>4. hand.mode \in Modes \cup {NoMode} /\ hand.gen \in Nat \cup {NoGen} /\ hand.gen \in Nat
    BY <2>2 DEF Page
  <2> HIDE DEF do
  <2>5. CASE hand.gen = det.gen
    BY <2>1, <2>2, <2>3, <2>5 DEF Read, Heard, NewsRead, TrustedMeansTold
  <2>6. CASE hand.gen # det.gen
    <3>1. PICK op : op = Queued(do, hand.mode, hand.gen)
      OBVIOUS
    <3>2. hand.gen \notin {NoGen, det'.gen}
      BY <2>1, <2>4, <2>6 DEF NoGen
    <3>3. Outstanding' = Outstanding
      BY <1>1, <2>1, <2>2, <2>3, <2>4, <3>1, <3>2, OwedGrows
    <3>4. keeper'.last = keeper.last
      BY <1>1, <2>3 DEF QueueOp, Keeper
    <3> QED BY <2>1, <2>2, <2>3, <2>6, <3>3, <3>4, HeardQuiet DEF Read
  <2> QED BY <2>5, <2>6
<1>5. CASE KeeperTakes
  <2>1. /\ phase # "down" /\ UNCHANGED <<phase, buf, held, hand, told, news, journal>>
        /\ keeper' \in {keeper, [keeper EXCEPT !.settled = NoMode]}
    BY <1>1, <1>5, TakesFirst DEF detection, notifying
  <2>2. Outstanding' = Outstanding /\ keeper'.last = keeper.last
    BY <1>1, <1>5, <2>1, OwedTaken DEF Keeper
  <2> QED BY <2>1, <2>2, HeardQuiet DEF Heard, WorkerDone
<1>6. CASE RetryDue
  <2>1. phase # "down" /\ UNCHANGED <<phase, buf, held, hand, keeper, det, doing, told, news, journal>>
    BY <1>6 DEF RetryDue, detection, notifying
  <2>2. Outstanding' = Outstanding
    BY <1>1, <1>6, <2>1, QueueRetries, OwedUnchanged
  <2> QED BY <2>1, <2>2, HeardQuiet DEF Heard, WorkerDone
<1>7. CASE Close
  <2>1. /\ phase = "stop" /\ phase' = "close" /\ UNCHANGED <<buf, held, hand, told, news, journal>>
        /\ WorkerDone
    BY <1>7 DEF Close, notifying
  <2>2. Outstanding' = Outstanding
    BY <1>7, OwedCloses
  <2>3. keeper'.last = keeper.last
    <3>1. \E n \in Nat : keeper' = [keeper EXCEPT !.seq = n]
      <4>1. keeper.seq \in Nat /\ keeper.seq + 1 \in Nat
        BY <1>1, Numbers
      <4> QED BY <1>7, <4>1 DEF Close
    <3> QED BY <1>1, <3>1 DEF Keeper
  <2> QED BY <2>1, <2>2, <2>3, HeardQuiet DEF WorkerDone
<1>8. CASE KeeperDoes \/ DiskRefuses
  <2>1. /\ phase # "down" /\ doing # NoOp /\ doing' = NoOp
        /\ UNCHANGED <<phase, buf, held, hand, ops, det, told, news>>
        /\ keeper'.last = doing.seq
    BY <1>1, <1>8 DEF KeeperDoes, DiskRefuses, detection, notifying, Keeper
  <2>2. doing \in Op /\ doing \in Known
    BY <1>1, <2>1, TypeParts DEF WorkTyped, Known
  <2>3. PICK again : again \subseteq Retries(doing) /\ timers' = timers \cup again
    <3>1. timers' = timers \cup {} \/ timers' = timers \cup Retries(doing)
      BY <1>8 DEF KeeperDoes, DiskRefuses
    <3> QED BY <3>1
  <2>4. Outstanding' \subseteq Outstanding \cup {op \in Retries(doing) : Changes(op)}
    BY <1>1, <2>1, <2>3, OwedWorked
  <2>5. \A op \in Retries(doing) : op.do = doing.do
    BY <2>2, RetryType
  <2>6. doing.do = "mark" \/ doing \in Outstanding
    BY <1>1, <2>2, OutstandingKnown DEF Changes, Op
  <2>7. journal.lapsed /\ doing.do \in {"refresh", "mark"} => journal'.lapsed
    BY <1>1, <1>8 DEF KeeperDoes, DiskRefuses, Journal
  <2>8. doing.do = "mark" => keeper.last # 0
    <3>1. doing.do = "mark" => journal.wrote
      BY <2>2 DEF Queue, SettledShown, MarksLast
    <3> QED BY <1>1, <2>1, <3>1, Numbers DEF Marked
  <2>9. CASE news = told \/ news = NoMode
    BY <2>1, <2>9 DEF Heard, NewsRead, TrustedMeansTold, WorkerDone
  <2>10. CASE journal.lapsed /\ \A op \in Outstanding : op.do = "refresh"
    <3>1. doing.do \in {"refresh", "mark"}
      BY <2>6, <2>10
    <3>2. \A op \in Outstanding' : op.do = "refresh"
      BY <2>4, <2>5, <2>10, <3>1 DEF Changes
    <3> QED BY <2>1, <2>7, <2>10, <3>1, <3>2 DEF Heard, NewsRead, TrustedMeansTold, WorkerDone
  <2>11. ~(keeper.last = 0 /\ Outstanding = {})
    BY <2>6, <2>8
  <2> QED BY <2>1, <2>9, <2>10, <2>11 DEF Heard, NewsRead
<1>9. CASE Seed \/ StartWithoutRecord
  BY <1>9, HeardStarts
<1>10. CASE Exit \/ PowerLoss
  BY <1>10, HeardEnds
<1>11. CASE UNCHANGED vars
  <2>1. UNCHANGED <<phase, ops, timers, doing, keeper, det, buf, held, hand, news, told, record, journal>>
    BY <1>11 DEF vars, detection, notifying, keeping
  <2>2. Outstanding' = Outstanding
    BY <2>1, OwedUnchanged DEF Waiting
  <2> QED BY <2>1, <2>2 DEF Heard, NewsRead, TrustedMeansTold, WorkerDone
<1> QED BY <1>2, <1>3, <1>4, <1>5, <1>6, <1>7, <1>8, <1>9, <1>10, <1>11 DEF Next, Quiet

\* So it begins.
LEMMA TrustInit == Init => Marked /\ Heard
BY Nothings DEF Init, Marked, MarkedLast, Heard, NewsRead, TrustedMeansTold, NoRecord

\* The record's mark is only of what the record was last told.
LEMMA MarkedCorrect == Spec => [](Typed /\ Queue /\ LastTold /\ Marked)
<1> QED BY ToldCorrect, TrustInit, MarkedStep, PTL DEF Spec

\* A record that the next start would trust names the fallback the operator was
\* last told of, if the pages in hand at a shutdown are sent in the time that is
\* waited for them: "the mark certifies that the last run to write the record
\* closed cleanly with that alert standing" (EgressRecordKeeper).
THEOREM TrustedIsTold == StopOutlasts => (Spec => []TrustedMeansTold)
<1> SUFFICES ASSUME StopOutlasts PROVE Spec => []TrustedMeansTold
  OBVIOUS
<1>1. Typed /\ Queue /\ LastTold /\ Marked /\ Heard /\ [Next]_vars => Heard'
  BY HeardStep
<1>2. Heard => TrustedMeansTold
  BY DEF Heard
<1> QED BY <1>1, <1>2, TrustInit, MarkedCorrect, PTL DEF Spec

-----------------------------------------------------------------------------
(* Restarts: a clean one trusts the record of the alert that stood.        *)

\* On a disk that refused nothing no retry waits, and what a run has written is
\* settled but for the operation under way.
SettledWhenWell ==
  phase # "down" /\ ~journal.refused =>
    /\ timers = {}
    /\ journal.wrote /\ (doing = NoOp \/ doing.do = "mark") => keeper.settled = record.mode

\* An operation that marks the record of the alert that stands.
IsMark(op) == op.do = "mark" /\ op.mode = det.alert

\* The mark of a run that closes is the last of its queue, is being written, or
\* is done; or the run has written nothing.
MarkOnItsWay ==
  \/ ops # <<>> /\ IsMark(ops[Len(ops)]) /\ ops[Len(ops)].seq = keeper.seq
     /\ ops[Len(ops)].gen = NoGen
  \/ ops = <<>> /\ IsMark(doing)
  \/ ops = <<>> /\ doing = NoOp /\ (journal.wrote => record.mark = "boot")
MarkToCome ==
  phase = "close" /\ MarkWorthy(det) /\ ~journal.refused /\ news = det.alert => MarkOnItsWay

\* What a clean shutdown leaves is the marked record of what the operator was told.
GracefulMarked ==
  phase = "down" /\ journal.graceful =>
    record.mark = "boot" /\ record.mode = told /\ told # NoMode

Restartable == SettledWhenWell /\ MarkToCome /\ GracefulMarked

\* A step of a run that leaves the keeper at rest.
LEMMA RestartableQuiet ==
  ASSUME Restartable, phase # "down", phase' # "down",
         UNCHANGED <<doing, timers, record, journal>>, keeper'.settled = keeper.settled,
         phase' = "close" => phase = "close" /\ UNCHANGED <<ops, keeper, det, news>>
  PROVE  Restartable'
<1>1. SettledWhenWell'
  BY DEF Restartable, SettledWhenWell
<1>2. MarkToCome'
  <2>1. SUFFICES ASSUME phase' = "close" PROVE MarkToCome'
    BY DEF MarkToCome
  <2>2. phase = "close" /\ UNCHANGED <<ops, keeper, det, news, doing, record, journal>>
    BY <2>1
  <2> QED BY <2>1, <2>2 DEF Restartable, MarkToCome, MarkOnItsWay, MarkWorthy, IsMark
<1> QED BY <1>1, <1>2 DEF Restartable, GracefulMarked

\* A run begins with nothing written.
LEMMA RestartableStarts ==
  ASSUME Typed, Queue, Seed \/ StartWithoutRecord
  PROVE  Restartable'
<1>1. phase = "down" /\ phase' = "up" /\ journal \in Journal
  BY QueueStarts, TypeParts DEF Typed, HistoryTyped
<1>2. timers' = {} /\ ~journal'.wrote
  <2>1. CASE Seed
    <3>1. timers' = timers
      BY <2>1 DEF Seed
    <3>2. \E readable \in BOOLEAN :
            journal' = [journal EXCEPT !.wrote = FALSE, !.refused = ~readable, !.graceful = FALSE]
      BY <2>1, SeedCases
    <3> QED BY <1>1, <3>1, <3>2 DEF Queue, NothingWhenDown, Journal
  <2>2. CASE StartWithoutRecord
    BY <1>1, <2>2 DEF StartWithoutRecord, Queue, NothingWhenDown, Journal
  <2> QED BY <2>1, <2>2
<1> QED BY <1>1, <1>2 DEF Restartable, SettledWhenWell, MarkToCome, GracefulMarked

\* The mark's turn comes, and on a disk that works nothing has come between.
LEMMA RestartableTakes ==
  ASSUME Typed, Queue, LastTold, Restartable, KeeperTakes
  PROVE  Restartable'
<1> DEFINE op == Head(ops)
<1>1. TypeOK /\ keeper \in Keeper
  BY TypeParts DEF Typed, QueueTyped
<1>2. /\ phase # "down" /\ doing = NoOp /\ ops # <<>> /\ op \in Op /\ op = ops[1]
      /\ Len(ops) \in Nat \ {0} /\ Len(ops') = Len(ops) - 1
      /\ DOMAIN ops' = 1 .. Len(ops) - 1
      /\ \A i \in DOMAIN ops' : ops'[i] = ops[i + 1]
      /\ Range(ops) = {op} \cup Range(ops') /\ op \in Waiting
      /\ DOMAIN ops = 1 .. Len(ops)
      /\ UNCHANGED <<phase, det, timers, record, news, journal>>
      /\ \/ Runs(op) /\ doing' = op
            /\ keeper' = IF op.do = "mark" THEN keeper ELSE [keeper EXCEPT !.settled = NoMode]
         \/ ~Runs(op) /\ UNCHANGED <<keeper, doing>>
  BY <1>1, TakesFirst DEF detection
<1>3. ops' \in Seq(Op)
  BY <1>1, Numbers, Taken DEF KeeperTakes
<1> HIDE DEF op
<1>4. keeper'.seq = keeper.seq
  BY <1>1, <1>2 DEF Keeper
<1>5. SettledWhenWell'
  <2>1. CASE doing' = op /\ op.do # "mark"
    <3>1. doing' # NoOp
      BY <1>2, <2>1, Nothings
    <3> QED BY <1>2, <2>1, <3>1 DEF Restartable, SettledWhenWell
  <2>2. CASE UNCHANGED keeper
    BY <1>2, <2>2 DEF Restartable, SettledWhenWell
  <2> QED BY <1>2, <2>1, <2>2
<1>6. MarkToCome'
  <2>1. SUFFICES ASSUME phase' = "close", MarkWorthy(det), ~journal.refused, news = det.alert
                 PROVE  MarkOnItsWay'
    BY <1>2 DEF MarkToCome, MarkWorthy
  <2> DEFINE last == ops[Len(ops)]
  <2>2. IsMark(last) /\ last.seq = keeper.seq /\ last.gen = NoGen
    BY <1>2, <2>1 DEF Restartable, MarkToCome, MarkOnItsWay
  <2>3. CASE Len(ops) > 1
    <3>1. Len(ops') > 0 /\ Len(ops') \in DOMAIN ops' /\ Len(ops') + 1 = Len(ops)
      BY <1>2, <2>3
    <3>2. ops' # <<>> /\ ops'[Len(ops')] = last
      BY <1>2, <3>1
    <3> QED BY <1>2, <1>4, <2>2, <3>2 DEF MarkOnItsWay, IsMark
  <2>4. CASE Len(ops) = 1
    <3>1. last = op /\ ops' = <<>>
      BY <1>2, <1>3, <2>4
    <3>2. timers = {} /\ Range(ops) = {op}
      BY <1>2, <2>1, <2>4 DEF Queue, MarksLast, Range
    <3>3. Outstanding = {}
      BY <1>1, <1>2, <2>2, <3>1, <3>2, OutstandingKnown DEF Waiting, Changes, IsMark
    <3>4. news = record.mode
      BY <1>2, <2>1, <3>3 DEF LastTold
    <3>5. journal.wrote => Runs(op)
      <4>1. journal.wrote => keeper.settled = record.mode
        BY <1>2, <2>1 DEF Restartable, SettledWhenWell
      <4>2. op.seq >= keeper.last
        BY <1>1, <2>2, <3>1, Numbers DEF Queue, SeqsApart
      <4> QED BY <2>1, <2>2, <3>1, <3>4, <4>1, <4>2 DEF Runs, IsMark
    <3> QED BY <1>2, <2>2, <3>1, <3>5 DEF MarkOnItsWay, IsMark
  <2> QED BY <1>2, <2>3, <2>4
<1> QED BY <1>2, <1>5, <1>6 DEF Restartable, GracefulMarked

\* The operation under way succeeds: if it is the mark, the record has it.
LEMMA RestartableDoes ==
  ASSUME Typed, Queue, Restartable, KeeperDoes
  PROVE  Restartable'
<1>1. TypeOK /\ keeper \in Keeper /\ journal \in Journal
  BY TypeParts DEF Typed, QueueTyped, HistoryTyped
<1>2. /\ phase # "down" /\ doing # NoOp /\ doing' = NoOp /\ record' = Result(doing)
      /\ keeper' = [keeper EXCEPT !.last = doing.seq,
                                  !.settled = IF doing.do = "mark" THEN @ ELSE doing.mode]
      /\ journal'.refused = journal.refused
      /\ UNCHANGED <<phase, det, ops, timers, news>>
  BY <1>1 DEF KeeperDoes, detection, Journal
<1>3. doing \in Op /\ record'.mode = doing.mode /\ (doing.do = "mark" => record'.mark = "boot")
  BY <1>1, <1>2, TypeParts, ResultType DEF WorkTyped, Result
<1>4. keeper'.seq = keeper.seq
      /\ keeper'.settled = IF doing.do = "mark" THEN keeper.settled ELSE doing.mode
  BY <1>1, <1>2 DEF Keeper
<1>5. SettledWhenWell'
  BY <1>2, <1>3, <1>4 DEF Queue, SettledShown, Restartable, SettledWhenWell
<1>6. MarkToCome'
  <2>1. SUFFICES ASSUME phase' = "close", MarkWorthy(det), ~journal.refused, news = det.alert
                 PROVE  MarkOnItsWay'
    BY <1>2 DEF MarkToCome, MarkWorthy
  <2>2. MarkOnItsWay
    BY <1>2, <2>1 DEF Restartable, MarkToCome
  <2> QED BY <1>2, <1>3, <1>4, <2>2 DEF MarkOnItsWay, IsMark
<1> QED BY <1>2, <1>5, <1>6 DEF Restartable, GracefulMarked

\* close() queues the mark of a trusted alert behind all that waits.
LEMMA RestartableCloses ==
  ASSUME Typed, Queue, Restartable, Close
  PROVE  Restartable'
<1> DEFINE marks == MarkWorthy(det') /\ keeps
           mark  == Queued("mark", det'.alert, NoGen)
<1>1. TypeOK /\ keeper \in Keeper
  BY TypeParts DEF Typed, QueueTyped
<1>2. /\ phase = "stop" /\ phase' = "close" /\ timers' = {} /\ det' = Doubted(det)
      /\ UNCHANGED <<doing, record, news, journal>>
      /\ keeper' = [keeper EXCEPT !.seq = IF marks THEN @ + 1 ELSE @]
  BY DEF Close
<1>3. PICK more \in Seq(Op) :
        /\ ops' = ops \o more
        /\ marks => Len(more) > 0 /\ more[Len(more)] = mark
  BY CloseRow
<1>4. mark.do = "mark" /\ mark.mode = det'.alert /\ mark.seq = keeper.seq + 1 /\ mark.gen = NoGen
  BY DEF Queued
<1>5. /\ keeper'.settled = keeper.settled
      /\ marks => keeper'.seq = keeper.seq + 1
  BY <1>1, <1>2 DEF Keeper
<1>6. MarkWorthy(det') => marks
  <2>1. ~keeps => det'.alert = NoMode
    BY <1>2, NewDetectorSound, DetectorChanges DEF Queue, NothingPagedUnkept
  <2> QED BY <2>1 DEF MarkWorthy
<1> HIDE DEF marks, mark
<1>7. marks => ops' # <<>> /\ ops'[Len(ops')] = mark
  <2>1. SUFFICES ASSUME marks PROVE ops' # <<>> /\ ops'[Len(ops')] = mark
    OBVIOUS
  <2>2. /\ Len(ops) \in Nat /\ Len(more) \in Nat /\ Len(ops') = Len(ops) + Len(more)
        /\ DOMAIN more = 1 .. Len(more)
        /\ \A i \in DOMAIN more : ops'[Len(ops) + i] = more[i]
    BY <1>1, <1>3, Numbers, Joined
  <2>3. Len(more) \in DOMAIN more /\ Len(ops') > 0
    BY <1>3, <2>1, <2>2
  <2> QED BY <1>3, <2>1, <2>2, <2>3
<1>8. MarkToCome'
  <2>1. SUFFICES ASSUME MarkWorthy(det') PROVE MarkOnItsWay'
    BY DEF MarkToCome, MarkWorthy
  <2> QED BY <1>4, <1>5, <1>6, <1>7, <2>1 DEF MarkOnItsWay, IsMark
<1>9. SettledWhenWell'
  BY <1>2, <1>5 DEF Restartable, SettledWhenWell
<1> QED BY <1>2, <1>8, <1>9 DEF Restartable, GracefulMarked

\* A run that ends as a clean shutdown does leaves the record it marked.
LEMMA RestartableEnds ==
  ASSUME Typed, Queue, Marked, Restartable, Exit \/ PowerLoss
  PROVE  Restartable'
<1>1. journal \in Journal /\ phase' = "down"
  BY TypeParts DEF Typed, HistoryTyped, Exit, PowerLoss, EndWith
<1>2. CASE Exit
  <2>1. SUFFICES ASSUME journal'.graceful
                 PROVE  record'.mark = "boot" /\ record'.mode = told' /\ told' # NoMode
    BY <1>1 DEF Restartable, SettledWhenWell, MarkToCome, GracefulMarked
  <2>2. PICK rec \in Left : EndWith(rec, synced)
    BY <1>2 DEF Exit
  <2>3. /\ ops = <<>> /\ doing = NoOp /\ WorkerDone /\ ~journal.refused
        /\ phase = "close" /\ det.alert # NoMode /\ ~det.distrusted
        /\ journal.wrote /\ told = det.alert /\ news = told
    BY <1>1, <1>2, <2>1 DEF Exit, AfterRun, Journal
  <2>4. record' = record /\ told' = told
    BY <2>2, <2>3 DEF EndWith, Left, WorkerDone
  <2>5. record.mark = "boot"
    BY <2>3, Nothings DEF Restartable, MarkToCome, MarkOnItsWay, MarkWorthy, IsMark
  <2>6. news = record.mode
    BY <2>3, <2>5 DEF Marked, MarkedLast
  <2> QED BY <2>3, <2>4, <2>5, <2>6
<1>3. CASE PowerLoss
  <2>1. ~journal'.graceful
    BY <1>1, <1>3 DEF PowerLoss, AfterRun, Journal
  <2> QED BY <1>1, <2>1 DEF Restartable, SettledWhenWell, MarkToCome, GracefulMarked
<1> QED BY <1>2, <1>3

\* So it is with each step.
LEMMA RestartableStep ==
  Typed /\ Queue /\ LastTold /\ Marked /\ Restartable /\ [Next]_vars => Restartable'
<1> SUFFICES ASSUME Typed, Queue, LastTold, Marked, Restartable, [Next]_vars
             PROVE  Restartable'
  OBVIOUS
<1>1. TypeOK /\ keeper \in Keeper /\ journal \in Journal
  BY TypeParts DEF Typed, QueueTyped, HistoryTyped
<1>2. CASE Seed \/ StartWithoutRecord
  BY <1>2, RestartableStarts
<1>3. CASE Quiet
  <2>1. phase # "down" /\ phase' # "down" /\ (phase' = "close" <=> phase = "close")
        /\ UNCHANGED <<keeping, det, news, journal>>
    BY <1>1, <1>3, QueueWhenQuiet
  <2> QED BY <2>1, RestartableQuiet DEF keeping
<1>4. CASE Observe
  <2>1. phase = "up" /\ UNCHANGED <<phase, doing, timers, journal, record>>
    BY <1>1, <1>4, ObserveCases
  <2>2. keeper'.settled = keeper.settled
    <3>1. \E ends \in BOOLEAN :
            IF ends THEN QueueOp("remove", NoMode, NoGen) ELSE UNCHANGED <<ops, keeper>>
      BY <1>1, <1>4, ObserveCases
    <3> QED BY <1>1, <3>1 DEF QueueOp, Keeper
  <2> QED BY <2>1, <2>2, RestartableQuiet
<1>5. CASE SpoolAccepts
  <2>1. phase # "down" /\ UNCHANGED <<phase, det, doing, timers, journal, record>> /\ OnSent(hand)
    BY <1>1, <1>5, QueueAccepts DEF SpoolAccepts, detection
  <2>2. /\ phase = "close" => UNCHANGED <<ops, keeper, news>>
        /\ keeper'.settled = keeper.settled
    BY <1>1, <2>1 DEF OnSent, QueueOp, Keeper
  <2> QED BY <2>1, <2>2, RestartableQuiet
<1>6. CASE KeeperTakes
  BY <1>6, RestartableTakes
<1>7. CASE KeeperDoes
  BY <1>7, RestartableDoes
<1>8. CASE DiskRefuses
  <2>1. journal'.refused /\ phase' # "down"
    BY <1>1, <1>8 DEF DiskRefuses, detection, Journal
  <2> QED BY <2>1 DEF Restartable, SettledWhenWell, MarkToCome, GracefulMarked
<1>9. CASE RetryDue
  <2>1. journal'.refused /\ phase' \in {"up", "stop"}
    <3>1. phase \in {"up", "stop"} /\ timers # {} /\ UNCHANGED <<phase, journal>>
      BY <1>9 DEF RetryDue, detection
    <3> QED BY <3>1 DEF Restartable, SettledWhenWell
  <2> QED BY <2>1 DEF Restartable, SettledWhenWell, MarkToCome, GracefulMarked
<1>10. CASE Close
  BY <1>10, RestartableCloses
<1>11. CASE Exit \/ PowerLoss
  BY <1>11, RestartableEnds
<1>12. CASE UNCHANGED vars
  <2>1. UNCHANGED <<phase, ops, timers, doing, keeper, det, news, told, record, journal>>
    BY <1>12 DEF vars, detection, keeping
  <2> QED BY <2>1 DEF Restartable, SettledWhenWell, MarkToCome, MarkOnItsWay, MarkWorthy, IsMark,
                      GracefulMarked
<1> QED BY <1>2, <1>3, <1>4, <1>5, <1>6, <1>7, <1>8, <1>9, <1>10, <1>11, <1>12 DEF Next, Quiet

\* The start of a run after a clean shutdown takes over the marked record.
LEMMA SeedAdopts ==
  ASSUME Typed, Restartable, Seed, journal.graceful, ~journal'.refused, det'.selected = told
  PROVE  det'.adopted
<1>1. record \in Record /\ journal \in Journal
  BY TypeParts DEF Typed, WorkTyped, HistoryTyped
<1>2. PICK mode \in Selectable, readable \in BOOLEAN : \E status \in StatusesOf(mode) :
        /\ phase = "down" /\ phase' = "up" /\ keeps' = TRUE
        /\ journal' = [journal EXCEPT !.wrote = FALSE, !.refused = ~readable, !.graceful = FALSE]
        /\ told' = IF told = mode THEN told ELSE NoMode
        /\ budget.runs > 0 /\ (readable \/ budget.refusals > 0)
        /\ budget' = [budget EXCEPT !.runs = @ - 1, !.refusals = IF readable THEN @ ELSE @ - 1]
        /\ UNCHANGED <<notifying, doing, timers, record, synced>>
        /\ \/ /\ status = "skipped" \/ Found(readable).mode \notin {NoMode, mode}
              /\ det' = Ended(Fresh(mode, status))
              /\ QueueOp("remove", NoMode, NoGen) /\ news' = NoMode
           \/ /\ status # "skipped" /\ Found(readable).mode = mode
              /\ readable /\ record.mode = mode
              /\ det' = Adopted(Fresh(mode, status), record) /\ UNCHANGED news
              /\ IF det'.adopted THEN QueueOp("refresh", mode, det'.gen)
                                 ELSE UNCHANGED <<ops, keeper>>
           \/ /\ status # "skipped" /\ Found(readable).mode = NoMode
              /\ det' = Fresh(mode, status) /\ UNCHANGED <<ops, keeper, news>>
  BY SeedCases, Zenon
<1>3. PICK status \in StatusesOf(mode) :
        \/ /\ status = "skipped" \/ Found(readable).mode \notin {NoMode, mode}
           /\ det' = Ended(Fresh(mode, status))
        \/ record.mode = mode /\ det' = Adopted(Fresh(mode, status), record)
        \/ Found(readable).mode = NoMode /\ det' = Fresh(mode, status)
  BY <1>2
<1>4. record.mark = "boot" /\ record.mode = told /\ told # NoMode /\ told \in Modes
  BY <1>1, <1>2 DEF Restartable, GracefulMarked, Record
<1>5. readable /\ Found(readable) = record
  BY <1>1, <1>2 DEF Journal, Found
<1>6. DetSound(Fresh(mode, status)) /\ Fresh(mode, status).selected = mode
  BY FreshSound
<1>7. Ended(Fresh(mode, status)).selected = mode
  BY <1>6 DEF Ended, DetSound, Detector
<1>8. CASE det' = Ended(Fresh(mode, status))
           /\ (status = "skipped" \/ Found(readable).mode \notin {NoMode, mode})
  <2>1. mode = told /\ mode # LocalDirect
    BY <1>4, <1>7, <1>8, Nothings
  <2> QED BY <1>4, <1>5, <1>8, <2>1, Statuses
<1>9. CASE record.mode = mode /\ det' = Adopted(Fresh(mode, status), record)
  BY <1>1, <1>4, <1>6, <1>9, AdoptionSound
<1> QED BY <1>3, <1>4, <1>5, <1>8, <1>9

\* A clean restart, on a disk that works and under the mode that was paged, takes
\* the alert over as trusted: "a fallback paged before the restart is not paged
\* again" (EventDetector, _seed_egress).
THEOREM RestartIsSilent == Spec => RestartStaysSilent
<1> DEFINE Silent == phase = "down" /\ phase' = "up" /\ keeps' /\ journal.graceful
                       /\ ~journal'.refused /\ det'.selected = told => det'.adopted
<1>1. Init => Restartable
  BY DEF Init, Restartable, SettledWhenWell, MarkToCome, GracefulMarked
<1>2. Typed /\ Restartable /\ [Next]_vars => [Silent]_vars
  <2> SUFFICES ASSUME Typed, Restartable, [Next]_vars, phase = "down", phase' = "up", keeps',
                      journal.graceful, ~journal'.refused, det'.selected = told
               PROVE  det'.adopted
    OBVIOUS
  <2>1. Seed \/ StartWithoutRecord
    BY DEF Next, vars, detection, PageWithoutRecord, Observe, WorkerAdmits, WorkerFlushes,
           SpoolAccepts, SpoolRefuses, Overflow, WindowEnds, KeeperTakes, KeeperDoes, DiskRefuses,
           RetryDue, Stop, Close, Exit, PowerLoss, EndWith
  <2>2. ~StartWithoutRecord
    BY DEF StartWithoutRecord
  <2> QED BY <2>1, <2>2, SeedAdopts
<1> HIDE DEF Silent
<1>3. [][Silent]_vars => RestartStaysSilent
  BY DEF RestartStaysSilent, Silent
<1> QED BY <1>1, <1>2, <1>3, MarkedCorrect, RestartableStep, PTL DEF Spec
=============================================================================
