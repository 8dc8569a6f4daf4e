---------------------------- MODULE AlertsProofs ----------------------------
(***************************************************************************)
(* Proofs about Alerts, for any WANs and any holds: its type invariant,    *)
(* that the pages about the WANs tell the truth, and that a switch is told *)
(* once it has held.  The inductive invariant IInv relates what the        *)
(* detector remembers to what really happened, as the history has it.      *)
(***************************************************************************)
EXTENDS Alerts, TLAPS

----------------------------------------------------------------------------
(* Ages *)

\* An age that grows stays an age, is no younger than it was and than 0, and
\* keeps the order of two ages with one cap.
LEMMA OlderAge ==
  ASSUME NEW cap \in Nat, NEW a \in Age(cap)
  PROVE  /\ Older(a, cap) \in Age(cap)
         /\ a = None => Older(a, cap) = None
         /\ a # None => Older(a, cap) \in 0 .. cap
         /\ a = cap => Older(a, cap) = cap
         /\ a <= Older(a, cap)
BY DEF Age, Older, None

\* A time since which something has held has the type of an age.
LEMMA SinceAge ==
  ASSUME NEW cap \in Nat, NEW a \in Age(cap), NEW h \in BOOLEAN
  PROVE  /\ Since(a, h, cap) \in Age(cap)
         /\ ~h => Since(a, h, cap) = None
         /\ h => Since(a, h, cap) \in 0 .. cap
         /\ h /\ a = cap => Since(a, h, cap) = cap
BY DEF Age, Since, Older, None

\* Counting keeps the order of two ages.
LEMMA SinceOrder ==
  ASSUME NEW cap \in Nat, NEW a \in Age(cap), NEW b \in Age(cap), a <= b
  PROVE  Since(a, TRUE, cap) <= Since(b, TRUE, cap)
BY DEF Age, Since, Older, None

----------------------------------------------------------------------------
(* The inductive invariant *)

\* What a WAN's link has to do with how long it has been out, and with what was told;
\* `off` when the seed left the two apart.
LinkSound(l, o, b, told, off) ==
  /\ told = (IF off THEN ~l.alerted ELSE l.alerted)
  /\ l.since <= o
  /\ o = None => ~l.alerted
  /\ l.alerted => l.since = None \/ l.since = WanHold
  /\ ~l.alerted => b <= l.since /\ (b # None => l.since < WanHold)

OfflineSound ==
  /\ offline.alerted => toldOffline \/ offlineAmiss
  /\ ~offline.alerted =>
       \E w \in Wans : out[w] <= offline.since /\ offline.since < WanHold

SwitchSound ==
  /\ active # {}
  /\ pending = NoSwitch => Believed = active
  /\ pending # NoSwitch => /\ announced # {} /\ pending.since = steady
                           /\ steady < SwitchHold
  /\ ~missed => toldActive = Believed

Sound ==
  seeded => /\ \A w \in Wans : LinkSound(link[w], out[w], bare[w], toldDown[w], w \in amiss)
            /\ OfflineSound /\ SwitchSound

IInv == TypeOK /\ Sound

----------------------------------------------------------------------------
(* One step of a WAN *)

\* What a tick makes of a WAN's link is a link, and stays true to the WAN.
LEMMA WanStep ==
  ASSUME NEW w \in Wans, NEW up, NEW maint, TypeOK,
         LinkSound(link[w], out[w], bare[w], toldDown[w], w \in amiss),
         WanEvents(up, maint), Watched(up, maint)
  PROVE  /\ link'[w] \in Link /\ ~(link'[w].alerted /\ link'[w].withheld)
         /\ LinkSound(link'[w], out'[w], bare'[w], toldDown'[w], w \in amiss')
<1> DEFINE isUp == w \in up
           excused == w = maint
           l    == link[w]
           o    == out[w]
           b    == bare[w]
           told == toldDown[w]
           off  == w \in amiss
           off2 == off /\ ~WanPage(l, isUp, excused)
           new  == AfterWan(l, isUp, excused)
           o2   == Since(o, ~isUp, WanHold)
           b2   == Since(b, ~isUp /\ ~excused, WanHold)
           tell == WanTold(told, l, isUp, excused)
<1>a. /\ l \in Link /\ ~(l.alerted /\ l.withheld) /\ LinkSound(l, o, b, told, off)
      /\ o \in Age(WanHold) /\ b \in Age(WanHold) /\ told \in BOOLEAN
  BY DEF TypeOK
<1>b. /\ link'[w] = new /\ out'[w] = o2 /\ bare'[w] = b2 /\ toldDown'[w] = tell
      /\ (w \in amiss') = off2
  BY DEF WanEvents, Watched
<1>c. off \in BOOLEAN
  OBVIOUS
<1> HIDE DEF l, o, b, told, off
<1>0. /\ l.since \in Age(WanHold) /\ l.alerted \in BOOLEAN /\ l.withheld \in BOOLEAN
      /\ WanHold \in Nat
  BY <1>a, HoldAssumption DEF Link
<1>1. new \in Link /\ ~(new.alerted /\ new.withheld)
  BY <1>a, <1>0 DEF AfterWan, Link, Older, Since, Age, None
<1>2. tell = (IF off2 THEN ~new.alerted ELSE new.alerted)
  <2>1. CASE WanUpPage(l, isUp, excused)
    <3>1. tell = FALSE
      BY <2>1 DEF WanTold, WanUpPage, WanDownPage
    <3>2. ~off2
      BY <2>1 DEF WanPage
    <3>3. new.alerted = FALSE
      BY <2>1 DEF WanUpPage, AfterWan
    <3> HIDE DEF new, tell, off2
    <3> QED BY <3>1, <3>2, <3>3
  <2>2. CASE ~WanUpPage(l, isUp, excused) /\ WanDownPage(l, isUp, excused)
    <3>1. tell /\ ~off2 /\ new.alerted
      BY <2>2 DEF WanTold, WanPage, WanDownPage
    <3> QED BY <3>1, <2>2, <1>1 DEF WanTold, Link
  <2>3. CASE ~WanUpPage(l, isUp, excused) /\ ~WanDownPage(l, isUp, excused)
    <3>1. tell = told /\ off2 = off
      BY <1>c, <2>3 DEF WanTold, WanPage
    <3>2. new.alerted <=> l.alerted
      BY <1>a, <1>0, <2>3 DEF AfterWan, WanUpPage, WanDownPage
    <3>3. new.alerted = l.alerted
      <4>1. PICK p \in BOOLEAN, q \in BOOLEAN : new.alerted = p /\ l.alerted = q
        BY <1>0, <1>1 DEF Link
      <4> HIDE DEF new
      <4>2. p <=> q
        BY <3>2, <4>1
      <4>3. p = q
        BY <4>2
      <4> QED BY <4>1, <4>3
    <3> HIDE DEF new, tell, off2
    <3> QED BY <1>a, <3>1, <3>3 DEF LinkSound
  <2> QED BY <2>1, <2>2, <2>3
<1>3. LinkSound(new, o2, b2, tell, off2)
  <2>1. CASE isUp
    <3>1. new.since = None /\ ~new.alerted /\ o2 = None /\ b2 = None
      BY <2>1 DEF AfterWan, Since
    <3> HIDE DEF new, o2, b2, tell, off2
    <3> QED BY <1>2, <3>1 DEF LinkSound, None
  <2>2. CASE ~isUp /\ l.alerted
    <3>1. new.since = l.since /\ new.alerted /\ o # None
      BY <1>a, <2>2 DEF AfterWan, Older, LinkSound
    <3>2. /\ l.since = None \/ l.since = WanHold
          /\ o2 \in 0 .. WanHold /\ l.since <= o2
      BY <1>a, <1>0, <2>2, <3>1 DEF LinkSound, Age, Since, Older, None
    <3> HIDE DEF new, o2, b2, tell, off2
    <3> QED BY <1>a, <1>0, <1>2, <3>1, <3>2 DEF LinkSound, None
  <2>3. CASE ~isUp /\ ~l.alerted /\ excused
    <3>1. new.since = Older(l.since, WanHold) /\ ~new.alerted /\ b2 = None
      BY <2>3 DEF AfterWan, Since
    <3>2. o2 = Since(o, TRUE, WanHold) /\ l.since <= o
      BY <1>a, <2>3 DEF Since, LinkSound
    <3>3. Older(l.since, WanHold) <= Since(o, TRUE, WanHold) /\ None <= Older(l.since, WanHold)
      BY <1>a, <1>0, <3>2 DEF Age, Since, Older, None
    <3> HIDE DEF new, o2, b2, tell, off2
    <3> QED BY <1>2, <3>1, <3>2, <3>3 DEF LinkSound, None
  <2>4. CASE ~isUp /\ ~l.alerted /\ ~excused
    <3>1. /\ new.since = Since(l.since, TRUE, WanHold) /\ b2 = Since(b, TRUE, WanHold)
          /\ o2 = Since(o, TRUE, WanHold) /\ (new.alerted <=> new.since = WanHold)
      BY <2>4 DEF AfterWan, Since
    <3>2. l.since <= o /\ b <= l.since
      BY <1>a, <2>4 DEF LinkSound
    <3>3. new.since <= o2 /\ b2 <= new.since
      BY <1>a, <1>0, <3>1, <3>2, SinceOrder
    <3>4. new.since \in 0 .. WanHold /\ o2 \in 0 .. WanHold /\ new.alerted \in BOOLEAN
      BY <1>a, <1>0, <1>1, <3>1 DEF Link, Since, Older, Age, None
    <3> HIDE DEF new, o2, b2, tell, off2
    <3>5. CASE new.since = WanHold
      <4>1. new.alerted = TRUE
        BY <3>1, <3>4, <3>5
      <4> QED BY <1>a, <1>0, <1>2, <3>3, <3>4, <3>5, <4>1 DEF LinkSound, None
    <3>6. CASE new.since # WanHold
      <4>1. new.alerted = FALSE
        BY <3>1, <3>4, <3>6, Zenon
      <4>2. new.since < WanHold
        BY <1>a, <1>0, <3>4, <3>6
      <4> QED BY <1>2, <3>3, <4>1, <4>2 DEF LinkSound
    <3> QED BY <3>5, <3>6
  <2> QED BY <2>1, <2>2, <2>3, <2>4
<1> HIDE DEF new, o2, b2, tell, off2
<1> QED BY <1>1, <1>3, <1>b

----------------------------------------------------------------------------
(* One step of the count of all WANs down *)

\* A tick counts a full outage and pages it, and the operator knows of it.
LEMMA OfflineStep ==
  ASSUME TypeOK, OfflineSound, NEW up \in SUBSET Wans, NEW maint, Wans # {},
         AllDownEvents(up), Watched(up, maint)
  PROVE  /\ offline' \in [since : Age(WanHold), alerted : BOOLEAN]
         /\ toldOffline' \in BOOLEAN /\ offlineAmiss' \in BOOLEAN
         /\ OfflineSound'
<1> DEFINE since2 == Since(offline.since, up = {}, WanHold)
           alerted2 == up = {} /\ (offline.alerted \/ since2 = WanHold)
<1>1. /\ offline.since \in Age(WanHold) /\ offline.alerted \in BOOLEAN
      /\ WanHold \in Nat /\ out \in [Wans -> Age(WanHold)]
  BY HoldAssumption DEF TypeOK
<1>2. since2 \in Age(WanHold) /\ alerted2 \in BOOLEAN
  BY <1>1, SinceAge
<1>3. offline' = [since |-> since2, alerted |-> alerted2]
  BY DEF AllDownEvents
<1>4. /\ toldOffline' \in BOOLEAN /\ offlineAmiss' \in BOOLEAN
      /\ alerted2 => toldOffline' \/ offlineAmiss'
  <2>1. /\ toldOffline' = (up = {} /\ (toldOffline \/ (~offline.alerted /\ offline'.alerted)))
        /\ offlineAmiss' = (up = {} /\ offlineAmiss)
    BY DEF AllDownEvents
  <2>2. offline'.alerted = alerted2
    BY <1>3
  <2>3. offline.alerted => toldOffline \/ offlineAmiss
    BY DEF OfflineSound
  <2> HIDE DEF since2
  <2> QED BY <2>1, <2>2, <2>3
<1>5. \A w \in Wans : out'[w] = Since(out[w], w \notin up, WanHold)
  BY DEF Watched
<1>6. ~alerted2 => \E w \in Wans : out'[w] <= since2 /\ since2 < WanHold
  <2>1. CASE up = {}
    <3> SUFFICES ASSUME ~alerted2 PROVE \E w \in Wans : out'[w] <= since2 /\ since2 < WanHold
      OBVIOUS
    <3>1. ~offline.alerted /\ since2 # WanHold /\ since2 = Since(offline.since, TRUE, WanHold)
      BY <2>1
    <3>2. PICK w \in Wans : out[w] <= offline.since
      BY <3>1 DEF OfflineSound
    <3>3. out'[w] = Since(out[w], TRUE, WanHold) /\ out[w] \in Age(WanHold)
      BY <1>1, <1>5, <2>1
    <3>4. out'[w] <= since2
      BY <1>1, <3>1, <3>2, <3>3, SinceOrder
    <3>5. since2 < WanHold
      BY <1>1, <1>2, <3>1 DEF Age, None
    <3> QED BY <3>4, <3>5
  <2>2. CASE up # {}
    <3>1. PICK w \in Wans : w \in up
      BY <2>2
    <3>2. out'[w] = None /\ since2 = None
      BY <1>5, <2>2, <3>1 DEF Since
    <3> QED BY <1>1, <3>2 DEF None
  <2> QED BY <2>1, <2>2
<1>7. offline' \in [since : Age(WanHold), alerted : BOOLEAN]
  BY <1>2, <1>3
<1>8. offline'.since = since2 /\ offline'.alerted = alerted2
  BY <1>3
<1> HIDE DEF since2, alerted2
<1> QED BY <1>2, <1>4, <1>6, <1>7, <1>8 DEF OfflineSound

----------------------------------------------------------------------------
(* One step of the switch that waits *)

SwitchType ==
  /\ active \in SUBSET Wans /\ announced \in SUBSET Wans
  /\ pending \in [to : SUBSET Wans, since : Age(SwitchHold)]
  /\ toldActive \in SUBSET Wans /\ steady \in 0 .. SwitchHold /\ missed \in BOOLEAN
  /\ pending = NoSwitch \/ (pending.to = active /\ pending.to # announced)

\* Along with the invariant: what is told is a switch that held, or the
\* maintained WAN's own.
LEMMA SwitchStep ==
  ASSUME SwitchType, SwitchSound, NEW maint \in Wans \cup {NoWan}, NEW to \in Actives,
         SwitchEvents(to, maint)
  PROVE  /\ SwitchType' /\ SwitchSound'
         /\ toldActive' # toldActive =>
              steady' = SwitchHold \/ toldActive' = Toggled(toldActive, maint)
<1>0. /\ to # {} /\ to \in SUBSET Wans /\ SwitchHold \in Nat /\ active' = to
      /\ steady' = IF to # active THEN 0 ELSE Older(steady, SwitchHold)
  <2>1. to # {} /\ to \in SUBSET Wans /\ SwitchHold \in Nat
    BY HoldAssumption DEF Actives
  <2>2. active' = to /\ steady' = IF to # active THEN 0 ELSE Older(steady, SwitchHold)
    BY DEF SwitchEvents
  <2> QED BY <2>1, <2>2
<1>1. steady' \in 0 .. SwitchHold
  BY <1>0 DEF SwitchType, Older, None
<1>2. Believed \in SUBSET Wans /\ Believed # {}
  BY DEF SwitchType, SwitchSound, Believed
<1>3. CASE to # active /\ Excused(to, maint)
  <2>1. /\ announced' = to /\ pending' = NoSwitch /\ to = Toggled(active, maint)
        /\ toldActive' = Toggled(toldActive, maint)
        /\ missed' = (missed \/ pending # NoSwitch) /\ maint \in Wans
    BY <1>3 DEF SwitchEvents, Followed, Excused
  <2>2. SwitchType'
    BY <1>0, <1>1, <2>1 DEF SwitchType, Toggled, NoSwitch, Age, None
  <2>3. ~missed' => toldActive' = to
    BY <2>1 DEF SwitchSound
  <2>4. Believed' = to
    BY <1>0, <2>1 DEF Believed
  <2> QED BY <1>0, <2>1, <2>2, <2>3, <2>4 DEF SwitchSound
<1>4. CASE ~(to # active /\ Excused(to, maint)) /\ Waiting(to).since = SwitchHold
  <2>1. /\ announced' = Waiting(to).to /\ pending' = NoSwitch
        /\ toldActive' = Waiting(to).to /\ missed' = FALSE
    BY <1>4 DEF SwitchEvents
  <2>2. Waiting(to).to = to /\ steady' = SwitchHold
    <3>1. CASE to = active
      <4>1. Waiting(to) = [pending EXCEPT !.since = Older(@, SwitchHold)]
        BY <3>1 DEF Waiting
      <4>2. Waiting(to).since = Older(pending.since, SwitchHold) /\ Waiting(to).to = pending.to
        BY <4>1 DEF SwitchType
      <4>3. pending # NoSwitch
        BY <1>0, <1>4, <4>2 DEF NoSwitch, Older, None
      <4> QED BY <1>0, <1>4, <3>1, <4>2, <4>3 DEF SwitchType, SwitchSound
    <3>2. CASE to # active
      <4>1. Waiting(to) = [to |-> to, since |-> 0]
        BY <1>0, <1>4, <3>2 DEF Waiting, NoSwitch, None
      <4> QED BY <1>0, <1>4, <3>2, <4>1
    <3> QED BY <3>1, <3>2
  <2>3. SwitchType'
    BY <1>0, <1>1, <2>1, <2>2 DEF SwitchType, NoSwitch, Age, None
  <2>4. Believed' = to
    BY <1>0, <2>1, <2>2 DEF Believed
  <2> QED BY <1>0, <2>1, <2>2, <2>3, <2>4 DEF SwitchSound
<1>5. CASE ~(to # active /\ Excused(to, maint)) /\ Waiting(to).since # SwitchHold
  <2>1. /\ announced' = (IF to # active THEN Believed ELSE announced)
        /\ pending' = Waiting(to) /\ toldActive' = toldActive /\ missed' = missed
    BY <1>5 DEF SwitchEvents
  <2>2. Believed' = Believed
    BY <1>0, <1>2, <2>1 DEF Believed
  <2>3. CASE to = active
    <3>1. pending' = [pending EXCEPT !.since = Older(@, SwitchHold)]
      BY <2>1, <2>3 DEF Waiting
    <3>2. pending'.since = Older(pending.since, SwitchHold) /\ pending'.to = pending.to
      BY <3>1 DEF SwitchType
    <3>3. CASE pending = NoSwitch
      <4>1. pending' = NoSwitch
        BY <3>1, <3>3 DEF NoSwitch, Older
      <4> QED BY <1>0, <1>1, <2>1, <2>2, <2>3, <3>3, <4>1 DEF SwitchType, SwitchSound
    <3>4. CASE pending # NoSwitch
      <4>1. pending'.since = steady'
        BY <1>0, <2>3, <3>2, <3>4 DEF SwitchSound
      <4>2. pending' \in [to : SUBSET Wans, since : Age(SwitchHold)]
        BY <1>0, <3>1, <3>2, OlderAge DEF SwitchType
      <4>3. steady' < SwitchHold
        BY <1>0, <1>1, <1>5, <2>1, <4>1
      <4>4. announced' = announced /\ announced # {} /\ pending'.to = active' /\ pending'.to # announced
        BY <1>0, <2>1, <2>3, <3>2, <3>4 DEF SwitchType, SwitchSound
      <4>5. pending' # NoSwitch
        BY <1>1, <4>1 DEF NoSwitch, None
      <4> QED BY <1>0, <1>1, <2>1, <2>2, <4>1, <4>2, <4>3, <4>4, <4>5 DEF SwitchType, SwitchSound
    <3> QED BY <3>3, <3>4
  <2>4. CASE to # active /\ to # Believed
    <3>1. pending' = [to |-> to, since |-> 0] /\ announced' = Believed /\ steady' = 0
      BY <1>0, <2>1, <2>4 DEF Waiting
    <3>2. 0 < SwitchHold
      BY <1>0, <1>5, <2>1, <3>1
    <3>3. SwitchType'
      BY <1>0, <1>1, <1>2, <2>1, <2>4, <3>1, <3>2 DEF SwitchType, Age, None
    <3> QED BY <1>0, <1>2, <2>1, <2>2, <3>1, <3>2, <3>3 DEF SwitchSound, NoSwitch, None
  <2>5. CASE to # active /\ to = Believed
    <3>1. pending' = NoSwitch /\ announced' = to
      BY <2>1, <2>5 DEF Waiting
    <3>2. SwitchType'
      BY <1>0, <1>1, <2>1, <3>1 DEF SwitchType, NoSwitch, Age, None
    <3> QED BY <1>0, <2>1, <2>2, <2>5, <3>1, <3>2 DEF SwitchSound
  <2> QED BY <2>3, <2>4, <2>5
<1> QED BY <1>3, <1>4, <1>5

----------------------------------------------------------------------------
(* The invariant holds *)

\* So it begins.
LEMMA InitIInv == Init => IInv
<1> SUFFICES ASSUME Init PROVE TypeOK
  BY DEF Init, IInv, Sound
<1>1. None \in Age(WanHold) /\ None \in Age(SwitchHold) /\ SwitchHold \in Nat
  BY HoldAssumption DEF Age
<1>2. link \in [Wans -> Link] /\ \A w \in Wans : ~(link[w].alerted /\ link[w].withheld)
  BY <1>1 DEF Init, Link
<1>3. /\ offline \in [since : Age(WanHold), alerted : BOOLEAN]
      /\ pending \in [to : SUBSET Wans, since : Age(SwitchHold)]
  BY <1>1 DEF Init, NoSwitch
<1>4. /\ out \in [Wans -> Age(WanHold)] /\ bare \in [Wans -> Age(WanHold)]
      /\ toldDown \in [Wans -> BOOLEAN]
  BY <1>1 DEF Init
<1>5. /\ seeded \in BOOLEAN /\ toldOffline \in BOOLEAN /\ missed \in BOOLEAN
      /\ active \in SUBSET Wans /\ announced \in SUBSET Wans /\ toldActive \in SUBSET Wans
      /\ under \in Wans \cup {NoWan} /\ pending = NoSwitch
      /\ amiss \in SUBSET Wans /\ offlineAmiss \in BOOLEAN
  BY DEF Init, Actives
<1>6. steady \in 0 .. SwitchHold
  BY <1>1 DEF Init
<1> QED BY <1>2, <1>3, <1>4, <1>5, <1>6, Zenon DEF TypeOK

\* What `Watched` leaves is of the right type.
LEMMA WatchedType ==
  ASSUME out \in [Wans -> Age(WanHold)], bare \in [Wans -> Age(WanHold)],
         NEW up \in SUBSET Wans, NEW maint \in Wans \cup {NoWan}, Watched(up, maint)
  PROVE  /\ under' \in Wans \cup {NoWan}
         /\ out' \in [Wans -> Age(WanHold)] /\ bare' \in [Wans -> Age(WanHold)]
<1>1. \A w \in Wans : /\ Since(out[w], w \notin up, WanHold) \in Age(WanHold)
                      /\ Since(bare[w], w \notin up /\ w # maint, WanHold) \in Age(WanHold)
  BY HoldAssumption, SinceAge
<1> QED BY <1>1 DEF Watched

\* The first tick of a run takes over what it finds.
LEMMA SeedIInv == IInv /\ Seed => IInv'
<1> SUFFICES ASSUME IInv, Seed PROVE IInv'
  OBVIOUS
<1>1. PICK up \in SUBSET Wans, maint \in Wans \cup {NoWan}, to \in Actives :
       /\ link' = [w \in Wans |-> SeededLink(w \in up, w = maint)]
       /\ offline' = [since |-> IF up = {} THEN 0 ELSE None, alerted |-> up = {}]
       /\ active' = to /\ announced' = {} /\ pending' = NoSwitch /\ steady' = 0
       /\ amiss' = {w \in Wans : toldDown[w] # (w \notin up \cup {maint})}
       /\ toldOffline' = (up = {} /\ toldOffline) /\ offlineAmiss' = (up = {} /\ ~toldOffline)
       /\ missed' = (toldActive # to)
       /\ Watched(up, maint)
  BY DEF Seed
<1>a. /\ toldDown' = toldDown /\ toldActive' = toldActive /\ toldDown \in [Wans -> BOOLEAN]
      /\ toldActive \in SUBSET Wans /\ toldOffline \in BOOLEAN
  BY DEF Seed, IInv, TypeOK
<1>2. WanHold \in Nat /\ SwitchHold \in Nat /\ to # {} /\ to \in SUBSET Wans
  BY HoldAssumption DEF Actives
<1>3. /\ under' \in Wans \cup {NoWan}
      /\ out' \in [Wans -> Age(WanHold)] /\ bare' \in [Wans -> Age(WanHold)]
  BY <1>1, WatchedType DEF IInv, TypeOK
<1>4. \A w \in Wans : /\ out'[w] = Since(out[w], w \notin up, WanHold)
                      /\ bare'[w] = Since(bare[w], w \notin up /\ w # maint, WanHold)
                      /\ link'[w] = SeededLink(w \in up, w = maint)
                      /\ w \in amiss' <=> toldDown[w] # (w \notin up \cup {maint})
  BY <1>1 DEF Watched
<1>5. \A w \in Wans : /\ link'[w] \in Link /\ ~(link'[w].alerted /\ link'[w].withheld)
                      /\ link'[w].since = None
                      /\ w \in up \/ w = maint => link'[w].alerted = FALSE
                      /\ w \notin up /\ w # maint => link'[w].alerted = TRUE
  <2> SUFFICES ASSUME NEW w \in Wans
              PROVE  /\ link'[w] \in Link /\ ~(link'[w].alerted /\ link'[w].withheld)
                     /\ link'[w].since = None
                     /\ w \in up \/ w = maint => link'[w].alerted = FALSE
                     /\ w \notin up /\ w # maint => link'[w].alerted = TRUE
    OBVIOUS
  <2>1. link'[w] = [since |-> None, alerted |-> ~(w \in up) /\ ~(w = maint),
                    withheld |-> ~(w \in up) /\ w = maint]
    BY <1>4 DEF SeededLink
  <2>2. CASE w \in up
    <3>1. link'[w] = [since |-> None, alerted |-> FALSE, withheld |-> FALSE]
      BY <2>1, <2>2
    <3> QED BY <1>2, <2>2, <3>1 DEF Link, Age
  <2>3. CASE w \notin up /\ w = maint
    <3>1. link'[w] = [since |-> None, alerted |-> FALSE, withheld |-> TRUE]
      BY <2>1, <2>3
    <3> QED BY <1>2, <2>3, <3>1 DEF Link, Age
  <2>4. CASE w \notin up /\ w # maint
    <3>1. link'[w] = [since |-> None, alerted |-> TRUE, withheld |-> FALSE]
      BY <2>1, <2>4
    <3> QED BY <1>2, <2>4, <3>1 DEF Link, Age
  <2> QED BY <2>2, <2>3, <2>4
<1>6. TypeOK'
  <2>1. /\ link' \in [Wans -> Link] /\ toldDown' \in [Wans -> BOOLEAN]
        /\ amiss' \in SUBSET Wans /\ toldActive' \in SUBSET Wans
    BY <1>1, <1>a, <1>5
  <2>2. offline' \in [since : Age(WanHold), alerted : BOOLEAN]
    BY <1>1, <1>2 DEF Age
  <2>3. pending' \in [to : SUBSET Wans, since : Age(SwitchHold)]
    BY <1>1, <1>2 DEF NoSwitch, Age
  <2>4. seeded' \in BOOLEAN
    BY DEF Seed
  <2>5. \A w \in Wans : ~(link'[w].alerted /\ link'[w].withheld)
    BY <1>5
  <2>6. toldOffline' \in BOOLEAN /\ offlineAmiss' \in BOOLEAN /\ missed' \in BOOLEAN
    BY <1>1
  <2>7. steady' \in 0 .. SwitchHold
    BY <1>1, <1>2
  <2> QED BY <1>1, <1>2, <1>3, <2>1, <2>2, <2>3, <2>4, <2>5, <2>6, <2>7 DEF TypeOK
<1>7. \A w \in Wans : LinkSound(link'[w], out'[w], bare'[w], toldDown'[w], w \in amiss')
  <2> SUFFICES ASSUME NEW w \in Wans
              PROVE  LinkSound(link'[w], out'[w], bare'[w], toldDown'[w], w \in amiss')
    OBVIOUS
  <2>1. toldDown'[w] = (IF w \in amiss' THEN ~link'[w].alerted ELSE link'[w].alerted)
    <3>1. toldDown'[w] = toldDown[w] /\ toldDown[w] \in BOOLEAN
      BY <1>a
    <3>2. link'[w].alerted = (w \notin up \cup {maint})
      BY <1>5
    <3> QED BY <1>4, <3>1, <3>2
  <2>2. out'[w] \in Age(WanHold) /\ link'[w].since = None
    BY <1>3, <1>5
  <2>3. out'[w] = None => w \in up
    BY <1>2, <1>4 DEF IInv, TypeOK, Since, Age, None, Older
  <2>4. w \in up \/ w = maint => bare'[w] = None
    BY <1>4 DEF Since
  <2>5. CASE w \notin up /\ w # maint
    <3>1. link'[w].alerted = TRUE
      BY <1>5, <2>5
    <3> QED BY <1>2, <2>1, <2>2, <2>3, <2>5, <3>1 DEF LinkSound, Age, None
  <2>6. CASE w \in up \/ w = maint
    <3>1. link'[w].alerted = FALSE
      BY <1>5, <2>6
    <3> QED BY <1>2, <2>1, <2>2, <2>4, <2>6, <3>1 DEF LinkSound, Age, None
  <2> QED BY <2>5, <2>6
<1>8. OfflineSound'
  <2>1. /\ offline'.alerted => toldOffline' \/ offlineAmiss'
        /\ offline'.alerted <=> up = {}
    BY <1>1, <1>a
  <2>2. ASSUME up # {} PROVE \E w \in Wans : out'[w] <= offline'.since /\ offline'.since < WanHold
    <3>1. PICK w \in Wans : w \in up
      BY <2>2
    <3>2. out'[w] = None /\ offline'.since = None
      BY <1>1, <1>4, <2>2, <3>1 DEF Since
    <3> QED BY <1>2, <3>2 DEF None
  <2> QED BY <2>1, <2>2 DEF OfflineSound
<1>9. SwitchSound'
  BY <1>1, <1>2, <1>a DEF SwitchSound, Believed
<1> QED BY <1>6, <1>7, <1>8, <1>9 DEF IInv, Sound

\* Of a tick: the invariant is kept, and the step is one that SwitchesTold allows.
LEMMA ObserveIInv ==
  IInv /\ Observe =>
    /\ IInv'
    /\ toldActive' # toldActive =>
         steady' = SwitchHold \/ toldActive' = Toggled(toldActive, under')
<1> SUFFICES ASSUME IInv, Observe
            PROVE  /\ IInv'
                   /\ toldActive' # toldActive =>
                        steady' = SwitchHold \/ toldActive' = Toggled(toldActive, under')
  OBVIOUS
<1>1. PICK up \in SUBSET Wans, maint \in Wans \cup {NoWan}, to \in Actives :
       /\ WanEvents(up, maint) /\ AllDownEvents(up) /\ SwitchEvents(to, maint)
       /\ Watched(up, maint)
  BY DEF Observe
<1>2. /\ TypeOK /\ seeded /\ seeded' = seeded /\ SwitchType /\ SwitchSound /\ OfflineSound
      /\ \A w \in Wans : LinkSound(link[w], out[w], bare[w], toldDown[w], w \in amiss)
  BY DEF Observe, IInv, Sound, TypeOK, SwitchType
<1>3. /\ under' \in Wans \cup {NoWan}
      /\ out' \in [Wans -> Age(WanHold)] /\ bare' \in [Wans -> Age(WanHold)]
  BY <1>1, WatchedType DEF IInv, TypeOK
<1>4. \A w \in Wans : /\ link'[w] \in Link /\ ~(link'[w].alerted /\ link'[w].withheld)
                      /\ LinkSound(link'[w], out'[w], bare'[w], toldDown'[w], w \in amiss')
  BY <1>1, <1>2, WanStep
<1>5. /\ offline' \in [since : Age(WanHold), alerted : BOOLEAN]
      /\ toldOffline' \in BOOLEAN /\ offlineAmiss' \in BOOLEAN /\ OfflineSound'
  <2>1. Wans # {}
    BY DEF Actives
  <2> QED BY <1>1, <1>2, <2>1, OfflineStep
<1>6. /\ SwitchType' /\ SwitchSound'
      /\ toldActive' # toldActive =>
           steady' = SwitchHold \/ toldActive' = Toggled(toldActive, maint)
  BY <1>1, <1>2, SwitchStep
<1>7. under' = maint
  BY <1>1 DEF Watched
<1>8. /\ toldDown' \in [Wans -> BOOLEAN] /\ link' \in [Wans -> Link]
      /\ amiss' \in SUBSET Wans
  <2>1. \A w \in Wans : toldDown'[w] \in BOOLEAN
    BY <1>4 DEF LinkSound, Link
  <2>2. amiss' \in SUBSET Wans
    BY <1>1, <1>2 DEF WanEvents, TypeOK
  <2> QED BY <1>1, <1>4, <2>1, <2>2 DEF WanEvents
<1>9. IInv'
  BY <1>2, <1>3, <1>4, <1>5, <1>6, <1>8 DEF IInv, TypeOK, Sound, SwitchType
<1> QED BY <1>6, <1>7, <1>9

\* A restart forgets; nothing is claimed before the next seed.
LEMMA RestartIInv == IInv /\ Restart => IInv'
BY DEF IInv, TypeOK, Sound, Restart, history

\* A stutter changes nothing.
LEMMA StutterIInv == IInv /\ UNCHANGED vars => IInv'
BY DEF IInv, TypeOK, Sound, LinkSound, OfflineSound, SwitchSound, Believed, vars, detector, history

\* So every step keeps it.
LEMMA NextIInv == IInv /\ [Next]_vars => IInv'
BY SeedIInv, ObserveIInv, RestartIInv, StutterIInv DEF Next

----------------------------------------------------------------------------
(* What the invariant gives *)

\* What the invariant says of the operator's picture.
LEMMA TrueTelling == IInv => PagesTellTheTruth
<1> SUFFICES ASSUME IInv, seeded
            PROVE  /\ \A w \in Wans \ amiss : /\ out[w] = None => ~toldDown[w]
                                              /\ bare[w] = WanHold => toldDown[w]
                                              /\ toldDown[w] => out[w] = WanHold \/ link[w].since = None
                   /\ (\A w \in Wans : out[w] = WanHold) => toldOffline \/ offlineAmiss
  BY DEF PagesTellTheTruth
<1>1. WanHold \in Nat
  BY HoldAssumption
<1>2. ASSUME NEW w \in Wans \ amiss
      PROVE  /\ out[w] = None => ~toldDown[w]
             /\ bare[w] = WanHold => toldDown[w]
             /\ toldDown[w] => out[w] = WanHold \/ link[w].since = None
  <2>1. /\ LinkSound(link[w], out[w], bare[w], toldDown[w], w \in amiss) /\ toldDown[w] \in BOOLEAN
        /\ out[w] \in Age(WanHold) /\ bare[w] \in Age(WanHold) /\ link[w].since \in Age(WanHold)
    BY DEF IInv, TypeOK, Sound, Link
  <2> QED BY <1>1, <2>1 DEF LinkSound, Age, None
<1>3. ASSUME \A w \in Wans : out[w] = WanHold PROVE toldOffline \/ offlineAmiss
  <2>1. OfflineSound /\ offline.since \in Age(WanHold)
    BY DEF IInv, TypeOK, Sound
  <2> QED BY <1>1, <1>3, <2>1 DEF OfflineSound, Age, None
<1> QED BY <1>2, <1>3

\* What it says of one step of the active set.
LEMMA SwitchTelling ==
  IInv /\ IInv' /\ [Next]_vars =>
    [seeded /\ seeded' =>
       /\ steady' = SwitchHold /\ ~missed' => toldActive' = active'
       /\ toldActive' # toldActive =>
            steady' = SwitchHold \/ toldActive' = Toggled(toldActive, under')]_vars
<1> SUFFICES ASSUME IInv, IInv', Next, seeded, seeded'
            PROVE  /\ steady' = SwitchHold /\ ~missed' => toldActive' = active'
                   /\ toldActive' # toldActive =>
                        steady' = SwitchHold \/ toldActive' = Toggled(toldActive, under')
  OBVIOUS
<1>1. Observe
  BY DEF Next, Seed, Restart
<1>2. ASSUME steady' = SwitchHold, ~missed' PROVE toldActive' = active'
  <2>1. SwitchSound' /\ SwitchHold \in Nat
    BY HoldAssumption DEF IInv, Sound
  <2> QED BY <1>2, <2>1 DEF SwitchSound
<1> QED BY <1>1, <1>2, ObserveIInv

----------------------------------------------------------------------------
(* Theorems *)

\* So it holds of every reachable state.
LEMMA Invariance == Spec => []IInv
<1> QED BY InitIInv, NextIInv, PTL DEF Spec

\* Type correctness: an outage is announced or withheld, never both, and a switch
\* that waits is the last one (EventDetector's state between two ticks).
THEOREM TypeCorrect == Spec => []TypeOK
<1>1. IInv => TypeOK
  BY DEF IInv
<1> QED BY <1>1, Invariance, PTL

\* The operator has the truth about the WANs, but for the holds and for what the
\* seed took over without a page and no page has followed yet (_wan_events,
\* _all_down_events and _seed, whatever windows, flaps and restarts there are).
THEOREM PagesAreTrue == Spec => []PagesTellTheTruth
<1> QED BY Invariance, TrueTelling, PTL

\* A switch that has held is told, and one that has not is not, but for one that the
\* maintained WAN's own switch drops and one that a seed takes over (_switch_events).
THEOREM SwitchesAreTold == Spec => SwitchesTold
<1> QED BY Invariance, SwitchTelling, PTL DEF Spec, SwitchesTold
=============================================================================
