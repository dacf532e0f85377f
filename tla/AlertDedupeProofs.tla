------------------------- MODULE AlertDedupeProofs -------------------------
(***************************************************************************)
(* Proofs about AlertDedupe, for any number of alerts, requests, and ids,  *)
(* and for all times that satisfy RetentionAssumption.                     *)
(***************************************************************************)
EXTENDS AlertDedupeProps, FiniteSetTheorems, TLAPS

(* Initially every variable has its type.                                  *)
LEMMA InitTypeOK == Init => TypeOK
  BY DEF Init, TypeOK, Point, Busy, NoMarker

(* The new marker of a handler has the type of a marker.                   *)
LEMMA NewMarker ==
  ASSUME NEW n \in Nat, NEW t \in Nat
  PROVE  [incident |-> n + 1, created |-> t] \in [incident : 1 .. n + 1, created : Nat]
  OBVIOUS

(* No step changes the type of a variable.                                 *)
LEMMA StepTypeOK == TypeOK /\ [Next]_vars => TypeOK'
<1> SUFFICES ASSUME TypeOK, [Next]_vars PROVE TypeOK'
  OBVIOUS
<1> USE BoundAssumption DEF TypeOK, handler, history, Goto, Proceed, Point, Busy
<1>1. CASE Tick
  BY <1>1 DEF Tick
<1>2. ASSUME NEW h \in Handler, Notify(h) PROVE TypeOK'
  BY <1>2 DEF Notify
<1>3. ASSUME NEW h \in Handler, EnqueueAlert(h) PROVE TypeOK'
  <2> DEFINE Marker(n) == [incident : 1 .. n, created : Nat] \cup {NoMarker}
  <2>1. drawn' = drawn + 1 /\ drawn' \in Nat /\ 1 .. drawn \subseteq 1 .. drawn'
    BY <1>3 DEF EnqueueAlert
  <2>2. Marker(drawn) \subseteq Marker(drawn')
    BY <2>1
  <2>3. [incident |-> drawn + 1, created |-> now] \in Marker(drawn')
    BY <2>1, NewMarker
  <2>4. mine' \in [Handler -> Marker(drawn')] /\ marker' \in [Alert -> Marker(drawn')]
    BY <1>3, <2>2, <2>3 DEF EnqueueAlert
  <2>5. claims \subseteq [alert : Alert, incident : 1 .. drawn', created : Nat]
    BY <2>1
  <2>6. mine'[h] # NoMarker /\ cur'[h] \in Alert
    BY <1>3 DEF EnqueueAlert, NoMarker
  <2>7. \A g \in Handler : pc'[g] \in Busy => cur'[g] \in Alert /\ mine'[g] # NoMarker
    BY <1>3, <2>6 DEF EnqueueAlert
  <2>8. /\ todo' \in [Handler -> SUBSET Alert] /\ cur' \in [Handler -> Alert \cup {NoAlert}]
        /\ pc' \in [Handler -> Point] /\ UNCHANGED <<now, queued, answers, doomed, aborts, claims>>
        /\ queued \subseteq 1 .. drawn' /\ answers \subseteq 1 .. drawn'
    BY <1>3, <2>1 DEF EnqueueAlert
  <2> QED
    BY <2>1, <2>4, <2>5, <2>7, <2>8
<1>4. ASSUME NEW h \in Handler, ClaimMarker(h) PROVE TypeOK'
  <2>1. cur[h] \in Alert /\ mine[h] \in [incident : 1 .. drawn, created : Nat]
    BY <1>4 DEF ClaimMarker
  <2>2. [alert |-> cur[h], incident |-> mine[h].incident, created |-> mine[h].created]
          \in [alert : Alert, incident : 1 .. drawn, created : Nat]
    BY <2>1
  <2>3. claims' \subseteq [alert : Alert, incident : 1 .. drawn, created : Nat]
    BY <1>4, <2>2 DEF ClaimMarker, Claimed
  <2>4. marker' \in [Alert -> [incident : 1 .. drawn, created : Nat] \cup {NoMarker}]
    BY <1>4, <2>1 DEF ClaimMarker
  <2> QED
    BY <1>4, <2>1, <2>3, <2>4 DEF ClaimMarker
<1>5. ASSUME NEW h \in Handler, ReadMarker(h) PROVE TypeOK'
  <2>1. CASE pc'[h] = "overwrite" /\ UNCHANGED <<todo, cur, mine, answers>>
    BY <1>5, <2>1 DEF ReadMarker
  <2>2. CASE marker[cur[h]] # NoMarker /\ Proceed(h)
             /\ answers' = answers \cup {marker[cur[h]].incident}
    <3>1. marker[cur[h]] \in [incident : 1 .. drawn, created : Nat]
      BY <1>5, <2>2 DEF ReadMarker
    <3> QED
      BY <1>5, <2>2, <3>1 DEF ReadMarker
  <2> QED
    BY <1>5, <2>1, <2>2 DEF ReadMarker
<1>6. ASSUME NEW h \in Handler, Overwrite(h) PROVE TypeOK'
  <2>1. cur[h] \in Alert /\ mine[h] \in [incident : 1 .. drawn, created : Nat]
    BY <1>6 DEF Overwrite
  <2>2. [alert |-> cur[h], incident |-> mine[h].incident, created |-> mine[h].created]
          \in [alert : Alert, incident : 1 .. drawn, created : Nat]
    BY <2>1
  <2>3. claims' \subseteq [alert : Alert, incident : 1 .. drawn, created : Nat]
    BY <1>6, <2>2 DEF Overwrite, Claimed
  <2>4. marker' \in [Alert -> [incident : 1 .. drawn, created : Nat] \cup {NoMarker}]
    BY <1>6, <2>1 DEF Overwrite
  <2> QED
    BY <1>6, <2>1, <2>3, <2>4 DEF Overwrite
<1>7. ASSUME NEW h \in Handler, EnqueueIncident(h) PROVE TypeOK'
  <2>1. mine[h] \in [incident : 1 .. drawn, created : Nat]
    BY <1>7 DEF EnqueueIncident
  <2> QED
    BY <1>7, <2>1 DEF EnqueueIncident
<1>8. ASSUME NEW h \in Handler, Abort(h) PROVE TypeOK'
  BY <1>8 DEF Abort
<1>9. ASSUME NEW a \in Alert, RetentionRead(a) PROVE TypeOK'
  BY <1>9 DEF RetentionRead
<1>10. ASSUME NEW a \in Alert, RetentionDelete(a) PROVE TypeOK'
  BY <1>10 DEF RetentionDelete
<1>11. CASE UNCHANGED vars
  BY <1>11 DEF vars
<1> QED
  BY <1>1, <1>2, <1>3, <1>4, <1>5, <1>6, <1>7, <1>8, <1>9, <1>10, <1>11
     DEF Next, HandlerStep

(* Every variable keeps its type.                                          *)
THEOREM TypeCorrect == Spec => []TypeOK
<1>1. Init /\ [][Next]_vars => []TypeOK
  BY InitTypeOK, StepTypeOK, PTL
<1> QED
  BY <1>1 DEF Spec

-----------------------------------------------------------------------------
(* A busy handler stays within Patience of the time it read.               *)
LEMMA StepBusyInv == TypeOK /\ BusyInv /\ [Next]_vars => BusyInv'
<1> SUFFICES ASSUME TypeOK, BusyInv, [Next]_vars PROVE BusyInv'
  OBVIOUS
<1> USE BoundAssumption DEF TypeOK, BusyInv, handler, Goto, Proceed, Busy
<1>1. CASE Tick
  <2> SUFFICES ASSUME NEW h \in Handler, pc[h] \in Busy
               PROVE  mine[h].created <= now' /\ now' <= mine[h].created + Patience
    BY <1>1 DEF Tick
  <2>1. mine[h] \in [incident : 1 .. drawn, created : Nat]
    OBVIOUS
  <2>2. mine[h].created \in Nat
    BY <2>1
  <2>3. mine[h].created <= now /\ now < mine[h].created + Patience /\ now' = now + 1
    BY <1>1 DEF Tick
  <2> QED
    BY <2>2, <2>3
<1>2. ASSUME NEW h \in Handler, Notify(h) PROVE BusyInv'
  BY <1>2 DEF Notify
<1>3. ASSUME NEW h \in Handler, EnqueueAlert(h) PROVE BusyInv'
  <2>1. mine'[h].created = now
    BY <1>3 DEF EnqueueAlert
  <2>2. now <= now /\ now <= now + Patience
    OBVIOUS
  <2>3. \A g \in Handler \ {h} : mine'[g] = mine[g] /\ pc'[g] = pc[g]
    BY <1>3 DEF EnqueueAlert
  <2>4. now' = now
    BY <1>3 DEF EnqueueAlert
  <2> QED
    BY <2>1, <2>2, <2>3, <2>4
<1>4. ASSUME NEW h \in Handler, ClaimMarker(h) PROVE BusyInv'
  BY <1>4 DEF ClaimMarker
<1>5. ASSUME NEW h \in Handler, ReadMarker(h) PROVE BusyInv'
  BY <1>5 DEF ReadMarker
<1>6. ASSUME NEW h \in Handler, Overwrite(h) PROVE BusyInv'
  BY <1>6 DEF Overwrite
<1>7. ASSUME NEW h \in Handler, EnqueueIncident(h) PROVE BusyInv'
  BY <1>7 DEF EnqueueIncident
<1>8. ASSUME NEW h \in Handler, Abort(h) PROVE BusyInv'
  BY <1>8 DEF Abort
<1>9. ASSUME NEW a \in Alert, RetentionRead(a) \/ RetentionDelete(a) PROVE BusyInv'
  BY <1>9 DEF RetentionRead, RetentionDelete
<1>10. CASE UNCHANGED vars
  BY <1>10 DEF vars
<1> QED
  BY <1>1, <1>2, <1>3, <1>4, <1>5, <1>6, <1>7, <1>8, <1>9, <1>10
     DEF Next, HandlerStep

(* A claim as old as retention requires cooled before any busy handler     *)
(* read the clock.                                                         *)
LEMMA AgedCooled ==
  ASSUME TypeOK, BusyInv, NEW h \in Handler, pc[h] \in Busy, NEW a, Aged(a)
  PROVE  Cooled(a, mine[h].created)
<1>1. PICK u \in claims : u.alert = a /\ u.created + Retention < now
  BY DEF Aged
<1>2. mine[h] \in [incident : 1 .. drawn, created : Nat]
  BY DEF TypeOK, Busy
<1>3. mine[h].created \in Nat /\ u.created \in Nat /\ now \in Nat
  BY <1>2 DEF TypeOK
<1>4. now <= mine[h].created + Patience
  BY DEF BusyInv
<1>5. u.created + Window <= mine[h].created
  BY <1>1, <1>3, <1>4, BoundAssumption, RetentionAssumption
<1> QED
  BY <1>1, <1>5 DEF Cooled

(* Claims are only added, and time only passes: what has aged has aged.    *)
LEMMA AgedStays ==
  ASSUME TypeOK, [Next]_vars, NEW a
  PROVE  (Aged(a) => Aged(a)') /\ \A t : Cooled(a, t) => Cooled(a, t)'
<1>1. claims \subseteq claims'
  BY DEF Next, HandlerStep, vars, handler, history, Tick, Notify, EnqueueAlert,
     ClaimMarker, Claimed, ReadMarker, Overwrite, EnqueueIncident, Abort,
     RetentionRead, RetentionDelete
<1>2. CASE Tick
  <2>1. now' = now + 1 /\ now \in Nat /\ \A u \in claims : u.created \in Nat
    BY <1>2 DEF Tick, TypeOK
  <2>2. \A u \in claims : u.created + Retention < now => u.created + Retention < now'
    BY <2>1, BoundAssumption
  <2> QED
    BY <1>1, <2>2 DEF Aged, Cooled
<1>3. CASE now' = now
  BY <1>1, <1>3 DEF Aged, Cooled
<1> QED
  BY <1>2, <1>3 DEF Next, HandlerStep, vars, handler, history, Notify, EnqueueAlert,
     ClaimMarker, ReadMarker, Overwrite, EnqueueIncident, Abort,
     RetentionRead, RetentionDelete

(* Claims stay within the rule if each new one is the first of its alert,  *)
(* or comes when one has cooled.                                           *)
LEMMA NewClaim ==
  ASSUME TypeOK, RepeatsOnlyAfterCooldown, NEW n \in [alert : Alert, incident : Nat, created : Nat],
         claims' = claims \cup {n},
         (\A u \in claims : u.alert # n.alert) \/ Cooled(n.alert, n.created)
  PROVE  RepeatsOnlyAfterCooldown'
<1> SUFFICES ASSUME NEW v \in claims', NEW w \in claims', v.alert = w.alert, v # w,
                    w.created <= v.created, v.created < w.created + Window
             PROVE  \E u \in claims' : u.alert = v.alert /\ u.created + Window <= v.created
  BY DEF RepeatsOnlyAfterCooldown
<1>0. \A u \in claims' : u.created \in Nat
  BY DEF TypeOK
<1>1. CASE v \in claims /\ w \in claims
  BY <1>1 DEF RepeatsOnlyAfterCooldown
<1>2. CASE v = n \/ w = n
  <2>1. PICK u \in claims : u.alert = v.alert /\ u.created + Window <= n.created
    BY <1>2 DEF Cooled
  <2>2. n.created <= v.created
    BY <1>0, <1>2
  <2> QED
    BY <1>0, <2>1, <2>2, BoundAssumption
<1> QED
  BY <1>1, <1>2

(* The claim a handler is about to make.                                   *)
NewOne(h) == [alert |-> cur[h], incident |-> mine[h].incident,
              created |-> mine[h].created]

(* A handler that writes its marker and claims its alert, as the first or  *)
(* when a claim has cooled.                                                *)
LEMMA PutClaim ==
  ASSUME TypeOK, MarkerInv, RepeatsOnlyAfterCooldown, [Next]_vars, NEW h \in Handler,
         cur[h] \in Alert, mine[h] \in [incident : 1 .. drawn, created : Nat],
         claims' = claims \cup {NewOne(h)},
         marker' = [marker EXCEPT ![cur[h]] = mine[h]], Goto(h, "enqueue"),
         UNCHANGED <<now, cur, mine, doomed>>,
         (\A u \in claims : u.alert # cur[h]) \/ Cooled(cur[h], mine[h].created)
  PROVE  MarkerInv' /\ RepeatsOnlyAfterCooldown'
<1>1. /\ NewOne(h) \in [alert : Alert, incident : Nat, created : Nat]
      /\ NewOne(h).alert = cur[h] /\ NewOne(h).created = mine[h].created
  BY DEF NewOne, TypeOK
<1>2. RepeatsOnlyAfterCooldown'
  BY <1>1, NewClaim
<1>3. mine[h] # NoMarker
  BY DEF NoMarker
<1>4. /\ \A a \in Alert : Aged(a) => Aged(a)'
      /\ \A a, t : Cooled(a, t) => \E u \in claims' : u.alert = a /\ u.created + Window <= t
  BY DEF Aged, Cooled
<1>5. ASSUME NEW a \in Alert
      PROVE  /\ marker'[a] # NoMarker =>
                  \E u \in claims' : u.alert = a /\ u.created = marker'[a].created
             /\ marker'[a] = NoMarker => Aged(a)' \/ \A u \in claims' : u.alert # a
             /\ a \in doomed' => Aged(a)'
  <2>1. CASE a = cur[h]
    BY <1>1, <1>3, <1>4, <2>1 DEF TypeOK, MarkerInv
  <2>2. CASE a # cur[h]
    BY <1>1, <1>4, <2>2 DEF TypeOK, MarkerInv
  <2> QED
    BY <2>1, <2>2
<1>6. ASSUME NEW g \in Handler
      PROVE  /\ pc'[g] = "read" => \E u \in claims' : u.alert = cur'[g]
             /\ pc'[g] = "overwrite" =>
                  \E u \in claims' : u.alert = cur'[g] /\ u.created + Window <= mine'[g].created
  BY <1>4 DEF MarkerInv, Goto, TypeOK
<1>7. MarkerInv'
  BY <1>5, <1>6 DEF MarkerInv, Cooled
<1> QED
  BY <1>2, <1>7

(* The invariant holds initially.                                          *)
LEMMA InitDedupeInv == Init => DedupeInv
<1> SUFFICES ASSUME Init PROVE DedupeInv
  OBVIOUS
<1>1. BusyInv /\ RepeatsOnlyAfterCooldown
  BY DEF Init, BusyInv, Busy, RepeatsOnlyAfterCooldown
<1>2. MarkerInv
  BY DEF Init, MarkerInv
<1> QED
  BY <1>1, <1>2, InitTypeOK DEF DedupeInv

(* No step breaks the invariant.                                           *)
LEMMA StepDedupeInv == DedupeInv /\ [Next]_vars => DedupeInv'
<1> SUFFICES ASSUME DedupeInv, [Next]_vars
             PROVE  MarkerInv' /\ RepeatsOnlyAfterCooldown'
  BY StepTypeOK, StepBusyInv DEF DedupeInv
<1>0. TypeOK /\ BusyInv /\ MarkerInv /\ RepeatsOnlyAfterCooldown
  BY DEF DedupeInv
<1>a. /\ \A a \in Alert : Aged(a) => Aged(a)'
      /\ \A a \in Alert \cup {NoAlert} : \A t : Cooled(a, t) => Cooled(a, t)'
  BY <1>0, AgedStays
<1>r. claims' = claims => RepeatsOnlyAfterCooldown'
  BY <1>0 DEF RepeatsOnlyAfterCooldown
<1> USE DEF TypeOK, handler, history, Goto, Proceed, Busy
<1>1. CASE Tick
  BY <1>0, <1>a, <1>r, <1>1 DEF Tick, MarkerInv
<1>2. ASSUME NEW h \in Handler, Notify(h)
      PROVE  MarkerInv' /\ RepeatsOnlyAfterCooldown'
  BY <1>0, <1>a, <1>r, <1>2 DEF Notify, MarkerInv
<1>3. ASSUME NEW h \in Handler, EnqueueAlert(h)
      PROVE  MarkerInv' /\ RepeatsOnlyAfterCooldown'
  BY <1>0, <1>a, <1>r, <1>3 DEF EnqueueAlert, MarkerInv
<1>4. ASSUME NEW h \in Handler, ClaimMarker(h)
      PROVE  MarkerInv' /\ RepeatsOnlyAfterCooldown'
  <2>1. cur[h] \in Alert /\ mine[h] \in [incident : 1 .. drawn, created : Nat]
    BY <1>0, <1>4 DEF ClaimMarker
  <2>2. CASE marker[cur[h]] # NoMarker /\ Goto(h, "read") /\ UNCHANGED <<marker, claims>>
    BY <1>0, <1>4, <1>a, <1>r, <2>1, <2>2 DEF ClaimMarker, MarkerInv
  <2>3. CASE /\ marker[cur[h]] = NoMarker /\ Claimed(h) /\ Goto(h, "enqueue")
             /\ marker' = [marker EXCEPT ![cur[h]] = mine[h]]
    <3>1. Aged(cur[h]) \/ \A u \in claims : u.alert # cur[h]
      BY <1>0, <2>1, <2>3 DEF MarkerInv
    <3>2. Cooled(cur[h], mine[h].created) \/ \A u \in claims : u.alert # cur[h]
      BY <1>0, <1>4, <3>1, AgedCooled DEF ClaimMarker
    <3>3. claims' = claims \cup {NewOne(h)}
      BY <2>3 DEF Claimed, NewOne
    <3> QED
      BY <1>0, <1>4, <2>1, <2>3, <3>2, <3>3, PutClaim DEF ClaimMarker
  <2> QED
    BY <1>4, <2>2, <2>3 DEF ClaimMarker
<1>5. ASSUME NEW h \in Handler, ReadMarker(h)
      PROVE  MarkerInv' /\ RepeatsOnlyAfterCooldown'
  <2>1. cur[h] \in Alert
    BY <1>0, <1>5 DEF ReadMarker
  <2>2. CASE Proceed(h)
    BY <1>0, <1>5, <1>a, <1>r, <2>2 DEF ReadMarker, MarkerInv
  <2>3. CASE /\ marker[cur[h]] = NoMarker
                \/ marker[cur[h]].created + Window <= mine[h].created
             /\ Goto(h, "overwrite") /\ UNCHANGED <<todo, cur, mine>>
    <3>1. Cooled(cur[h], mine[h].created)
      <4>1. CASE marker[cur[h]] = NoMarker
        BY <1>0, <1>5, <2>1, <4>1, AgedCooled DEF ReadMarker, MarkerInv
      <4>2. CASE marker[cur[h]] # NoMarker
        BY <1>0, <2>1, <2>3, <4>2 DEF MarkerInv, Cooled
      <4> QED
        BY <4>1, <4>2
    <3> QED
      BY <1>0, <1>5, <1>a, <1>r, <2>3, <3>1 DEF ReadMarker, MarkerInv
  <2> QED
    BY <1>5, <2>2, <2>3 DEF ReadMarker
<1>6. ASSUME NEW h \in Handler, Overwrite(h)
      PROVE  MarkerInv' /\ RepeatsOnlyAfterCooldown'
  <2>1. cur[h] \in Alert /\ mine[h] \in [incident : 1 .. drawn, created : Nat]
    BY <1>0, <1>6 DEF Overwrite
  <2>2. Cooled(cur[h], mine[h].created)
    BY <1>0, <1>6 DEF Overwrite, MarkerInv
  <2>3. claims' = claims \cup {NewOne(h)}
    BY <1>6 DEF Overwrite, Claimed, NewOne
  <2> QED
    BY <1>0, <1>6, <2>1, <2>2, <2>3, PutClaim DEF Overwrite
<1>7. ASSUME NEW h \in Handler, EnqueueIncident(h)
      PROVE  MarkerInv' /\ RepeatsOnlyAfterCooldown'
  BY <1>0, <1>a, <1>r, <1>7 DEF EnqueueIncident, MarkerInv
<1>8. ASSUME NEW h \in Handler, Abort(h)
      PROVE  MarkerInv' /\ RepeatsOnlyAfterCooldown'
  BY <1>0, <1>a, <1>r, <1>8 DEF Abort, MarkerInv
<1>9. ASSUME NEW a \in Alert, RetentionRead(a)
      PROVE  MarkerInv' /\ RepeatsOnlyAfterCooldown'
  <2>1. Aged(a)
    BY <1>0, <1>9 DEF RetentionRead, MarkerInv, Aged
  <2> QED
    BY <1>0, <1>a, <1>r, <1>9, <2>1 DEF RetentionRead, MarkerInv
<1>10. ASSUME NEW a \in Alert, RetentionDelete(a)
       PROVE  MarkerInv' /\ RepeatsOnlyAfterCooldown'
  BY <1>0, <1>a, <1>r, <1>10 DEF RetentionDelete, MarkerInv
<1>11. CASE UNCHANGED vars
  BY <1>0, <1>a, <1>r, <1>11 DEF vars, MarkerInv
<1> QED
  BY <1>1, <1>2, <1>3, <1>4, <1>5, <1>6, <1>7, <1>8, <1>9, <1>10, <1>11
     DEF Next, HandlerStep

(* The first claim of an alert excludes all others for a window, however   *)
(* many requests bring it, and although retention deletes markers.         *)
THEOREM RepeatsOnlyAfterCooldownAlways == Spec => []RepeatsOnlyAfterCooldown
<1>1. Init /\ [][Next]_vars => []DedupeInv
  BY InitDedupeInv, StepDedupeInv, PTL
<1>2. DedupeInv => RepeatsOnlyAfterCooldown
  BY DEF DedupeInv
<1> QED
  BY <1>1, <1>2, PTL DEF Spec
-----------------------------------------------------------------------------
(* A step that touches no handler that enqueues, and no claim, leaves what *)
(* is lost as it is.                                                       *)
LEMMA LostSame ==
  ASSUME NEW h \in Handler, TypeOK, pc[h] # "enqueue",
         \A g \in Handler \ {h} : pc'[g] = pc[g] /\ mine'[g] = mine[g],
         queued \subseteq queued', Promised' \subseteq Promised
  PROVE  Lost' \subseteq Lost
<1>1. \A i : Handled(i) => Handled(i)'
  BY DEF Handled
<1> QED
  BY <1>1 DEF Lost

(* A handler that claims its incident promises it, and will put it in the  *)
(* queue next; its marker names it.                                        *)
LEMMA PutNamed ==
  ASSUME TypeOK, NamedInv, NEW h \in Handler, pc[h] # "enqueue", Claimed(h),
         cur[h] \in Alert, mine[h] \in [incident : 1 .. drawn, created : Nat],
         marker' = [marker EXCEPT ![cur[h]] = mine[h]], Goto(h, "enqueue"),
         UNCHANGED <<queued, mine, answers>>
  PROVE  NamedInv' /\ Lost' \subseteq Lost
<1>1. Promised' = Promised \cup {mine[h].incident}
  <2>1. claims' = claims \cup {NewOne(h)} /\ NewOne(h).incident = mine[h].incident
    BY DEF Claimed, NewOne
  <2>2. {c.incident : c \in claims'} = {c.incident : c \in claims} \cup {mine[h].incident}
    BY <2>1
  <2> QED
    BY <2>2 DEF Promised
<1>2. pc' = [pc EXCEPT ![h] = "enqueue"] /\ pc \in [Handler -> Point]
  BY DEF Goto, TypeOK
<1>3. Handled(mine[h].incident)'
  BY <1>2 DEF Handled
<1>4. \A i : Handled(i) => Handled(i)'
  BY <1>2 DEF Handled
<1>5. Lost' \subseteq Lost
  BY <1>1, <1>3, <1>4 DEF Lost
<1>6. NamedInv'
  BY <1>1 DEF NamedInv, TypeOK
<1> QED
  BY <1>5, <1>6

(* Markers go on naming what was claimed, and a step adds to what is lost  *)
(* no more than the one incident of a request that it cuts short.          *)
LEMMA StepLost ==
  ASSUME TypeOK, NamedInv, [Next]_vars
  PROVE  /\ NamedInv'
         /\ \/ Lost' \subseteq Lost /\ aborts' = aborts
            \/ /\ aborts' = aborts + 1
               /\ \E i : Lost' \subseteq Lost \cup {i}
<1> DEFINE Goal == /\ NamedInv'
                   /\ \/ Lost' \subseteq Lost /\ aborts' = aborts
                      \/ /\ aborts' = aborts + 1
                         /\ \E i : Lost' \subseteq Lost \cup {i}
<1> USE DEF handler, history, Goto, Proceed
<1>1. ASSUME UNCHANGED <<marker, queued, pc, mine, claims, answers, aborts>> PROVE Goal
  BY <1>1 DEF NamedInv, Lost, Promised, Handled
<1>2. ASSUME NEW h \in Handler, Notify(h) PROVE Goal
  <2>1. NamedInv' /\ Promised' \subseteq Promised
    BY <1>2 DEF Notify, NamedInv, Promised
  <2>2. Lost' \subseteq Lost
    BY <1>2, <2>1, LostSame DEF Notify, TypeOK
  <2> QED
    BY <1>2, <2>1, <2>2 DEF Notify
<1>3. ASSUME NEW h \in Handler, EnqueueAlert(h) PROVE Goal
  <2>1. NamedInv' /\ Promised' \subseteq Promised
    BY <1>3 DEF EnqueueAlert, NamedInv, Promised
  <2>2. Lost' \subseteq Lost
    BY <1>3, <2>1, LostSame DEF EnqueueAlert, TypeOK
  <2> QED
    BY <1>3, <2>1, <2>2 DEF EnqueueAlert
<1>4. ASSUME NEW h \in Handler, ClaimMarker(h) PROVE Goal
  <2>1. cur[h] \in Alert /\ mine[h] \in [incident : 1 .. drawn, created : Nat]
    BY <1>4 DEF ClaimMarker, TypeOK, Busy
  <2>2. CASE Goto(h, "read") /\ UNCHANGED <<marker, claims>>
    <3>1. NamedInv' /\ Promised' \subseteq Promised
      BY <1>4, <2>2 DEF ClaimMarker, NamedInv, Promised
    <3>2. Lost' \subseteq Lost
      BY <1>4, <2>2, <3>1, LostSame DEF ClaimMarker, TypeOK
    <3> QED
      BY <1>4, <3>1, <3>2 DEF ClaimMarker
  <2>3. CASE /\ Claimed(h) /\ Goto(h, "enqueue")
             /\ marker' = [marker EXCEPT ![cur[h]] = mine[h]]
    BY <1>4, <2>1, <2>3, PutNamed DEF ClaimMarker
  <2> QED
    BY <1>4, <2>2, <2>3 DEF ClaimMarker
<1>5. ASSUME NEW h \in Handler, ReadMarker(h) PROVE Goal
  <2>1. cur[h] \in Alert
    BY <1>5 DEF ReadMarker, TypeOK, Busy
  <2>2. Promised' \subseteq Promised
    BY <1>5, <2>1 DEF ReadMarker, NamedInv, Promised
  <2>3. Promised \subseteq Promised'
    BY <1>5 DEF ReadMarker, Promised
  <2>4. NamedInv'
    BY <1>5, <2>3 DEF ReadMarker, NamedInv
  <2>5. Lost' \subseteq Lost
    BY <1>5, <2>2, LostSame DEF ReadMarker, TypeOK
  <2> QED
    BY <1>5, <2>4, <2>5 DEF ReadMarker
<1>6. ASSUME NEW h \in Handler, Overwrite(h) PROVE Goal
  <2>1. cur[h] \in Alert /\ mine[h] \in [incident : 1 .. drawn, created : Nat]
    BY <1>6 DEF Overwrite, TypeOK, Busy
  <2> QED
    BY <1>6, <2>1, PutNamed DEF Overwrite
<1>7. ASSUME NEW h \in Handler, EnqueueIncident(h) PROVE Goal
  <2>1. NamedInv' /\ Promised' = Promised
    BY <1>7 DEF EnqueueIncident, NamedInv, Promised
  <2>2. \A i : Handled(i) => Handled(i)'
    BY <1>7 DEF EnqueueIncident, Handled, TypeOK
  <2> QED
    BY <1>7, <2>1, <2>2 DEF EnqueueIncident, Lost
<1>8. ASSUME NEW h \in Handler, Abort(h) PROVE Goal
  <2>1. NamedInv' /\ Promised' = Promised
    BY <1>8 DEF Abort, NamedInv, Promised
  <2>2. \A i : Handled(i) => Handled(i)' \/ i = mine[h].incident
    BY <1>8 DEF Abort, Handled, TypeOK
  <2>3. Lost' \subseteq Lost \cup {mine[h].incident}
    BY <2>1, <2>2 DEF Lost
  <2> QED
    BY <1>8, <2>1, <2>3 DEF Abort
<1>9. ASSUME NEW a \in Alert, RetentionDelete(a) PROVE Goal
  BY <1>9 DEF RetentionDelete, NamedInv, Lost, Promised, Handled, TypeOK
<1> QED
  BY <1>1, <1>2, <1>3, <1>4, <1>5, <1>6, <1>7, <1>8, <1>9
     DEF Next, HandlerStep, Tick, RetentionRead, vars

(* Of the ids that were drawn, finitely many are lost.                     *)
LEMMA LostFinite == TypeOK => IsFiniteSet(Lost)
<1> SUFFICES ASSUME TypeOK PROVE IsFiniteSet(Lost)
  OBVIOUS
<1>1. IsFiniteSet(1 .. drawn)
  BY FS_Interval DEF TypeOK
<1>2. Lost \subseteq 1 .. drawn
  BY DEF Lost, Promised, TypeOK
<1> QED
  BY <1>1, <1>2, FS_Subset

(* No step breaks the invariant.                                           *)
LEMMA StepLostInv == LostInv /\ [Next]_vars => LostInv'
<1> SUFFICES ASSUME LostInv, [Next]_vars PROVE LostInv'
  OBVIOUS
<1>1. TypeOK /\ NamedInv /\ Cardinality(Lost) <= aborts
  BY DEF LostInv, LostOnlyByAborts
<1>2. TypeOK' /\ IsFiniteSet(Lost) /\ IsFiniteSet(Lost')
  <2>1. TypeOK'
    BY <1>1, StepTypeOK
  <2>2. IsFiniteSet(Lost)'
    BY <2>1, LostFinite, PTL
  <2> QED
    BY <1>1, <2>1, <2>2, LostFinite
<1>3. Cardinality(Lost) \in Nat /\ Cardinality(Lost') \in Nat /\ aborts \in Nat
  BY <1>1, <1>2, FS_CardinalityType DEF TypeOK
<1>4. CASE Lost' \subseteq Lost /\ aborts' = aborts
  <2>1. Cardinality(Lost') <= Cardinality(Lost)
    BY <1>2, <1>4, FS_Subset
  <2> QED
    BY <1>1, <1>2, <1>3, <1>4, <2>1, StepLost DEF LostInv, LostOnlyByAborts
<1>5. ASSUME aborts' = aborts + 1, NEW i, Lost' \subseteq Lost \cup {i} PROVE LostInv'
  <2>1. /\ IsFiniteSet(Lost \cup {i})
        /\ Cardinality(Lost \cup {i}) <= Cardinality(Lost) + 1
    <3>1. Cardinality(Lost \cup {i}) =
            IF i \in Lost THEN Cardinality(Lost) ELSE Cardinality(Lost) + 1
      BY <1>2, FS_AddElement
    <3> QED
      BY <1>2, <1>3, <3>1, FS_AddElement
  <2>2. Cardinality(Lost') <= Cardinality(Lost \cup {i})
    BY <1>5, <2>1, FS_Subset
  <2>3. Cardinality(Lost \cup {i}) \in Nat
    BY <2>1, FS_CardinalityType
  <2>4. Cardinality(Lost') <= aborts'
    BY <1>1, <1>3, <1>5, <2>1, <2>2, <2>3
  <2> QED
    BY <1>1, <1>2, <2>4, StepLost DEF LostInv, LostOnlyByAborts
<1> QED
  BY <1>1, <1>4, <1>5, StepLost

(* An incident that was claimed, or named as the original of a duplicate,  *)
(* is in the queue or on its way there, but for one per request that was   *)
(* cut short.                                                              *)
THEOREM LostOnlyByAbortsAlways == Spec => []LostOnlyByAborts
<1>1. Init => LostInv
  <2> SUFFICES ASSUME Init PROVE NamedInv /\ LostOnlyByAborts
    BY InitTypeOK DEF LostInv
  <2>1. Lost = {} /\ aborts = 0
    BY DEF Init, Lost, Promised
  <2> QED
    BY <2>1, FS_EmptySet DEF Init, NamedInv, LostOnlyByAborts
<1>2. Init /\ [][Next]_vars => []LostInv
  BY <1>1, StepLostInv, PTL
<1>3. LostInv => LostOnlyByAborts
  BY DEF LostInv
<1> QED
  BY <1>2, <1>3, PTL DEF Spec
=============================================================================
