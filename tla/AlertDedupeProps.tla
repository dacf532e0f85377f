------------------------- MODULE AlertDedupeProps --------------------------
(***************************************************************************)
(* What is claimed of AlertDedupe.                                         *)
(***************************************************************************)
EXTENDS AlertDedupe, FiniteSets

(* Every variable keeps its type, an incident in the queue has the id that *)
(* was drawn for it, and a busy handler has an alert and a marker for it.  *)
TypeOK ==
  LET Ids == 1 .. drawn
      Marker == [incident : Ids, created : Nat] \cup {NoMarker}
  IN
  /\ now \in Nat /\ drawn \in Nat /\ aborts \in Nat
  /\ marker \in [Alert -> Marker]
  /\ queued \subseteq Ids /\ answers \subseteq Ids
  /\ doomed \subseteq Alert
  /\ pc \in [Handler -> Point]
  /\ todo \in [Handler -> SUBSET Alert]
  /\ cur \in [Handler -> Alert \cup {NoAlert}]
  /\ mine \in [Handler -> Marker]
  /\ \A h \in Handler : pc[h] \in Busy => cur[h] \in Alert /\ mine[h] # NoMarker
  /\ claims \subseteq [alert : Alert, incident : Ids, created : Nat]

(* Two notifications of an alert are both taken for new, within a window   *)
(* of each other, only when the window of an earlier claim has passed: the *)
(* first claim of an alert excludes all others for a window, whatever the  *)
(* handlers' order and although retention deletes markers.                 *)
RepeatsOnlyAfterCooldown ==
  \A v, w \in claims :
    /\ v.alert = w.alert /\ v # w
    /\ w.created <= v.created /\ v.created < w.created + Window
    => \E u \in claims : u.alert = v.alert /\ u.created + Window <= v.created

(* What the documents say of repeats: of two notifications of an alert     *)
(* within a window, one at the most is queued.  Two that find a marker     *)
(* whose window is over both replace it, and both are.                     *)
QueuedOnceAWindow ==
  \A v, w \in claims :
    /\ v.alert = w.alert /\ {v.incident, w.incident} \subseteq queued
    /\ w.created <= v.created /\ v.created < w.created + Window
    => v = w

(* An incident is being handled: it is in the queue, or about to be put.   *)
Handled(i) ==
  i \in queued \/ \E h \in Handler : pc[h] = "enqueue" /\ mine[h].incident = i

(* What a claim or a duplicate's answer promised would be handled.         *)
Promised == answers \cup {c.incident : c \in claims}
Lost == {i \in Promised : ~Handled(i)}

(* A request that is cut short loses one of the incidents it claimed at    *)
(* the most, and nothing else loses any: whatever else was claimed, or a   *)
(* repeat was reported to be a duplicate of, is handled.                   *)
LostOnlyByAborts == Cardinality(Lost) <= aborts

(***************************************************************************)
(* The inductive invariant behind RepeatsOnlyAfterCooldown.                *)
(***************************************************************************)

(* Some claim of a was a window before t.                                  *)
Cooled(a, t) == \E u \in claims : u.alert = a /\ u.created + Window <= t
(* Some claim of a is as old as retention requires.                        *)
Aged(a) == \E u \in claims : u.alert = a /\ u.created + Retention < now

(* A busy handler has read the clock, not long ago.                        *)
BusyInv ==
  \A h \in Handler :
    pc[h] \in Busy =>
      /\ mine[h].created <= now /\ now <= mine[h].created + Patience

(* Markers are of claims, and vanish with age only.                        *)
MarkerInv ==
  /\ \A a \in Alert :
       /\ marker[a] # NoMarker =>
            \E u \in claims : u.alert = a /\ u.created = marker[a].created
       /\ marker[a] = NoMarker =>
            Aged(a) \/ \A u \in claims : u.alert # a
       /\ a \in doomed => Aged(a)
  /\ \A h \in Handler :
       /\ pc[h] = "read" => \E u \in claims : u.alert = cur[h]
       /\ pc[h] = "overwrite" => Cooled(cur[h], mine[h].created)

DedupeInv == TypeOK /\ BusyInv /\ MarkerInv /\ RepeatsOnlyAfterCooldown

(***************************************************************************)
(* The inductive invariant behind LostOnlyByAborts.                        *)
(***************************************************************************)

(* A marker names an incident that was claimed.                            *)
NamedInv ==
  \A a \in Alert : marker[a] # NoMarker => marker[a].incident \in Promised

LostInv == TypeOK /\ NamedInv /\ LostOnlyByAborts
=============================================================================
