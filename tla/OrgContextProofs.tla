-------------------------- MODULE OrgContextProofs --------------------------
(***************************************************************************)
(* Proofs about OrgContext, for any number of tasks, organisations and     *)
(* keys.                                                                   *)
(***************************************************************************)
EXTENDS OrgContextProps, TLAPS

LEMMA AtStartType == AtStart \in Values
  BY DEF AtStart, Values, Owner

LEMMA OverlayType ==
  ASSUME NEW o \in Org, NEW e \in Values
  PROVE  Overlay(o, e) \in Values
  BY DEF Overlay, Values, Owner

(* What a scope saves are values of some of the keys.                      *)
LEMMA SavedType ==
  ASSUME stored \in [Org -> SUBSET Key], NEW o \in Org, NEW e \in Values
  PROVE  Saved(o, e) \in SavedValues
<1>1. CredentialKeys(o, e) \subseteq Key
  BY DEF CredentialKeys
<1>2. Saved(o, e) \in [CredentialKeys(o, e) -> Owner]
  BY <1>1 DEF Saved, Restrict, Values
<1> QED
  BY <1>1, <1>2 DEF SavedValues

LEMMA RestoreType ==
  ASSUME NEW saved \in SavedValues, NEW e \in Values
  PROVE  Restore(saved, e) \in Values
<1>1. PICK keys \in SUBSET Key : saved \in [keys -> Owner]
  BY DEF SavedValues
<1> QED
  BY <1>1 DEF Restore, Values

(* A task that is in a scope has saved the values of one or of two.        *)
DepthOf(t) == IF kind[t] = "none" THEN Len(saves[t]) = 0 ELSE Len(saves[t]) \in {1, 2}
Depth == \A t \in Task : DepthOf(t)

LEMMA DepthStep ==
  ASSUME TypeOK, Depth, NEW t \in Task, NEW s, saves' = [saves EXCEPT ![t] = s],
         \A x \in Task \ {t} : kind'[x] = kind[x],
         IF kind'[t] = "none" THEN Len(s) = 0 ELSE Len(s) \in {1, 2}
  PROVE  Depth'
<1> SUFFICES ASSUME NEW x \in Task PROVE DepthOf(x)'
  BY DEF Depth
<1>1. CASE x = t
  BY <1>1 DEF DepthOf, TypeOK
<1>2. CASE x # t
  <2>1. saves'[x] = saves[x] /\ kind'[x] = kind[x] /\ DepthOf(x)
    BY <1>2 DEF Depth, TypeOK
  <2> QED
    BY <2>1 DEF DepthOf
<1> QED
  BY <1>1, <1>2

LEMMA UnwindType ==
  ASSUME TypeOK, Depth, NEW t \in Task, kind[t] # "none"
  PROVE  Unwind(t, env) \in Values
<1> USE DEF TypeOK
<1>1. saves[t] \in Seq(SavedValues) /\ Len(saves[t]) \in {1, 2}
  BY DEF Depth, DepthOf
<1>2. saves[t][1] \in SavedValues /\ (Len(saves[t]) = 2 => saves[t][2] \in SavedValues)
  BY <1>1
<1>3. CASE Len(saves[t]) = 2
  <2>1. Restore(saves[t][2], env) \in Values
    BY <1>2, <1>3, RestoreType
  <2>2. Restore(saves[t][1], Restore(saves[t][2], env)) \in Values
    BY <1>2, <2>1, RestoreType
  <2> QED
    BY <1>3, <2>2 DEF Unwind
<1>4. CASE Len(saves[t]) # 2
  <2>1. Restore(saves[t][1], env) \in Values
    BY <1>2, RestoreType
  <2> QED
    BY <1>4, <2>1 DEF Unwind
<1> QED
  BY <1>3, <1>4

-----------------------------------------------------------------------------
(* A task works in the name of the organisation it was started for, and so *)
(* do the approvals it asks for.                                           *)
Bound == active = serves

IInv == TypeOK /\ Depth /\ Bound /\ BoundToItsOrg

LEMMA InitIInv == Init => IInv
<1> SUFFICES ASSUME Init PROVE IInv
  OBVIOUS
<1>1. TypeOK
  <2>1. env \in Values /\ clients \in Values /\ gate \in Owner
    BY AtStartType, KeyAssumption DEF Init, Values
  <2>2. saves \in [Task -> Seq(SavedValues)] /\ since \in [Task -> SUBSET Task]
    BY DEF Init
  <2>3. /\ kind \in [Task -> Kind \cup {"none"}]
        /\ active \in [Task -> Org] /\ serves \in [Task -> Org]
    BY OrgAssumption DEF Init
  <2> QED
    BY <2>1, <2>2, <2>3 DEF Init, TypeOK
<1>2. Depth
  BY DEF Init, Depth, DepthOf
<1>3. Bound /\ BoundToItsOrg
  BY DEF Init, Bound, BoundToItsOrg
<1> QED
  BY <1>1, <1>2, <1>3 DEF IInv

LEMMA BecomeType ==
  ASSUME TypeOK, Bound, NEW t \in Task, NEW o \in Org, NEW what \in Kind \cup {"none"},
         Become(t, o, what)
  PROVE  /\ kind' \in [Task -> Kind \cup {"none"}]
         /\ active' \in [Task -> Org] /\ serves' \in [Task -> Org]
         /\ Bound' /\ kind'[t] = what
  BY DEF Become, TypeOK, Bound

(* Entering and leaving scopes changes the environment, never what tasks   *)
(* are.                                                                    *)
LEMMA EnterTwiceType ==
  ASSUME TypeOK, NEW t \in Task, NEW o \in Org, EnterTwice(t, o)
  PROVE  /\ env' \in Values /\ clients' \in Values /\ gate' \in Owner
         /\ since' \in [Task -> SUBSET Task]
         /\ \E s \in Seq(SavedValues) : Len(s) = 2 /\ saves' = [saves EXCEPT ![t] = s]
<1> DEFINE outer == Overlay(o, env)
           s == <<Saved(o, env), Saved(o, outer)>>
<1>1. outer \in Values /\ Overlay(o, outer) \in Values
  BY OverlayType DEF TypeOK
<1>2. s \in Seq(SavedValues) /\ Len(s) = 2
  BY <1>1, SavedType DEF TypeOK
<1>3. env' = Overlay(o, outer) /\ clients' = env' /\ gate' = env'[AutoApply]
  BY DEF EnterTwice
<1>4. gate' \in Owner
  BY <1>1, <1>3, KeyAssumption DEF Values
<1>5. since' \in [Task -> SUBSET Task] /\ saves' = [saves EXCEPT ![t] = s]
  BY DEF EnterTwice, Push, TypeOK
<1> QED
  BY <1>1, <1>2, <1>3, <1>4, <1>5

LEMMA EnterOnceType ==
  ASSUME TypeOK, NEW t \in Task, NEW o \in Org, EnterOnce(t, o)
  PROVE  /\ env' \in Values /\ clients' \in Values /\ gate' \in Owner
         /\ since' \in [Task -> SUBSET Task]
         /\ \E s \in Seq(SavedValues) : Len(s) = 1 /\ saves' = [saves EXCEPT ![t] = s]
<1>1. Overlay(o, env) \in Values
  BY OverlayType DEF TypeOK
<1>2. <<Saved(o, env)>> \in Seq(SavedValues)
  BY SavedType DEF TypeOK
<1>3. since' \in [Task -> SUBSET Task] /\ saves' = [saves EXCEPT ![t] = <<Saved(o, env)>>]
  BY DEF EnterOnce, Push, TypeOK
<1> QED
  BY <1>1, <1>2, <1>3 DEF EnterOnce, TypeOK

LEMMA StepIInv == IInv /\ [Next]_vars => IInv'
<1> SUFFICES ASSUME IInv, [Next]_vars PROVE IInv'
  OBVIOUS
<1> USE DEF IInv
<1>1. ASSUME NEW o \in Org, Configure(o) PROVE IInv'
  <2>1. stored' \in [Org -> SUBSET Key]
    BY <1>1 DEF Configure, TypeOK
  <2>2. UNCHANGED <<role, env, clients, gate, saves, since, kind, active, serves, retained, crossed>>
    BY <1>1 DEF Configure, scopes, run
  <2> QED
    BY <2>1, <2>2 DEF TypeOK, Depth, DepthOf, Bound, BoundToItsOrg
<1>2. ASSUME NEW t \in Task, Start(t) PROVE IInv'
  <2>1. PICK o \in Org, what \in Kind : Become(t, o, what) /\ EnterTwice(t, o)
    BY <1>2 DEF Start, Kind
  <2>2. UNCHANGED <<role, stored, retained, crossed>>
    BY <1>2 DEF Start
  <2>3. PICK s \in Seq(SavedValues) : Len(s) = 2 /\ saves' = [saves EXCEPT ![t] = s]
    BY <2>1, EnterTwiceType
  <2>4. saves' \in [Task -> Seq(SavedValues)]
    BY <2>3 DEF TypeOK
  <2>5. TypeOK'
    BY <2>1, <2>2, <2>4, BecomeType, EnterTwiceType DEF TypeOK
  <2>6. Depth'
    BY <2>1, <2>3, DepthStep DEF Become, TypeOK, Kind
  <2> QED
    BY <2>1, <2>2, <2>5, <2>6, BecomeType DEF BoundToItsOrg
<1>3. ASSUME NEW t \in Task, SlackClick(t) PROVE IInv'
  <2>1. PICK a \in retained : Become(t, a.bound, "approved") /\ EnterOnce(t, a.bound)
    BY <1>3 DEF SlackClick
  <2>2. a.bound \in Org /\ "approved" \in Kind
    BY DEF TypeOK, Kind
  <2>3. UNCHANGED <<role, stored, retained, crossed>>
    BY <1>3 DEF SlackClick
  <2>4. PICK s \in Seq(SavedValues) : Len(s) = 1 /\ saves' = [saves EXCEPT ![t] = s]
    BY <2>1, <2>2, EnterOnceType
  <2>5. saves' \in [Task -> Seq(SavedValues)]
    BY <2>4 DEF TypeOK
  <2>6. TypeOK'
    BY <2>1, <2>2, <2>3, <2>5, BecomeType, EnterOnceType DEF TypeOK
  <2>7. Depth'
    BY <2>1, <2>4, DepthStep DEF Become, TypeOK
  <2> QED
    BY <2>1, <2>2, <2>3, <2>6, <2>7, BecomeType DEF BoundToItsOrg
<1>4. ASSUME NEW t \in Task, AskApproval(t) PROVE IInv'
  <2>1. active[t] = serves[t] /\ serves[t] \in Org
    BY DEF Bound, TypeOK
  <2>2. retained' = retained \cup {[by |-> serves[t], bound |-> active[t]]}
    BY <1>4 DEF AskApproval
  <2>3. UNCHANGED <<role, stored, env, clients, gate, saves, since, kind, active, serves, crossed>>
    BY <1>4 DEF AskApproval, scopes, run
  <2>4. retained' \subseteq [by : Org, bound : Org]
    BY <2>1, <2>2 DEF TypeOK
  <2>5. BoundToItsOrg'
    BY <2>1, <2>2 DEF BoundToItsOrg
  <2> QED
    BY <2>3, <2>4, <2>5 DEF TypeOK, Depth, DepthOf, Bound
<1>5. ASSUME NEW t \in Task, LeaveInner(t) PROVE IInv'
  <2>1. saves[t] \in Seq(SavedValues) /\ Len(saves[t]) = 2
    BY <1>5 DEF LeaveInner, TypeOK
  <2>2. saves[t][1] \in SavedValues /\ saves[t][2] \in SavedValues
    BY <2>1
  <2>3. <<saves[t][1]>> \in Seq(SavedValues) /\ Len(<<saves[t][1]>>) = 1
    BY <2>2
  <2>4. saves' = [saves EXCEPT ![t] = <<saves[t][1]>>]
    BY <1>5 DEF LeaveInner
  <2>5. saves' \in [Task -> Seq(SavedValues)]
    BY <2>3, <2>4 DEF TypeOK
  <2>6. env' \in Values /\ clients' \in Values
    BY <1>5, <2>2, RestoreType DEF LeaveInner, TypeOK
  <2>7. UNCHANGED <<role, stored, gate, since, kind, active, serves, retained>>
    BY <1>5 DEF LeaveInner, run
  <2>8. crossed' \in BOOLEAN
    BY <1>5 DEF LeaveInner, TypeOK
  <2>9. Depth'
    BY <1>5, <2>3, <2>4, <2>7, DepthStep DEF LeaveInner
  <2> QED
    BY <2>5, <2>6, <2>7, <2>8, <2>9 DEF TypeOK, Bound, BoundToItsOrg
<1>6. ASSUME NEW t \in Task, Leave(t) PROVE IInv'
  <2>1. Unwind(t, env) \in Values
    BY <1>6, UnwindType DEF Leave
  <2>2. env' \in Values /\ clients' \in Values
    BY <1>6, <2>1 DEF Leave
  <2>3. Become(t, DefaultOrg, "none") /\ DefaultOrg \in Org
    BY <1>6, OrgAssumption DEF Leave
  <2>4. saves' = [saves EXCEPT ![t] = <<>>]
    BY <1>6 DEF Leave
  <2>5. saves' \in [Task -> Seq(SavedValues)]
    BY <2>4 DEF TypeOK
  <2>6. /\ since' \in [Task -> SUBSET Task] /\ crossed' \in BOOLEAN
        /\ UNCHANGED <<role, stored, gate, retained>>
    BY <1>6 DEF Leave, TypeOK
  <2>7. TypeOK'
    BY <2>2, <2>3, <2>5, <2>6, BecomeType DEF TypeOK
  <2>8. Depth'
    BY <2>3, <2>4, DepthStep DEF Become, TypeOK
  <2> QED
    BY <2>3, <2>6, <2>7, <2>8, BecomeType DEF BoundToItsOrg
<1>7. CASE UNCHANGED vars
  BY <1>7 DEF vars, scopes, run, TypeOK, Depth, DepthOf, Bound, BoundToItsOrg
<1> QED
  BY <1>1, <1>2, <1>3, <1>4, <1>5, <1>6, <1>7 DEF Next

LEMMA Invariant == Spec => []IInv
  BY InitIInv, StepIInv, PTL DEF Spec

(* Every variable keeps its type.                                          *)
THEOREM TypeCorrect == Spec => []TypeOK
<1>1. IInv => TypeOK
  BY DEF IInv
<1> QED
  BY <1>1, Invariant, PTL

(* However many runs share the process, an approval is bound to the        *)
(* organisation whose run asks for it.                                     *)
THEOREM BoundAlways == Spec => []BoundToItsOrg
<1>1. IInv => BoundToItsOrg
  BY DEF IInv
<1> QED
  BY <1>1, Invariant, PTL

-----------------------------------------------------------------------------
(* What Under says after a step, of the tasks that T names before it.      *)
UnderNext(T, k, values) ==
  /\ (\A u \in T : k \notin Keys(u)') => env'[k] \in values
  /\ \A u \in T :
       k \in Keys(u)' /\ (\A v \in T : u \in since'[v] => k \notin Keys(v)')
       => saves'[u][1][k] \in values

(* The facts of a task's entering: what it puts back it has saved.         *)
Entered(t, o, s) ==
  /\ kind[t] = "none" /\ kind'[t] # "none"
  /\ \A x \in Task \ {t} : kind'[x] = kind[x] /\ serves'[x] = serves[x]
  /\ s # <<>> /\ saves' = [saves EXCEPT ![t] = s]
  /\ since' = [x \in Task |-> IF saves[x] # <<>> THEN since[x] \cup {t} ELSE {}]
  /\ serves'[t] = o /\ clients' = env' /\ crossed' = crossed
  /\ \A k \in Key : k \notin DOMAIN s[1] => env'[k] = env[k]
  /\ \A k \in DOMAIN s[1] : s[1][k] = env[k]
  /\ \A k \in Key : env'[k] \in {o, env[k]}
  /\ Len(s) \in {1, 2}
  /\ Len(s) = 2 => /\ DOMAIN s[2] \subseteq DOMAIN s[1]
                   /\ \A k \in DOMAIN s[2] : s[2][k] \in {o, env[k]}

LEMMA SavedFacts ==
  ASSUME TypeOK, NEW o \in Org, NEW e \in Values
  PROVE  /\ DOMAIN Saved(o, e) = CredentialKeys(o, e)
         /\ stored[o] \subseteq CredentialKeys(o, e) /\ CredentialKeys(o, e) \subseteq Key
         /\ \A k \in CredentialKeys(o, e) : Saved(o, e)[k] = e[k]
  BY DEF Saved, Restrict, CredentialKeys, TypeOK, Values

LEMMA OverlayFacts ==
  ASSUME NEW o \in Org, NEW e \in Values
  PROVE  /\ Overlay(o, e) \in Values
         /\ \A k \in Key : Overlay(o, e)[k] = IF k \in stored[o] THEN o ELSE e[k]
  BY OverlayType DEF Overlay

LEMMA EnterTwiceFacts ==
  ASSUME TypeOK, NEW t \in Task, NEW o \in Org, NEW what \in Kind,
         kind[t] = "none", Become(t, o, what), EnterTwice(t, o), crossed' = crossed
  PROVE  \E s : Entered(t, o, s)
<1> DEFINE outer == Overlay(o, env)
           s == <<Saved(o, env), Saved(o, outer)>>
<1>1. env \in Values /\ outer \in Values
  BY OverlayType DEF TypeOK
<1>2. /\ kind'[t] # "none" /\ serves'[t] = o
      /\ \A x \in Task \ {t} : kind'[x] = kind[x] /\ serves'[x] = serves[x]
  BY DEF Become, Kind, TypeOK
<1>3. /\ saves' = [saves EXCEPT ![t] = s] /\ clients' = env' /\ env' = Overlay(o, outer)
      /\ since' = [x \in Task |-> IF saves[x] # <<>> THEN since[x] \cup {t} ELSE {}]
  BY DEF EnterTwice, Push
<1>4. Len(s) = 2 /\ s # <<>> /\ s[1] = Saved(o, env) /\ s[2] = Saved(o, outer)
  OBVIOUS
<1>5. \A k \in Key : outer[k] = IF k \in stored[o] THEN o ELSE env[k]
  BY <1>1, OverlayFacts
<1>6. \A k \in Key : env'[k] = IF k \in stored[o] THEN o ELSE outer[k]
  BY <1>1, <1>3, OverlayFacts
<1>7. CredentialKeys(o, outer) \subseteq CredentialKeys(o, env)
  BY <1>1, <1>5, SavedFacts DEF CredentialKeys
<1>8. /\ DOMAIN s[1] = CredentialKeys(o, env) /\ DOMAIN s[2] = CredentialKeys(o, outer)
      /\ stored[o] \subseteq CredentialKeys(o, env)
      /\ CredentialKeys(o, outer) \subseteq Key
      /\ \A k \in CredentialKeys(o, env) : s[1][k] = env[k]
      /\ \A k \in CredentialKeys(o, outer) : s[2][k] = outer[k]
  BY <1>1, <1>4, SavedFacts
<1>9. /\ \A k \in Key : k \notin DOMAIN s[1] => env'[k] = env[k]
      /\ \A k \in DOMAIN s[1] : s[1][k] = env[k]
      /\ \A k \in Key : env'[k] \in {o, env[k]}
  BY <1>5, <1>6, <1>8
<1>10. /\ DOMAIN s[2] \subseteq DOMAIN s[1]
       /\ \A k \in DOMAIN s[2] : s[2][k] \in {o, env[k]}
  BY <1>5, <1>7, <1>8
<1>11. Entered(t, o, s)
  BY <1>2, <1>3, <1>4, <1>9, <1>10 DEF Entered
<1> QED
  BY <1>11

LEMMA EnterOnceFacts ==
  ASSUME TypeOK, NEW t \in Task, NEW o \in Org, NEW what \in Kind,
         kind[t] = "none", Become(t, o, what), EnterOnce(t, o), crossed' = crossed
  PROVE  \E s : Entered(t, o, s)
<1> DEFINE s == <<Saved(o, env)>>
<1>1. env \in Values
  BY DEF TypeOK
<1>2. /\ kind'[t] # "none" /\ serves'[t] = o
      /\ \A x \in Task \ {t} : kind'[x] = kind[x] /\ serves'[x] = serves[x]
  BY DEF Become, Kind, TypeOK
<1>3. /\ saves' = [saves EXCEPT ![t] = s] /\ clients' = env' /\ env' = Overlay(o, env)
      /\ since' = [x \in Task |-> IF saves[x] # <<>> THEN since[x] \cup {t} ELSE {}]
  BY DEF EnterOnce, Push
<1>4. Len(s) = 1 /\ s # <<>> /\ s[1] = Saved(o, env)
  OBVIOUS
<1>5. \A k \in Key : env'[k] = IF k \in stored[o] THEN o ELSE env[k]
  BY <1>1, <1>3, OverlayFacts
<1>6. /\ DOMAIN s[1] = CredentialKeys(o, env) /\ stored[o] \subseteq CredentialKeys(o, env)
      /\ \A k \in CredentialKeys(o, env) : s[1][k] = env[k]
  BY <1>1, <1>4, SavedFacts
<1>7. /\ \A k \in Key : k \notin DOMAIN s[1] => env'[k] = env[k]
      /\ \A k \in DOMAIN s[1] : s[1][k] = env[k]
      /\ \A k \in Key : env'[k] \in {o, env[k]}
  BY <1>5, <1>6
<1>8. Entered(t, o, s)
  BY <1>2, <1>3, <1>4, <1>7 DEF Entered
<1> QED
  BY <1>8

(* A task that enters lies over all that are in their scopes.              *)
LEMMA EnterUnder ==
  ASSUME TypeOK, NEW t \in Task, NEW o, NEW s, Entered(t, o, s), saves[t] = <<>>,
         NEW T \in SUBSET Task, NEW k \in Key, NEW values, Under(T, k, values)
  PROVE  UnderNext(T \cup {t}, k, values)
<1>1. \A x \in Task \ {t} : saves'[x] = saves[x] /\ Keys(x)' = Keys(x)
  BY DEF Entered, TypeOK, Keys
<1>2. saves'[t] = s /\ Keys(t)' = DOMAIN s[1] /\ Keys(t) = {} /\ since'[t] = {}
  BY DEF Entered, TypeOK, Keys
<1>3. ASSUME \A u \in T \cup {t} : k \notin Keys(u)' PROVE env'[k] \in values
  <2>1. env'[k] = env[k]
    BY <1>2, <1>3 DEF Entered
  <2>2. \A u \in T : k \notin Keys(u)
    BY <1>1, <1>2, <1>3
  <2> QED
    BY <2>1, <2>2 DEF Under
<1>4. ASSUME NEW u \in T \cup {t}, k \in Keys(u)',
             \A v \in T \cup {t} : u \in since'[v] => k \notin Keys(v)'
      PROVE  saves'[u][1][k] \in values
  <2>1. CASE u = t
    <3>1. ASSUME NEW v \in T PROVE k \notin Keys(v)
      <4>1. CASE saves[v] = <<>>
        BY <4>1 DEF Keys
      <4>2. CASE saves[v] # <<>>
        <5>1. v # t /\ t \in since'[v]
          BY <4>2 DEF Entered
        <5> QED
          BY <1>1, <1>4, <2>1, <5>1
      <4> QED
        BY <4>1, <4>2
    <3>2. env[k] \in values
      BY <3>1 DEF Under
    <3> QED
      BY <1>2, <1>4, <2>1, <3>2 DEF Entered
  <2>2. CASE u # t
    <3>1. ASSUME NEW v \in T, u \in since[v] PROVE k \notin Keys(v)
      <4>1. CASE saves[v] = <<>>
        BY <4>1 DEF Keys
      <4>2. CASE saves[v] # <<>>
        <5>1. v # t /\ u \in since'[v]
          BY <3>1, <4>2 DEF Entered
        <5> QED
          BY <1>1, <1>4, <5>1
      <4> QED
        BY <4>1, <4>2
    <3>2. u \in T /\ k \in Keys(u) /\ saves'[u] = saves[u]
      BY <1>1, <1>4, <2>2
    <3> QED
      BY <3>1, <3>2 DEF Under
  <2> QED
    BY <2>1, <2>2
<1> QED
  BY <1>3, <1>4 DEF UnderNext

(* The invariant survives a task's entering.                               *)
LEMMA EnterNest ==
  ASSUME TypeOK, NestInv, NEW t \in Task, NEW o \in Org, NEW s, Entered(t, o, s)
  PROVE  NestInv'
<1>0. saves[t] = <<>> /\ since[t] = {}
  BY DEF NestInv, ScopeInv, Entered
<1>1. \A x \in Task \ {t} : saves'[x] = saves[x] /\ Keys(x)' = Keys(x)
  BY DEF Entered, TypeOK, Keys
<1>2. saves'[t] = s /\ since'[t] = {} /\ kind'[t] # "none"
  BY <1>0 DEF Entered, TypeOK
<1>3. \A x \in Task : IF kind[x] = "none" THEN saves[x] = <<>>
                                         ELSE saves[x] # <<>> /\ Len(saves[x]) \in {1, 2}
  <2>1. ASSUME NEW x \in Task, Len(saves[x]) \in {1, 2} PROVE saves[x] # <<>>
    <3> SUFFICES ASSUME saves[x] = <<>> PROVE FALSE
      OBVIOUS
    <3>1. Len(saves[x]) = 0
      OBVIOUS
    <3> QED
      BY <2>1, <3>1
  <2> QED
    BY <2>1 DEF NestInv, ScopeInv
<1>4. \A x \in Task \ {t} : since'[x] = IF kind[x] = "none" THEN {} ELSE since[x] \cup {t}
  BY <1>3 DEF Entered
<1>5. ScopeInv'
  <2>1. \A x \in Task :
          /\ IF kind'[x] = "none" THEN saves'[x] = <<>> /\ since'[x] = {}
                                  ELSE Len(saves'[x]) \in {1, 2}
          /\ Len(saves'[x]) = 2 => DOMAIN saves'[x][2] \subseteq DOMAIN saves'[x][1]
    BY <1>1, <1>2, <1>3, <1>4 DEF Entered, NestInv, ScopeInv
  <2>2. ASSUME NEW x \in Task, NEW y \in Task, kind'[x] # "none", kind'[y] # "none", x # y
        PROVE  x \in since'[y] \/ y \in since'[x]
    <3>1. CASE x = t
      BY <1>4, <2>2, <3>1 DEF Entered
    <3>2. CASE y = t
      BY <1>4, <2>2, <3>2 DEF Entered
    <3>3. CASE x # t /\ y # t
      <4>1. kind[x] # "none" /\ kind[y] # "none"
        BY <2>2, <3>3 DEF Entered
      <4>2. x \in since[y] \/ y \in since[x]
        BY <2>2, <4>1 DEF NestInv, ScopeInv
      <4> QED
        BY <1>4, <3>3, <4>1, <4>2
    <3> QED
      BY <3>1, <3>2, <3>3
  <2> QED
    BY <2>1, <2>2 DEF ScopeInv, Entered
<1>6. ASSUME ~crossed PROVE RestInv'
  <2>1. RestInv
    BY <1>6 DEF NestInv
  <2>2. ASSUME NEW k \in Key PROVE Under(Task, k, {AtStart[k]})'
    <3>1. UnderNext(Task \cup {t}, k, {AtStart[k]})
      BY <1>0, <2>1, EnterUnder DEF RestInv
    <3>2. Task \cup {t} = Task
      OBVIOUS
    <3>3. UnderNext(Task, k, {AtStart[k]})
      BY <3>1, <3>2
    <3> QED
      BY <3>3 DEF UnderNext, Under, AtStart
  <2> QED
    BY <2>2 DEF RestInv
<1>7. ASSUME ~crossed PROVE OwnInv'
  <2>0. RestInv /\ OwnInv
    BY <1>7 DEF NestInv
  <2>1. ASSUME NEW x \in Task, First(x)', NEW k \in Key
        PROVE  /\ UnderNext(since'[x], k, Own(x)')
               /\ Len(saves'[x]) = 2 /\ k \in DOMAIN saves'[x][2]
                  => saves'[x][2][k] \in Own(x)'
    <3>1. CASE x = t
      <4>1. \A y \in Task \ {t} : kind[y] = "none"
        BY <1>4, <2>1, <3>1 DEF First
      <4>2. \A y \in Task : Keys(y) = {}
        BY <1>0, <1>3, <4>1 DEF Keys
      <4>3. env[k] = AtStart[k]
        BY <2>0, <4>2 DEF RestInv, Under
      <4>4. AtStart[k] \in {Server, Unset} /\ Own(t)' = {o, Server, Unset}
        BY DEF AtStart, Own, Entered
      <4>5. env'[k] \in Own(t)'
        BY <4>3, <4>4 DEF Entered
      <4>6. UnderNext({}, k, Own(t)')
        BY <4>5 DEF UnderNext
      <4>7. Len(s) = 2 /\ k \in DOMAIN s[2] => s[2][k] \in Own(t)'
        BY <4>3, <4>4 DEF Entered
      <4> QED
        BY <1>2, <3>1, <4>6, <4>7
    <3>2. CASE x # t
      <4>1. kind[x] # "none" /\ Own(x)' = Own(x)
        BY <2>1, <3>2 DEF First, Entered, Own
      <4>2. ASSUME NEW y \in Task PROVE x \notin since[y]
        <5>1. CASE kind[y] = "none"
          BY <5>1 DEF NestInv, ScopeInv
        <5>2. CASE kind[y] # "none"
          BY <1>4, <2>1, <5>2 DEF First, Entered
        <5> QED
          BY <5>1, <5>2
      <4>3. First(x)
        BY <4>1, <4>2 DEF First
      <4>4. Under(since[x], k, Own(x)) /\ since[x] \in SUBSET Task
        BY <2>0, <4>3 DEF OwnInv, TypeOK
      <4>5. UnderNext(since[x] \cup {t}, k, Own(x))
        BY <1>0, <4>4, EnterUnder
      <4>6. since'[x] = since[x] \cup {t}
        BY <1>4, <3>2, <4>1
      <4>7. UnderNext(since'[x], k, Own(x)')
        BY <4>1, <4>5, <4>6
      <4>8. Len(saves[x]) = 2 /\ k \in DOMAIN saves[x][2] => saves[x][2][k] \in Own(x)
        BY <2>0, <4>3 DEF OwnInv
      <4> QED
        BY <1>1, <3>2, <4>1, <4>7, <4>8
    <3> QED
      BY <3>1, <3>2
  <2> QED
    BY <2>1 DEF OwnInv, UnderNext, Under
<1> QED
  BY <1>5, <1>6, <1>7 DEF NestInv, Entered

-----------------------------------------------------------------------------
(* What a task puts back when it leaves, whether or not it has left its    *)
(* inner scope.                                                            *)
LEMMA UnwindFacts ==
  ASSUME TypeOK, ScopeInv, NEW t \in Task, kind[t] # "none", NEW k \in Key
  PROVE  Unwind(t, env)[k] = IF k \in Keys(t) THEN saves[t][1][k] ELSE env[k]
<1>1. Keys(t) = DOMAIN saves[t][1]
  <2>1. Len(saves[t]) \in {1, 2} /\ Len(<<>>) = 0
    BY DEF ScopeInv
  <2> QED
    BY <2>1 DEF Keys
<1>2. CASE Len(saves[t]) = 2
  <2>1. DOMAIN saves[t][2] \subseteq DOMAIN saves[t][1]
    BY <1>2 DEF ScopeInv
  <2>2. Restore(saves[t][2], env)[k] =
          IF k \in DOMAIN saves[t][2] THEN saves[t][2][k] ELSE env[k]
    BY DEF Restore
  <2>3. Unwind(t, env)[k] =
          IF k \in DOMAIN saves[t][1] THEN saves[t][1][k] ELSE Restore(saves[t][2], env)[k]
    BY <1>2 DEF Unwind, Restore
  <2> QED
    BY <1>1, <2>1, <2>2, <2>3
<1>3. CASE Len(saves[t]) # 2
  BY <1>1, <1>3 DEF Unwind, Restore
<1> QED
  BY <1>2, <1>3

(* The facts of the last task's leaving, its inner scope or altogether.    *)
LeftInner(t) ==
  /\ kind[t] # "none" /\ since[t] = {} /\ Len(saves[t]) = 2
  /\ saves' = [saves EXCEPT ![t] = <<saves[t][1]>>]
  /\ UNCHANGED <<kind, since, serves>>
  /\ \A k \in Key : env'[k] = IF k \in DOMAIN saves[t][2] THEN saves[t][2][k] ELSE env[k]

Left(t) ==
  /\ kind[t] # "none" /\ since[t] = {} /\ kind'[t] = "none"
  /\ saves' = [saves EXCEPT ![t] = <<>>]
  /\ since' = [x \in Task |-> IF x = t THEN {} ELSE since[x] \ {t}]
  /\ \A x \in Task \ {t} : kind'[x] = kind[x] /\ serves'[x] = serves[x]
  /\ \A k \in Key : env'[k] = IF k \in Keys(t) THEN saves[t][1][k] ELSE env[k]

(* Leaving the inner scope of the last task uncovers nothing.              *)
LEMMA LeftInnerUnder ==
  ASSUME TypeOK, ScopeInv, NEW t \in Task, LeftInner(t),
         NEW T \in SUBSET Task, t \in T, NEW k \in Key, NEW values, Under(T, k, values)
  PROVE  UnderNext(T, k, values)
<1>1. Keys(t) = DOMAIN saves[t][1]
  <2>1. Len(saves[t]) = 2 /\ Len(<<>>) = 0
    BY DEF LeftInner
  <2> QED
    BY <2>1 DEF Keys
<1>2. saves'[t] = <<saves[t][1]>> /\ <<saves[t][1]>> # <<>> /\ saves'[t][1] = saves[t][1]
  BY DEF LeftInner, TypeOK
<1>3. \A x \in Task : Keys(x)' = Keys(x) /\ (Keys(x) # {} => saves'[x][1] = saves[x][1])
  <2>1. Keys(t)' = Keys(t)
    BY <1>1, <1>2 DEF Keys
  <2>2. \A x \in Task \ {t} : saves'[x] = saves[x]
    BY DEF LeftInner, TypeOK
  <2> QED
    BY <1>2, <2>1, <2>2 DEF Keys
<1>4. k \notin Keys(t) => env'[k] = env[k]
  BY <1>1 DEF LeftInner, ScopeInv
<1> QED
  BY <1>3, <1>4 DEF UnderNext, Under, LeftInner

(* When the last task leaves, its keys are what lies under it.             *)
LEMMA LeftUnder ==
  ASSUME TypeOK, NEW t \in Task, Left(t),
         NEW T \in SUBSET Task, t \in T, NEW k \in Key, NEW values, Under(T, k, values),
         NEW S, T \ {t} \subseteq S, S \subseteq T
  PROVE  UnderNext(S, k, values)
<1>1. \A x \in Task \ {t} : /\ saves'[x] = saves[x] /\ Keys(x)' = Keys(x)
                           /\ since'[x] = since[x] \ {t}
  BY DEF Left, TypeOK, Keys
<1>2. saves'[t] = <<>> /\ Keys(t)' = {} /\ since[t] = {} /\ since'[t] = {}
  BY DEF Left, TypeOK, Keys
<1>3. ASSUME \A u \in S : k \notin Keys(u)' PROVE env'[k] \in values
  <2>1. \A u \in T \ {t} : k \notin Keys(u)
    BY <1>1, <1>3
  <2>2. CASE k \in Keys(t)
    <3>1. \A v \in T : t \in since[v] => k \notin Keys(v)
      BY <1>2, <2>1
    <3>2. saves[t][1][k] \in values
      BY <2>2, <3>1 DEF Under
    <3> QED
      BY <2>2, <3>2 DEF Left
  <2>3. CASE k \notin Keys(t)
    BY <2>1, <2>3 DEF Left, Under
  <2> QED
    BY <2>2, <2>3
<1>4. ASSUME NEW u \in S, k \in Keys(u)', \A v \in S : u \in since'[v] => k \notin Keys(v)'
      PROVE  saves'[u][1][k] \in values
  <2>1. u # t /\ u \in T
    BY <1>2, <1>4
  <2>2. \A v \in T : u \in since[v] => k \notin Keys(v)
    BY <1>1, <1>2, <1>4, <2>1
  <2> QED
    BY <1>1, <1>4, <2>1, <2>2 DEF Under
<1> QED
  BY <1>3, <1>4 DEF UnderNext

(* A task that was in a scope before the last is under it.                 *)
LEMMA LastIsOver ==
  ASSUME ScopeInv, NEW t \in Task, NEW x \in Task, x # t,
         kind[t] # "none", kind[x] # "none", since[t] = {}
  PROVE  t \in since[x]
  BY DEF ScopeInv

LEMMA LeftInnerNest ==
  ASSUME TypeOK, NestInv, ~crossed, NEW t \in Task, LeftInner(t)
  PROVE  RestInv' /\ OwnInv'
<1>0. ScopeInv /\ RestInv /\ OwnInv
  BY DEF NestInv
<1>1. ASSUME NEW k \in Key PROVE Under(Task, k, {AtStart[k]})'
  <2>1. UnderNext(Task, k, {AtStart[k]})
    BY <1>0, LeftInnerUnder DEF RestInv
  <2> QED
    BY <2>1 DEF UnderNext, Under, AtStart
<1>2. ASSUME NEW x \in Task, First(x)', NEW k \in Key
      PROVE  /\ UnderNext(since'[x], k, Own(x)')
             /\ Len(saves'[x]) = 2 /\ k \in DOMAIN saves'[x][2]
                => saves'[x][2][k] \in Own(x)'
  <2>1. First(x) /\ since'[x] = since[x] /\ Own(x)' = Own(x) /\ since[x] \in SUBSET Task
    BY <1>2 DEF First, Own, LeftInner, TypeOK
  <2>2. /\ Under(since[x], k, Own(x))
        /\ Len(saves[x]) = 2 /\ k \in DOMAIN saves[x][2] => saves[x][2][k] \in Own(x)
    BY <1>0, <2>1 DEF OwnInv
  <2>3. CASE x = t
    <3>1. since[x] = {}
      BY <2>3 DEF LeftInner
    <3>2. env'[k] \in Own(x)
      BY <2>2, <2>3, <3>1 DEF Under, LeftInner
    <3>3. Len(saves'[x]) = 1
      BY <2>3 DEF LeftInner, TypeOK
    <3> QED
      BY <2>1, <3>1, <3>2, <3>3 DEF UnderNext
  <2>4. CASE x # t
    <3>1. t \in since[x]
      BY <1>0, <2>1, <2>4, LastIsOver DEF First, LeftInner
    <3>2. UnderNext(since[x], k, Own(x))
      BY <1>0, <2>1, <2>2, <3>1, LeftInnerUnder
    <3>3. saves'[x] = saves[x]
      BY <2>4 DEF LeftInner, TypeOK
    <3> QED
      BY <2>1, <2>2, <3>2, <3>3
  <2> QED
    BY <2>3, <2>4
<1> QED
  BY <1>1, <1>2 DEF RestInv, OwnInv, UnderNext, Under

LEMMA LeftNest ==
  ASSUME TypeOK, NestInv, ~crossed, NEW t \in Task, Left(t)
  PROVE  RestInv' /\ OwnInv'
<1>0. ScopeInv /\ RestInv /\ OwnInv
  BY DEF NestInv
<1>1. ASSUME NEW k \in Key PROVE Under(Task, k, {AtStart[k]})'
  <2>1. UnderNext(Task, k, {AtStart[k]})
    BY <1>0, LeftUnder DEF RestInv
  <2> QED
    BY <2>1 DEF UnderNext, Under, AtStart
<1>2. ASSUME NEW x \in Task, First(x)', NEW k \in Key
      PROVE  /\ UnderNext(since'[x], k, Own(x)')
             /\ Len(saves'[x]) = 2 /\ k \in DOMAIN saves'[x][2]
                => saves'[x][2][k] \in Own(x)'
  <2>1. x # t /\ kind[x] # "none" /\ Own(x)' = Own(x)
    BY <1>2 DEF First, Own, Left
  <2>2. /\ saves'[x] = saves[x] /\ since'[x] = since[x] \ {t}
        /\ since[x] \in SUBSET Task
    BY <2>1 DEF Left, TypeOK
  <2>3. ASSUME NEW y \in Task PROVE x \notin since[y]
    <3>1. CASE y = t
      BY <3>1 DEF Left
    <3>2. CASE y # t
      BY <1>2, <2>1, <3>2 DEF First, Left
    <3> QED
      BY <3>1, <3>2
  <2>4. First(x)
    BY <2>1, <2>3 DEF First
  <2>5. /\ Under(since[x], k, Own(x))
        /\ Len(saves[x]) = 2 /\ k \in DOMAIN saves[x][2] => saves[x][2][k] \in Own(x)
    BY <1>0, <2>4 DEF OwnInv
  <2>6. t \in since[x]
    BY <1>0, <2>1, LastIsOver DEF Left
  <2>7. UnderNext(since'[x], k, Own(x))
    BY <2>2, <2>5, <2>6, LeftUnder
  <2> QED
    BY <2>1, <2>2, <2>5, <2>7
<1> QED
  BY <1>1, <1>2 DEF RestInv, OwnInv, UnderNext, Under

(* Leaving, in whatever order, keeps the tasks in scopes ordered.          *)
LEMMA LeaveScopes ==
  ASSUME TypeOK, ScopeInv, NEW t \in Task, LeaveInner(t) \/ Leave(t)
  PROVE  ScopeInv'
<1>1. CASE LeaveInner(t)
  <2>1. /\ clients' = env' /\ Len(saves'[t]) = 1 /\ kind[t] # "none"
        /\ UNCHANGED <<kind, since>> /\ \A x \in Task \ {t} : saves'[x] = saves[x]
    BY <1>1 DEF LeaveInner, run, TypeOK
  <2> QED
    BY <2>1 DEF ScopeInv
<1>2. CASE Leave(t)
  <2>1. /\ clients' = env' /\ saves'[t] = <<>> /\ kind'[t] = "none" /\ since'[t] = {}
        /\ \A x \in Task \ {t} : /\ saves'[x] = saves[x] /\ kind'[x] = kind[x]
                                 /\ since'[x] = since[x] \ {t}
    BY <1>2 DEF Leave, Become, TypeOK
  <2>2. Len(<<>>) = 0
    OBVIOUS
  <2> QED
    BY <2>1, <2>2 DEF ScopeInv
<1> QED
  BY <1>1, <1>2

(* The invariant holds initially.                                          *)
LEMMA InitNest == Init => NestInv
<1> SUFFICES ASSUME Init PROVE NestInv
  OBVIOUS
<1>1. Len(<<>>) = 0
  OBVIOUS
<1>2. ScopeInv
  BY <1>1 DEF Init, ScopeInv
<1>3. RestInv
  <2>1. \A t \in Task : Keys(t) = {}
    BY DEF Init, Keys
  <2> QED
    BY <2>1 DEF Init, RestInv, Under
<1>4. OwnInv
  BY DEF Init, OwnInv, First
<1> QED
  BY <1>2, <1>3, <1>4 DEF NestInv

(* No step breaks the invariant.                                           *)
LEMMA StepNest ==
  ASSUME IInv, NestInv, [Next]_vars
  PROVE  NestInv'
<1>0. TypeOK
  BY DEF IInv
<1>s. ASSUME UNCHANGED <<env, clients, saves, since, kind, serves, crossed>> PROVE NestInv'
  BY <1>s DEF NestInv, ScopeInv, RestInv, OwnInv, First, Own, Under, Keys, AtStart
<1>1. ASSUME NEW o \in Org, Configure(o) PROVE NestInv'
  BY <1>s, <1>1 DEF Configure, scopes, run
<1>2. ASSUME NEW t \in Task, Start(t) PROVE NestInv'
  <2>1. PICK o \in Org, what \in Kind : Become(t, o, what) /\ EnterTwice(t, o)
    BY <1>2 DEF Start, Kind
  <2>2. \E s : Entered(t, o, s)
    BY <1>0, <1>2, <2>1, EnterTwiceFacts DEF Start
  <2> QED
    BY <1>0, <2>2, EnterNest
<1>3. ASSUME NEW t \in Task, SlackClick(t) PROVE NestInv'
  <2>1. PICK a \in retained : Become(t, a.bound, "approved") /\ EnterOnce(t, a.bound)
    BY <1>3 DEF SlackClick
  <2>2. a.bound \in Org /\ "approved" \in Kind
    BY <1>0 DEF TypeOK, Kind
  <2>3. \E s : Entered(t, a.bound, s)
    BY <1>0, <1>3, <2>1, <2>2, EnterOnceFacts DEF SlackClick
  <2> QED
    BY <1>0, <2>2, <2>3, EnterNest
<1>4. ASSUME NEW t \in Task, AskApproval(t) PROVE NestInv'
  BY <1>s, <1>4 DEF AskApproval, scopes, run
<1>5. ASSUME NEW t \in Task, LeaveInner(t) PROVE NestInv'
  <2>1. ScopeInv'
    BY <1>0, <1>5, LeaveScopes DEF NestInv
  <2>2. ASSUME ~crossed' PROVE RestInv' /\ OwnInv'
    <3>1. ~crossed /\ since[t] = {}
      BY <1>5, <2>2 DEF LeaveInner
    <3>2. LeftInner(t)
      BY <1>0, <1>5, <3>1 DEF LeaveInner, LeftInner, Restore, run, TypeOK
    <3> QED
      BY <1>0, <3>1, <3>2, LeftInnerNest
  <2> QED
    BY <2>1, <2>2 DEF NestInv
<1>6. ASSUME NEW t \in Task, Leave(t) PROVE NestInv'
  <2>1. ScopeInv'
    BY <1>0, <1>6, LeaveScopes DEF NestInv
  <2>2. ASSUME ~crossed' PROVE RestInv' /\ OwnInv'
    <3>1. ~crossed /\ since[t] = {} /\ kind[t] # "none"
      BY <1>6, <2>2 DEF Leave
    <3>2. \A k \in Key : env'[k] = IF k \in Keys(t) THEN saves[t][1][k] ELSE env[k]
      BY <1>0, <1>6, <3>1, UnwindFacts DEF Leave, NestInv
    <3>3. Left(t)
      BY <1>0, <1>6, <3>1, <3>2 DEF Leave, Left, Become, TypeOK
    <3> QED
      BY <1>0, <3>1, <3>3, LeftNest
  <2> QED
    BY <2>1, <2>2 DEF NestInv
<1>7. CASE UNCHANGED vars
  BY <1>s, <1>7 DEF vars, scopes, run
<1> QED
  BY <1>1, <1>2, <1>3, <1>4, <1>5, <1>6, <1>7 DEF Next

(* The invariant is strong enough.                                         *)
LEMMA NestSuffices ==
  ASSUME TypeOK, NestInv
  PROVE  SharedOnlyByOverlap
<1> SUFFICES ASSUME ~crossed PROVE RestoredWhenIdle /\ OwnWhenAlone
  BY DEF SharedOnlyByOverlap
<1>0. ScopeInv /\ RestInv /\ OwnInv
  BY DEF NestInv
<1>1. ASSUME Idle PROVE env = AtStart /\ \A o \in Org : ApproversOf(o) \in {o, Server, Unset}
  <2>1. \A t \in Task : Keys(t) = {}
    BY <1>0, <1>1 DEF Idle, ScopeInv, Keys
  <2>2. \A k \in Key : env[k] = AtStart[k]
    BY <1>0, <2>1 DEF RestInv, Under
  <2>3. env = AtStart
    BY <2>2, AtStartType DEF TypeOK, Values
  <2>4. \A o \in Org : ApproversOf(o) \in {o, Server, Unset}
    BY <2>3, KeyAssumption DEF ApproversOf, Overlay, AtStart
  <2> QED
    BY <2>3, <2>4
<1>2. ASSUME ~Overlap, NEW t \in Task, kind[t] # "none", NEW k \in Key
      PROVE  clients[k] \in {serves[t], Server, Unset}
  <2>1. First(t) /\ since[t] = {}
    BY <1>2 DEF Overlap, First, TypeOK
  <2>2. env[k] \in Own(t)
    BY <1>0, <2>1 DEF OwnInv, Under
  <2> QED
    BY <1>0, <2>2 DEF ScopeInv, Own
<1> QED
  BY <1>1, <1>2 DEF RestoredWhenIdle, OwnWhenAlone

(* As long as scopes nest, the environment is the server's own again once  *)
(* all are left, and a run that is alone is served by its own clients.     *)
THEOREM SharedOnlyByOverlapAlways == Spec => []SharedOnlyByOverlap
<1>1. IInv /\ NestInv /\ [Next]_vars => IInv' /\ NestInv'
  BY StepIInv, StepNest
<1>2. Init => IInv /\ NestInv
  BY InitIInv, InitNest
<1>3. IInv /\ NestInv => SharedOnlyByOverlap
  BY NestSuffices DEF IInv
<1> QED
  BY <1>1, <1>2, <1>3, PTL DEF Spec
=============================================================================
