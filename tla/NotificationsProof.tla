------------------------- MODULE NotificationsProof -------------------------
(***************************************************************************)
(* What the founder is shown agrees with what was answered and with what   *)
(* there is: the notifications, for any number of operations, heartbeats,  *)
(* acknowledgements and crashes, and the context graph and readiness, for  *)
(* any objects, outages and changes.  The two keep no state in common.     *)
(*                                                                         *)
(* Notifications: a heartbeat that is being written has a number above all *)
(* others, so it is the latest the moment its file can be read and nothing *)
(* is before; the acknowledgements answered are those of the file except   *)
(* while it is empty, when the handler has them in memory.                 *)
(*                                                                         *)
(* The context graph: each edge comes down to a condition on the fields of *)
(* the two objects, mostly a capability they share, that does not change   *)
(* when the two are swapped.                                               *)
(*                                                                         *)
(* The impact analysis: the walk is compared with the rings around the     *)
(* source, of which each is what one relation more reaches.  After every   *)
(* level, what is listed is the ring of that depth and the frontier is     *)
(* what the next ring adds, and what was visited is what is listed below   *)
(* the first level.  The inherited risk and the rings are defined by       *)
(* recursion: that they exist is proved first, as iterations do.           *)
(***************************************************************************)
EXTENDS Notifications, ExecutiveView, IdSequenceProof, FiniteSetTheorems

\* The heartbeat in hand is of an operation, above all heartbeats there are.
WritingInv ==
    h.at = "beat" => /\ h.beat \in BeatIds
                     /\ h.rec.file = "saved" /\ h.rec.op \in Ops
                     /\ beat[h.beat].file = "torn"
                     /\ \A b \in BeatIds : beat[b].file # "absent" => b <= h.beat

\* The heartbeat answered last is the one with the highest number that loads.
TellsInv ==
    \A o \in Ops :
        /\ BeatsOf(o) = {} => told[o] = "nothing"
        /\ \A b \in BeatsOf(o) :
              (\A c \in BeatsOf(o) : c <= b) => told[o] = beat[b].status

\* What was acknowledged is in the file, or in the hands of the handler.
GivenInv ==
    IF h.at = "ack"
    THEN acks.file = "torn" /\ h.ids = given \cup {h.subject} /\ h.subject \in Subjects
    ELSE given = AckedIds

Inv == TypeOK /\ WritingInv /\ TellsInv /\ GivenInv

USE NotificationsAssumption

-----------------------------------------------------------------------------
LEMMA IdleType == Idle \in Handler /\ NoBeat \in Beat
<1>1. NoBeat \in Beat
  BY DEF NoBeat, Beat, BeatStatuses, Ages
<1> QED BY <1>1 DEF Idle, Handler, OpStatuses, Active

\* The number of a new heartbeat is above those of all files, torn ones too.
LEMMA NextBeatIsNew ==
    ASSUME TypeOK
    PROVE  \A b \in BeatIds : beat[b].file # "absent" => b < NextBeat
<1> DEFINE S == {b \in BeatIds : beat[b].file # "absent"}
<1>1. S \subseteq Nat
  BY DEF BeatIds
<1>2. Bounded(S)
  <2>1. \A n \in S : n <= MaxBeats
    BY DEF BeatIds
  <2> QED BY <2>1 DEF Bounded
<1>3. \A n \in S : n < NextFileId(S)
  BY <1>1, <1>2, NextFileIdIsNew
<1> QED BY <1>3 DEF NextBeat

\* While the heartbeat files are as they were, so is what they tell.
LEMMA TellsKept ==
    ASSUME TellsInv, UNCHANGED <<beat, told>> PROVE TellsInv'
BY DEF TellsInv, BeatsOf

LEMMA InitInv == Init => Inv
<1> SUFFICES ASSUME Init PROVE Inv
  OBVIOUS
<1> USE DEF Init
<1>1. TypeOK
  BY IdleType DEF TypeOK, Ages
<1>2. WritingInv /\ GivenInv
  BY DEF WritingInv, GivenInv, AckedIds, Idle
<1>3. TellsInv
  BY DEF TellsInv, BeatsOf, NoBeat
<1> QED BY <1>1, <1>2, <1>3 DEF Inv

-----------------------------------------------------------------------------
(* One lemma for each action *)

LEMMA SaveOperationKeeps ==
    ASSUME Inv, NEW o \in Ops, SaveOperation(o) PROVE Inv'
<1> USE DEF Inv, SaveOperation
<1>1. PICK s \in OpStatuses : h' = [Idle EXCEPT !.at = "op", !.op = o, !.status = s]
  OBVIOUS
<1>2. h' \in Handler /\ h'.at = "op"
  BY <1>1, IdleType DEF Idle, Handler
<1>3. TypeOK'
  BY <1>2 DEF TypeOK, Ages
<1>4. WritingInv' /\ GivenInv'
  BY <1>2 DEF WritingInv, GivenInv, AckedIds
<1> QED BY <1>3, <1>4, TellsKept

LEMMA FinishOperationKeeps ==
    ASSUME Inv, FinishOperation PROVE Inv'
<1> USE DEF Inv, FinishOperation
<1>1. h.status \in OpStatuses
  BY DEF TypeOK, Handler
<1>2. TypeOK'
  BY <1>1, IdleType DEF TypeOK
<1>3. WritingInv' /\ GivenInv'
  BY DEF WritingInv, GivenInv, AckedIds, Idle
<1> QED BY <1>2, <1>3, TellsKept

LEMMA CreateHeartbeatKeeps ==
    ASSUME Inv, NEW o \in Ops, CreateHeartbeat(o) PROVE Inv'
<1> USE DEF Inv
<1> DEFINE n == NextBeat
<1>1. PICK s \in Accepted :
         h' = [Idle EXCEPT !.at = "beat", !.beat = n,
                  !.rec = [file |-> "saved", op |-> o, status |-> s, age |-> 0]]
  BY DEF CreateHeartbeat
<1>2. /\ n \in BeatIds /\ h.at = "idle"
      /\ beat' = [beat EXCEPT ![n].file = "torn"]
      /\ UNCHANGED <<op, age, acks, review, told, given, crashes>>
  BY DEF CreateHeartbeat
<1>3. [file |-> "saved", op |-> o, status |-> s, age |-> 0] \in Beat
  BY DEF Beat, Ages, Accepted
<1>4. h' \in Handler /\ h'.at = "beat" /\ h'.beat = n
         /\ h'.rec = [file |-> "saved", op |-> o, status |-> s, age |-> 0]
  BY <1>1, <1>2, <1>3, IdleType DEF Idle, Handler
<1>5. \A b \in BeatIds : beat[b].file # "absent" => b < n
  BY NextBeatIsNew
<1>6. beat[n].file = "absent"
  BY <1>2, <1>5 DEF BeatIds
<1>7. beat' \in [BeatIds -> Beat]
  BY <1>2 DEF TypeOK, Beat
<1>8. TypeOK'
  BY <1>2, <1>4, <1>7 DEF TypeOK
<1>9. \A b \in BeatIds : beat'[b] = IF b = n THEN [beat[n] EXCEPT !.file = "torn"] ELSE beat[b]
  BY <1>2 DEF TypeOK
<1>10. beat'[n].file = "torn"
  BY <1>2, <1>9 DEF TypeOK, Beat
<1>11. WritingInv'
  <2>1. \A b \in BeatIds : beat'[b].file # "absent" => b <= n
    BY <1>2, <1>5, <1>9 DEF BeatIds
  <2> QED BY <1>2, <1>4, <1>10, <2>1 DEF WritingInv
<1>12. \A p \in Ops : BeatsOf(p)' = BeatsOf(p)
  BY <1>6, <1>9, <1>10 DEF BeatsOf
<1>13. TellsInv'
  <2>1. \A p \in Ops : \A b \in BeatsOf(p) : beat'[b].status = beat[b].status
    BY <1>6, <1>9 DEF BeatsOf
  <2> QED BY <1>2, <1>12, <2>1 DEF TellsInv
<1>14. GivenInv'
  BY <1>2, <1>4 DEF GivenInv, AckedIds
<1> QED BY <1>8, <1>11, <1>13, <1>14

LEMMA FinishHeartbeatKeeps ==
    ASSUME Inv, FinishHeartbeat PROVE Inv'
<1> USE DEF Inv
<1>0. h.at = "beat" /\ h.beat \in BeatIds /\ h.rec.op \in Ops
  BY DEF FinishHeartbeat, WritingInv
<1> PICK n \in BeatIds, o \in Ops : n = h.beat /\ o = h.rec.op
  BY <1>0
<1>1. /\ h.at = "beat"
      /\ beat' = [beat EXCEPT ![n] = h.rec]
      /\ told' = [told EXCEPT ![o] = h.rec.status]
      /\ h' = Idle
      /\ UNCHANGED <<op, age, acks, review, given, crashes>>
  BY DEF FinishHeartbeat
<1>2. /\ n \in BeatIds /\ h.rec \in Beat /\ h.rec.file = "saved" /\ o \in Ops
      /\ beat[n].file = "torn"
      /\ \A b \in BeatIds : beat[b].file # "absent" => b <= n
  BY <1>1 DEF WritingInv, TypeOK, Handler
<1>3. TypeOK'
  <2>1. beat' \in [BeatIds -> Beat]
    BY <1>1, <1>2 DEF TypeOK
  <2>2. told' \in [Ops -> BeatStatuses \cup {"nothing"}]
    BY <1>1, <1>2 DEF TypeOK, Beat
  <2> QED BY <1>1, <2>1, <2>2, IdleType DEF TypeOK
<1>4. WritingInv' /\ GivenInv'
  BY <1>1 DEF WritingInv, GivenInv, AckedIds, Idle
<1>5. \A b \in BeatIds : beat'[b] = IF b = n THEN h.rec ELSE beat[b]
  BY <1>1 DEF TypeOK
<1>6. ASSUME NEW p \in Ops, p # o
      PROVE  BeatsOf(p)' = BeatsOf(p) /\ told'[p] = told[p]
  BY <1>1, <1>2, <1>5, <1>6 DEF BeatsOf, TypeOK
<1>7. BeatsOf(o)' = BeatsOf(o) \cup {n}
  BY <1>2, <1>5 DEF BeatsOf
<1>8. told'[o] = h.rec.status
  BY <1>1, <1>2 DEF TypeOK
<1>9. TellsInv'
  <2> SUFFICES ASSUME NEW p \in Ops
               PROVE  /\ BeatsOf(p)' = {} => told'[p] = "nothing"
                      /\ \A b \in BeatsOf(p)' :
                            (\A c \in BeatsOf(p)' : c <= b) => told'[p] = beat'[b].status
    BY DEF TellsInv
  <2>1. CASE p # o
    <3>1. \A b \in BeatsOf(p) : beat'[b] = beat[b]
      BY <1>2, <1>5 DEF BeatsOf
    <3> QED BY <1>6, <2>1, <3>1 DEF TellsInv
  <2>2. CASE p = o
    <3>1. ASSUME NEW b \in BeatsOf(o)', \A c \in BeatsOf(o)' : c <= b
          PROVE  b = n
      <4>1. n <= b
        BY <1>7, <3>1
      <4>2. b \in BeatIds /\ (b # n => beat[b].file # "absent")
        BY <1>2, <1>7, <3>1 DEF BeatsOf
      <4>3. b <= n
        BY <1>2, <4>2 DEF BeatIds
      <4> QED BY <1>2, <4>1, <4>2, <4>3 DEF BeatIds
    <3>2. beat'[n].status = h.rec.status
      BY <1>2, <1>5
    <3> QED BY <1>7, <1>8, <2>2, <3>1, <3>2
  <2> QED BY <2>1, <2>2
<1> QED BY <1>3, <1>4, <1>9

LEMMA AcknowledgeKeeps ==
    ASSUME Inv, NEW s \in Subjects, Acknowledge(s) PROVE Inv'
<1> USE DEF Inv, Acknowledge
<1>1. given = AckedIds /\ AckedIds \subseteq Subjects
  BY DEF GivenInv, TypeOK
<1>2. h' \in Handler /\ h'.at = "ack" /\ h'.subject = s /\ h'.ids = given \cup {s}
  BY <1>1, IdleType DEF Idle, Handler, NotificationId
<1>3. acks'.file = "torn" /\ acks' \in [file : {"absent", "torn", "saved"}, ids : SUBSET Subjects]
  BY DEF TypeOK
<1>4. TypeOK'
  BY <1>2, <1>3 DEF TypeOK
<1>5. WritingInv' /\ GivenInv'
  BY <1>2, <1>3 DEF WritingInv, GivenInv
<1> QED BY <1>4, <1>5, TellsKept

LEMMA FinishAcknowledgeKeeps ==
    ASSUME Inv, FinishAcknowledge PROVE Inv'
<1> USE DEF Inv, FinishAcknowledge
<1>1. h.ids = given \cup {h.subject} /\ h.subject \in Subjects
  BY DEF GivenInv
<1>2. TypeOK'
  BY <1>1, IdleType DEF TypeOK
<1>3. WritingInv' /\ GivenInv'
  BY <1>1 DEF WritingInv, GivenInv, AckedIds, Idle
<1> QED BY <1>2, <1>3, TellsKept

LEMMA TickKeeps ==
    ASSUME Inv, Tick PROVE Inv'
<1> USE DEF Inv, Tick
<1>1. \A n \in Ages : Older(n) \in Ages
  BY DEF Older, Ages
<1>2. ASSUME NEW b \in BeatIds
      PROVE  /\ beat'[b] \in Beat
             /\ beat'[b].file = beat[b].file /\ beat'[b].op = beat[b].op
             /\ beat'[b].status = beat[b].status
  <2>1. beat[b] \in Beat /\ beat[b].age \in Ages
    BY DEF TypeOK, Beat
  <2>2. Older(beat[b].age) \in Ages
    BY <1>1, <2>1
  <2> QED BY <2>1, <2>2 DEF Beat
<1>3. TypeOK'
  <2>1. age' \in [Ops -> Ages]
    BY <1>1 DEF TypeOK, Ages
  <2>2. beat' \in [BeatIds -> Beat]
    BY <1>2
  <2> QED BY <2>1, <2>2 DEF TypeOK
<1>4. WritingInv' /\ GivenInv'
  BY DEF WritingInv, GivenInv, AckedIds
<1>5. \A o \in Ops : BeatsOf(o)' = BeatsOf(o)
  BY <1>2 DEF BeatsOf
<1>6. TellsInv'
  <2>1. \A o \in Ops : \A b \in BeatsOf(o) : beat'[b].status = beat[b].status
    BY <1>2 DEF BeatsOf
  <2> QED BY <1>5, <2>1 DEF TellsInv
<1> QED BY <1>3, <1>4, <1>6

LEMMA ReviewChangesKeeps ==
    ASSUME Inv, ReviewChanges PROVE Inv'
<1> USE DEF Inv, ReviewChanges
<1>1. TypeOK' /\ WritingInv' /\ GivenInv'
  BY DEF TypeOK, WritingInv, GivenInv, AckedIds
<1> QED BY <1>1, TellsKept

LEMMA CrashKeeps ==
    ASSUME Inv, Crash PROVE Inv'
<1> USE DEF Inv, Crash
<1>1. TypeOK'
  BY IdleType DEF TypeOK
<1>2. WritingInv' /\ GivenInv'
  BY DEF WritingInv, GivenInv, AckedIds, Idle
<1> QED BY <1>1, <1>2, TellsKept

LEMMA NextKeeps == Inv /\ [Next]_vars => Inv'
<1> SUFFICES ASSUME Inv, [Next]_vars PROVE Inv'
  OBVIOUS
<1>1. CASE UNCHANGED vars
  <2>1. TypeOK' /\ WritingInv' /\ GivenInv'
    BY <1>1 DEF vars, Inv, TypeOK, WritingInv, GivenInv, AckedIds
  <2>2. TellsInv'
    BY <1>1, TellsKept DEF vars, Inv
  <2> QED BY <2>1, <2>2 DEF Inv
<1>2. ASSUME NEW o \in Ops, SaveOperation(o) PROVE Inv'
  BY <1>2, SaveOperationKeeps
<1>3. ASSUME NEW o \in Ops, CreateHeartbeat(o) PROVE Inv'
  BY <1>3, CreateHeartbeatKeeps
<1>4. ASSUME NEW s \in Subjects, Acknowledge(s) PROVE Inv'
  BY <1>4, AcknowledgeKeeps
<1>5. CASE Finish
  BY <1>5, FinishOperationKeeps, FinishHeartbeatKeeps, FinishAcknowledgeKeeps DEF Finish
<1>6. CASE Tick
  BY <1>6, TickKeeps
<1>7. CASE ReviewChanges
  BY <1>7, ReviewChangesKeeps
<1>8. CASE Crash
  BY <1>8, CrashKeeps
<1> QED BY <1>1, <1>2, <1>3, <1>4, <1>5, <1>6, <1>7, <1>8 DEF Next

LEMMA InvHolds == Spec => []Inv
BY InitInv, NextKeeps, PTL DEF Spec

-----------------------------------------------------------------------------
\* No other notification is taken for that of a blocked operation.
LEMMA BlockedIsShown ==
    ASSUME TypeOK, NEW o \in Ops
    PROVE  <<"blocked", o>> \in Current <=> o \in BlockedOps
<1>1. <<"blocked", o>> \notin (IF review = Unreadable THEN {} ELSE review)
  <2>1. review # Unreadable => review \in Reviews
    BY DEF TypeOK
  <2>2. \A s \in review : review # Unreadable => s[1] # "blocked"
    BY <2>1
  <2>3. <<"blocked", o>>[1] = "blocked"
    OBVIOUS
  <2> QED BY <2>2, <2>3
<1>2. <<"blocked", o>> \notin {<<"escalated", p>> : p \in {q \in Ops : op[q] = "awaiting_escalation"}}
  OBVIOUS
<1>3. <<"blocked", o>> \notin {<<"stale", p>> : p \in StaleOps}
  OBVIOUS
<1>4. <<"blocked", o>> \in {<<"blocked", p>> : p \in BlockedOps} <=> o \in BlockedOps
  OBVIOUS
<1> QED BY <1>1, <1>2, <1>3, <1>4 DEF Current

\* generate_notifications shows an active operation as blocked exactly when
\* the last heartbeat answered for it says so, however many heartbeats there
\* are, however the clock goes and whichever of them a crash tore.
THEOREM LatestReportHolds == Spec => []LatestReportCounts
<1>1. ASSUME Inv PROVE LatestReportCounts
  <2> SUFFICES ASSUME NEW o \in Ops
               PROVE  o \in BlockedOps <=> op[o] \in Active /\ told[o] = "blocked"
    BY <1>1, BlockedIsShown DEF LatestReportCounts, Inv
  <2> DEFINE B == BeatsOf(o)
             n == LatestBeat(o)
  <2>1. B \subseteq BeatIds /\ B \subseteq Nat
    BY DEF BeatsOf, BeatIds
  <2>2. Bounded(B)
    <3>1. \A b \in B : b <= MaxBeats
      BY <2>1 DEF BeatIds
    <3> QED BY <3>1 DEF Bounded
  <2>3. n \in B \cup {0} /\ \A b \in B : b <= n
    BY <2>1, <2>2, HighestIsGreatest DEF LatestBeat
  <2>4. CASE B = {}
    <3>1. told[o] = "nothing" /\ n = 0
      BY <1>1, <2>3, <2>4 DEF Inv, TellsInv
    <3> QED BY <3>1 DEF BlockedOps
  <2>5. CASE B # {}
    <3>1. n # 0 /\ n \in B
      BY <2>1, <2>3, <2>5 DEF BeatIds
    <3>2. told[o] = beat[n].status
      BY <1>1, <2>3, <3>1 DEF Inv, TellsInv
    <3> QED BY <3>1, <3>2 DEF BlockedOps
  <2> QED BY <2>4, <2>5
<1> QED BY <1>1, InvHolds, PTL

\* AcknowledgementStore: what is marked acknowledged is what the founder
\* acknowledged, no more and no less, for any number of acknowledgements and
\* any file torn by a crash.
THEOREM AcknowledgedHolds == Spec => []AcknowledgedExactly
<1>1. Inv => AcknowledgedExactly
  BY DEF Inv, GivenInv, AcknowledgedExactly, Acknowledged, NotificationId
<1> QED BY <1>1, InvHolds, PTL

\* The files, the handler in progress and the histories keep their types.
THEOREM TypeCorrect == Spec => []TypeOK
<1>1. Inv => TypeOK
  BY DEF Inv
<1> QED BY <1>1, InvHolds, PTL

-----------------------------------------------------------------------------
(* The context graph and readiness *)

\* Two objects that a capability stands behind.
Share(a, b) == CapsOf(a) \cap CapsOf(b) # {}

\* The object is of one of the business's kinds, or of the runtimes'.
IsBusiness(x) == x \in Goals \cup People \cup Departments \cup Capabilities
IsResource(x) == x \in Resources

\* An object of one kind is of no other.
LEMMA KindIs ==
    ASSUME KindsAreApart, NEW x
    PROVE  /\ x \in Goals => x \notin People \cup Departments \cup Capabilities \cup Sops \cup Operations \cup Decisions \cup Kpis \cup Repositories \cup Services \cup Workflows \cup Databases \cup Tables \cup Providers \cup Models
           /\ x \in People => x \notin Departments \cup Capabilities \cup Sops \cup Operations \cup Decisions \cup Kpis \cup Repositories \cup Services \cup Workflows \cup Databases \cup Tables \cup Providers \cup Models
           /\ x \in Departments => x \notin Capabilities \cup Sops \cup Operations \cup Decisions \cup Kpis \cup Repositories \cup Services \cup Workflows \cup Databases \cup Tables \cup Providers \cup Models
           /\ x \in Capabilities => x \notin Sops \cup Operations \cup Decisions \cup Kpis \cup Repositories \cup Services \cup Workflows \cup Databases \cup Tables \cup Providers \cup Models
           /\ x \in Sops => x \notin Operations \cup Decisions \cup Kpis \cup Repositories \cup Services \cup Workflows \cup Databases \cup Tables \cup Providers \cup Models
           /\ x \in Operations => x \notin Decisions \cup Kpis \cup Repositories \cup Services \cup Workflows \cup Databases \cup Tables \cup Providers \cup Models
           /\ x \in Decisions => x \notin Kpis \cup Repositories \cup Services \cup Workflows \cup Databases \cup Tables \cup Providers \cup Models
           /\ x \in Kpis => x \notin Repositories \cup Services \cup Workflows \cup Databases \cup Tables \cup Providers \cup Models
           /\ x \in Repositories => x \notin Services \cup Workflows \cup Databases \cup Tables \cup Providers \cup Models
           /\ x \in Services => x \notin Workflows \cup Databases \cup Tables \cup Providers \cup Models
           /\ x \in Workflows => x \notin Databases \cup Tables \cup Providers \cup Models
           /\ x \in Databases => x \notin Tables \cup Providers \cup Models
           /\ x \in Tables => x \notin Providers \cup Models
           /\ x \in Providers => x \notin Models
<1> DEFINE kind == <<Goals, People, Departments, Capabilities, Sops, Operations, Decisions, Kpis,
                     Repositories, Services, Workflows, Databases, Tables, Providers, Models>>
<1>1. \A i, j \in 1 .. 15 : i # j /\ x \in kind[i] => x \notin kind[j]
  BY DEF KindsAreApart
<1> QED BY <1>1

\* What is said of an object of each kind.
LEMMA EdgesOf ==
    ASSUME KindsAreApart, NEW x
    PROVE  /\ x \in Goals => Related(x) = seen \cap GoalEdges(x)
           /\ x \in People => Related(x) = seen \cap PersonEdges(x)
           /\ x \in Departments => Related(x) = seen \cap DepartmentEdges(x)
           /\ x \in Capabilities => Related(x) = seen \cap CapabilityEdges(x)
           /\ x \in Repositories => Related(x) = seen \cap RepositoryEdges(x)
           /\ x \in Services => Related(x) = seen \cap ServiceEdges(x)
           /\ x \in Workflows => Related(x) = seen \cap WorkflowEdges(x)
           /\ x \in Databases => Related(x) = seen \cap DatabaseEdges(x)
           /\ x \in Tables => Related(x) = seen \cap TableEdges(x)
           /\ x \in Providers => Related(x) = seen \cap ProviderEdges(x)
           /\ x \in Models => Related(x) = seen \cap ModelEdges(x)
<1> QED BY KindIs DEF Related

\* The capabilities behind an object of each kind.
LEMMA CapsOfKind ==
    ASSUME KindsAreApart, NEW x
    PROVE  /\ x \in Goals => CapsOf(x) = {c \in Capabilities : SameOwner(c, x)}
           /\ x \in People => CapsOf(x) = {c \in Capabilities : Matches(world.owner[c], x)}
           /\ x \in Departments => CapsOf(x) = {c \in Capabilities : world.dept[c] = x}
           /\ x \in Capabilities => CapsOf(x) = {x}
           /\ x \in Services => CapsOf(x) = Naming({world.repo[x]})
           /\ x \in Databases => CapsOf(x) = Naming(TablesOf(x))
           /\ x \in Providers => CapsOf(x) = Naming(ModelsOf(x))
           /\ x \in Repositories \cup Workflows \cup Tables \cup Models => CapsOf(x) = Naming({x})
<1> QED BY KindIs DEF CapsOf

\* A resource is related to the capabilities it shares.
LEMMA ResourceOf ==
    ASSUME KindsAreApart, IsWorld(world),
           NEW x \in Resources, x \in seen, NEW C, C \subseteq Capabilities
    PROVE  x \in ResourcesOf(C) <=> C \cap CapsOf(x) # {}
<1>1. /\ \A c \in Capabilities : x \in world.refs[c] => x \in Repositories \cup Workflows \cup Tables \cup Models
      /\ \A t \in Tables : world.base[t] = x => x \in Databases
      /\ \A m \in Models : world.provider[m] = x => x \in Providers
  BY KindIs DEF IsWorld, Objects, Resources
<1>2. x \in NamedBy(C) <=> \E c \in C : x \in world.refs[c]
  BY DEF NamedBy
<1>3. x \in ServicesOf(C) <=> x \in Services /\ \E c \in C : world.repo[x] \in world.refs[c]
  BY DEF ServicesOf, NamedBy
<1>4. x \in DatabasesOf(C) <=> \E c \in C, t \in Tables \cap seen : t \in world.refs[c] /\ world.base[t] = x
  BY DEF DatabasesOf, NamedBy
<1>5. x \in ProvidersOf(C) <=> \E c \in C, m \in Models \cap seen : m \in world.refs[c] /\ world.provider[m] = x
  BY DEF ProvidersOf, NamedBy
<1>6. CASE x \in Repositories \cup Workflows \cup Tables \cup Models
  <2>1. CapsOf(x) = {c \in Capabilities : x \in world.refs[c]}
    BY <1>6, CapsOfKind DEF Naming
  <2>2. x \notin Services \cup Databases \cup Providers
    BY <1>6, KindIs
  <2> QED BY <1>1, <1>2, <1>3, <1>4, <1>5, <2>1, <2>2 DEF ResourcesOf
<1>7. CASE x \in Services
  <2>1. CapsOf(x) = {c \in Capabilities : world.repo[x] \in world.refs[c]}
    BY <1>7, CapsOfKind DEF Naming
  <2>2. x \notin Repositories \cup Workflows \cup Tables \cup Models \cup Databases \cup Providers
    BY <1>7, KindIs
  <2> QED BY <1>1, <1>2, <1>3, <1>4, <1>5, <2>1, <2>2, <1>7 DEF ResourcesOf
<1>8. CASE x \in Databases
  <2>1. CapsOf(x) = {c \in Capabilities : \E t \in Tables \cap seen : world.base[t] = x /\ t \in world.refs[c]}
    BY <1>8, CapsOfKind DEF Naming, TablesOf
  <2>2. x \notin Repositories \cup Workflows \cup Tables \cup Models \cup Services \cup Providers
    BY <1>8, KindIs
  <2> QED BY <1>1, <1>2, <1>3, <1>4, <1>5, <2>1, <2>2 DEF ResourcesOf
<1>9. CASE x \in Providers
  <2>1. CapsOf(x) = {c \in Capabilities : \E m \in Models \cap seen : world.provider[m] = x /\ m \in world.refs[c]}
    BY <1>9, CapsOfKind DEF Naming, ModelsOf
  <2>2. x \notin Repositories \cup Workflows \cup Tables \cup Models \cup Services \cup Databases
    BY <1>9, KindIs
  <2> QED BY <1>1, <1>2, <1>3, <1>4, <1>5, <2>1, <2>2 DEF ResourcesOf
<1> QED BY <1>6, <1>7, <1>8, <1>9 DEF Resources

\* So is a goal, a person, a department or a capability to a resource.
LEMMA BusinessOf ==
    ASSUME KindsAreApart, NEW x, NEW y, IsBusiness(y), CapsOf(x) \subseteq Capabilities
    PROVE  y \in Business(x) <=> Share(y, x)
<1>1. /\ y \in PeopleOf(CapsOf(x)) <=>
           \E c \in CapsOf(x) : y \in People /\ Matches(world.owner[c], y)
      /\ y \in DepartmentsOf(CapsOf(x)) <=>
           \E c \in CapsOf(x) : y \in Departments /\ world.dept[c] = y
      /\ y \in GoalsOf(CapsOf(x)) <=>
           \E c \in CapsOf(x) : y \in Goals /\ SameOwner(c, y)
  BY DEF PeopleOf, DepartmentsOf, GoalsOf, Owners
<1>2. y \in Business(x) <=> y \in CapsOf(x) \/ y \in PeopleOf(CapsOf(x))
                              \/ y \in DepartmentsOf(CapsOf(x)) \/ y \in GoalsOf(CapsOf(x))
  BY DEF Business
<1>3. CASE y \in Goals
  <2>1. CapsOf(y) = {c \in Capabilities : SameOwner(c, y)} /\ y \notin Capabilities \cup People \cup Departments
    BY <1>3, CapsOfKind, KindIs
  <2> QED BY <1>1, <1>2, <1>3, <2>1 DEF Share
<1>4. CASE y \in People
  <2>1. CapsOf(y) = {c \in Capabilities : Matches(world.owner[c], y)} /\ y \notin Capabilities \cup Goals \cup Departments
    BY <1>4, CapsOfKind, KindIs
  <2> QED BY <1>1, <1>2, <1>4, <2>1 DEF Share
<1>5. CASE y \in Departments
  <2>1. CapsOf(y) = {c \in Capabilities : world.dept[c] = y} /\ y \notin Capabilities \cup Goals \cup People
    BY <1>5, CapsOfKind, KindIs
  <2> QED BY <1>1, <1>2, <1>5, <2>1 DEF Share
<1>6. CASE y \in Capabilities
  <2>1. CapsOf(y) = {y} /\ y \notin Goals \cup People \cup Departments
    BY <1>6, CapsOfKind, KindIs
  <2> QED BY <1>1, <1>2, <2>1 DEF Share
<1> QED BY <1>3, <1>4, <1>5, <1>6 DEF IsBusiness

LEMMA CapsAreCapabilities ==
    ASSUME KindsAreApart, NEW x, IsBusiness(x) \/ IsResource(x)
    PROVE  CapsOf(x) \subseteq Capabilities
<1> QED BY CapsOfKind DEF Naming, IsBusiness, IsResource, Resources

\* Of the objects there are only resources are resources of capabilities.
LEMMA ResourcesAreResources ==
    ASSUME IsWorld(world), NEW C, NEW x \in Objects, x \in ResourcesOf(C)
    PROVE  x \in Resources
<1>1. CASE x \in DatabasesOf(C)
  BY <1>1 DEF DatabasesOf, IsWorld, Resources
<1>2. CASE x \in ProvidersOf(C)
  BY <1>2 DEF ProvidersOf, IsWorld, Resources
<1> QED BY <1>1, <1>2 DEF ResourcesOf, ServicesOf, Resources

\* An object of the business and a resource are related if they share a capability.
LEMMA BusinessToResource ==
    ASSUME KindsAreApart, IsWorld(world),
           NEW a \in seen, IsBusiness(a), NEW b \in seen, IsResource(b)
    PROVE  b \in Related(a) <=> Share(a, b)
<1>1. /\ CapsOf(a) \subseteq Capabilities
      /\ b \in ResourcesOf(CapsOf(a)) <=> Share(a, b)
  BY CapsAreCapabilities, ResourceOf DEF Share, IsResource
<1>2. /\ b \notin Goals \cup People \cup Departments \cup Capabilities \cup Sops \cup Operations \cup Decisions \cup Kpis
      /\ b \in Objects
  BY KindIs DEF IsResource, Resources, Objects
<1>3. \A p \in People : b \notin world.member[p]
  BY <1>2 DEF IsWorld
<1>4. CASE a \in Goals
  <2>1. Related(a) = seen \cap GoalEdges(a)
    BY <1>4, EdgesOf
  <2> QED BY <1>1, <1>2, <1>3, <2>1
          DEF GoalEdges, Owners, Serving, OpsOfDecisions
<1>5. CASE a \in People
  <2>1. Related(a) = seen \cap PersonEdges(a)
    BY <1>5, EdgesOf
  <2> QED BY <1>1, <1>2, <1>3, <1>5, <2>1 DEF PersonEdges
<1>6. CASE a \in Departments
  <2>1. Related(a) = seen \cap DepartmentEdges(a)
    BY <1>6, EdgesOf
  <2> QED BY <1>1, <1>2, <2>1 DEF DepartmentEdges, Owners
<1>7. CASE a \in Capabilities
  <2>1. Related(a) = seen \cap CapabilityEdges(a) /\ CapsOf(a) = {a}
    BY <1>7, EdgesOf, CapsOfKind
  <2> QED BY <1>1, <1>2, <2>1
          DEF CapabilityEdges, DepartmentsOf, Owners, GoalsOf, OpsOfSops
<1> QED BY <1>4, <1>5, <1>6, <1>7 DEF IsBusiness

LEMMA ResourceToBusiness ==
    ASSUME KindsAreApart, IsWorld(world),
           NEW a \in seen, IsBusiness(a), NEW b \in seen, IsResource(b)
    PROVE  a \in Related(b) <=> Share(a, b)
<1>1. a \in Business(b) <=> Share(a, b)
  BY CapsAreCapabilities, BusinessOf
<1>2. a \notin Sops \cup Operations \cup Decisions \cup Kpis \cup Resources /\ a \in Objects
  BY KindIs DEF IsBusiness, Resources, Objects
<1>3. \A C : a \notin ResourcesOf(C)
  BY <1>2, ResourcesAreResources
<1>4. a \notin Repositories \cup Services \cup Workflows \cup Databases \cup Tables \cup Providers \cup Models
  BY <1>2 DEF Resources
<1>5. CASE b \in Repositories
  <2>1. Related(b) = seen \cap RepositoryEdges(b)
    BY <1>5, EdgesOf
  <2> QED BY <1>1, <1>3, <1>4, <2>1 DEF RepositoryEdges
<1>6. CASE b \in Services
  <2>1. Related(b) = seen \cap ServiceEdges(b)
    BY <1>6, EdgesOf
  <2> QED BY <1>1, <1>2, <1>3, <1>4, <2>1 DEF ServiceEdges, OpsOfSops
<1>7. CASE b \in Workflows
  <2>1. Related(b) = seen \cap WorkflowEdges(b)
    BY <1>7, EdgesOf
  <2> QED BY <1>1, <1>2, <1>3, <2>1 DEF WorkflowEdges
<1>8. CASE b \in Databases
  <2>1. Related(b) = seen \cap DatabaseEdges(b)
    BY <1>8, EdgesOf
  <2> QED BY <1>1, <1>3, <1>4, <2>1 DEF DatabaseEdges, TablesOf
<1>9. CASE b \in Tables
  <2>1. Related(b) = seen \cap TableEdges(b)
    BY <1>9, EdgesOf
  <2> QED BY <1>1, <1>3, <1>4, <2>1 DEF TableEdges
<1>10. CASE b \in Providers
  <2>1. Related(b) = seen \cap ProviderEdges(b)
    BY <1>10, EdgesOf
  <2> QED BY <1>1, <1>3, <1>4, <2>1 DEF ProviderEdges, ModelsOf
<1>11. CASE b \in Models
  <2>1. Related(b) = seen \cap ModelEdges(b)
    BY <1>11, EdgesOf
  <2> QED BY <1>1, <1>3, <1>4, <2>1 DEF ModelEdges
<1> QED BY <1>5, <1>6, <1>7, <1>8, <1>9, <1>10, <1>11 DEF IsResource, Resources

\* A resource and what holds it or is held by it.
Holds(a, b) ==
    \/ a \in Repositories /\ b \in Services /\ world.repo[b] = a
    \/ a \in Databases /\ b \in Tables /\ world.base[b] = a
    \/ a \in Providers /\ b \in Models /\ world.provider[b] = a

\* Resources of one runtime are related only by holding one another.
SameRuntime(a, b) ==
    \/ {a, b} \subseteq Repositories \cup Services
    \/ {a, b} \subseteq Workflows
    \/ {a, b} \subseteq Databases \cup Tables
    \/ {a, b} \subseteq Providers \cup Models

\* Models and tables, which have no edges to one another.
NoEdge(a, b) ==
    {a, b} \cap (Providers \cup Models) # {} /\ {a, b} \cap (Databases \cup Tables) # {}

LEMMA ResourceToResource ==
    ASSUME KindsAreApart, IsWorld(world),
           NEW a \in seen, IsResource(a), NEW b \in seen, IsResource(b), ~ NoEdge(a, b)
    PROVE  b \in Related(a) <=> Holds(a, b) \/ Holds(b, a) \/ (Share(a, b) /\ ~ SameRuntime(a, b))
<1>1. b \in ResourcesOf(CapsOf(a)) <=> Share(a, b)
  BY CapsAreCapabilities, ResourceOf DEF Share, IsResource
<1>2. /\ b \notin Goals \cup People \cup Departments \cup Capabilities \cup Operations
      /\ CapsOf(a) \subseteq Capabilities
  BY KindIs, CapsAreCapabilities DEF IsResource, Resources
<1>3. b \notin Business(a)
  BY <1>2 DEF Business, PeopleOf, Owners, DepartmentsOf, GoalsOf
<1>4. b \in Repositories \cup Services \cup Workflows \cup Databases \cup Tables \cup Providers \cup Models
  BY DEF IsResource, Resources
<1>5. CASE a \in Repositories
  <2>1. Related(a) = seen \cap RepositoryEdges(a)
    BY <1>5, EdgesOf
  <2> QED BY <1>1, <1>3, <1>4, <1>5, <2>1, KindIs DEF RepositoryEdges, Holds, SameRuntime
<1>6. CASE a \in Services
  <2>1. Related(a) = seen \cap ServiceEdges(a)
    BY <1>6, EdgesOf
  <2> QED BY <1>1, <1>2, <1>3, <1>4, <1>6, <2>1, KindIs DEF ServiceEdges, OpsOfSops, Holds, SameRuntime
<1>7. CASE a \in Workflows
  <2>1. Related(a) = seen \cap WorkflowEdges(a)
    BY <1>7, EdgesOf
  <2> QED BY <1>1, <1>2, <1>3, <1>4, <1>7, <2>1, KindIs DEF WorkflowEdges, Holds, SameRuntime
<1>8. CASE a \in Databases
  <2>1. Related(a) = seen \cap DatabaseEdges(a)
    BY <1>8, EdgesOf
  <2> QED BY <1>1, <1>3, <1>4, <1>8, <2>1, KindIs DEF DatabaseEdges, TablesOf, Holds, SameRuntime
<1>9. CASE a \in Tables
  <2>1. Related(a) = seen \cap TableEdges(a)
    BY <1>9, EdgesOf
  <2> QED BY <1>1, <1>3, <1>4, <1>9, <2>1, KindIs DEF TableEdges, Holds, SameRuntime
<1>10. CASE a \in Providers
  <2>1. Related(a) = seen \cap ProviderEdges(a)
    BY <1>10, EdgesOf
  <2> QED BY <1>1, <1>3, <1>4, <1>10, <2>1, KindIs DEF ProviderEdges, ModelsOf, Holds, SameRuntime, NoEdge
<1>11. CASE a \in Models
  <2>1. Related(a) = seen \cap ModelEdges(a)
    BY <1>11, EdgesOf
  <2> QED BY <1>1, <1>3, <1>4, <1>11, <2>1, KindIs DEF ModelEdges, Holds, SameRuntime, NoEdge
<1> QED BY <1>5, <1>6, <1>7, <1>8, <1>9, <1>10, <1>11 DEF IsResource, Resources

\* Of the objects of the business a goal has people, departments and capabilities.
LEMMA GoalHas ==
    ASSUME KindsAreApart, IsWorld(world), NEW a \in Goals, NEW b \in seen, IsBusiness(b)
    PROVE  b \in Related(a) <=>
              \/ b \in People /\ Matches(world.owner[a], b)
              \/ b \in Departments /\ \E p \in People : Matches(world.owner[a], p) /\ b \in world.member[p]
              \/ b \in Capabilities /\ SameOwner(b, a)
<1>1. Related(a) = seen \cap GoalEdges(a) /\ CapsOf(a) = {c \in Capabilities : SameOwner(c, a)}
  BY EdgesOf, CapsOfKind
<1>2. b \notin Operations \cup Decisions \cup Kpis \cup Resources /\ b \in Objects
  BY KindIs DEF IsBusiness, Resources, Objects
<1>3. b \notin ResourcesOf(CapsOf(a))
  BY <1>2, ResourcesAreResources
<1>4. \A p \in People : b \in world.member[p] => b \in Departments
  BY <1>2 DEF IsWorld
<1> QED BY <1>1, <1>2, <1>3, <1>4 DEF GoalEdges, Owners, Serving, OpsOfDecisions

LEMMA PersonHas ==
    ASSUME KindsAreApart, IsWorld(world), NEW a \in People, NEW b \in seen, IsBusiness(b)
    PROVE  b \in Related(a) <=>
              \/ b \in Goals /\ Matches(world.owner[b], a)
              \/ b \in Departments /\ (b \in world.member[a] \/ Matches(world.owner[b], a))
              \/ b \in Capabilities /\ Matches(world.owner[b], a)
<1>1. Related(a) = seen \cap PersonEdges(a)
      /\ CapsOf(a) = {c \in Capabilities : Matches(world.owner[c], a)}
  BY EdgesOf, CapsOfKind
<1>2. b \notin Operations \cup Resources /\ b \in Objects
  BY KindIs DEF IsBusiness, Resources, Objects
<1>3. b \notin ResourcesOf(CapsOf(a))
  BY <1>2, ResourcesAreResources
<1>4. b \in world.member[a] => b \in Departments
  BY <1>2 DEF IsWorld
<1> QED BY <1>1, <1>2, <1>3, <1>4 DEF PersonEdges

LEMMA DepartmentHas ==
    ASSUME KindsAreApart, IsWorld(world), NEW a \in Departments, NEW b \in seen, IsBusiness(b)
    PROVE  b \in Related(a) <=>
              \/ b \in Goals /\ \E p \in People : a \in world.member[p] /\ Matches(world.owner[b], p)
              \/ b \in People /\ (a \in world.member[b] \/ Matches(world.owner[a], b))
              \/ b \in Capabilities /\ world.dept[b] = a
<1>1. Related(a) = seen \cap DepartmentEdges(a) /\ CapsOf(a) = {c \in Capabilities : world.dept[c] = a}
  BY EdgesOf, CapsOfKind
<1>2. b \notin Operations \cup Sops \cup Resources /\ b \in Objects
  BY KindIs DEF IsBusiness, Resources, Objects
<1>3. b \notin ResourcesOf(CapsOf(a))
  BY <1>2, ResourcesAreResources
<1> QED BY <1>1, <1>2, <1>3 DEF DepartmentEdges, Owners

LEMMA CapabilityHas ==
    ASSUME KindsAreApart, IsWorld(world), NEW a \in Capabilities, NEW b \in seen, IsBusiness(b)
    PROVE  b \in Related(a) <=>
              \/ b \in Goals /\ SameOwner(a, b)
              \/ b \in People /\ Matches(world.owner[a], b)
              \/ b \in Departments /\ world.dept[a] = b
<1>1. Related(a) = seen \cap CapabilityEdges(a)
  BY EdgesOf
<1>2. b \notin Operations \cup Sops \cup Resources /\ b \in Objects
  BY KindIs DEF IsBusiness, Resources, Objects
<1>3. b \notin ResourcesOf({a})
  BY <1>2, ResourcesAreResources
<1> QED BY <1>1, <1>2, <1>3
        DEF CapabilityEdges, DepartmentsOf, Owners, GoalsOf, OpsOfSops

\* Two objects of the business are related both ways or not at all.
LEMMA BusinessToBusiness ==
    ASSUME KindsAreApart, IsWorld(world),
           NEW a \in seen, IsBusiness(a), NEW b \in seen, IsBusiness(b)
    PROVE  b \in Related(a) <=> a \in Related(b)
<1>1. CASE a \in Goals
  <2>1. a \notin People \cup Departments \cup Capabilities
    BY <1>1, KindIs
  <2> QED BY <1>1, <2>1, GoalHas, PersonHas, DepartmentHas, CapabilityHas DEF IsBusiness
<1>2. CASE a \in People
  <2>1. a \notin Goals \cup Departments \cup Capabilities
    BY <1>2, KindIs
  <2> QED BY <1>2, <2>1, GoalHas, PersonHas, DepartmentHas, CapabilityHas DEF IsBusiness
<1>3. CASE a \in Departments
  <2>1. a \notin Goals \cup People \cup Capabilities
    BY <1>3, KindIs
  <2> QED BY <1>3, <2>1, GoalHas, PersonHas, DepartmentHas, CapabilityHas DEF IsBusiness
<1>4. CASE a \in Capabilities
  <2>1. a \notin Goals \cup People \cup Departments
    BY <1>4, KindIs
  <2> QED BY <1>4, <2>1, GoalHas, PersonHas, DepartmentHas, CapabilityHas DEF IsBusiness
<1> QED BY <1>1, <1>2, <1>3, <1>4 DEF IsBusiness

\* In one state of the world.
LEMMA EdgesAnswer ==
    ASSUME KindsAreApart, IsWorld(world)
    PROVE  EdgesAnswerEachOther
<1> SUFFICES ASSUME NEW a \in (seen \cap Propagating) \ Operations,
                    NEW b \in (seen \cap Propagating) \ Operations, ~ NoEdge(a, b)
             PROVE  b \in Related(a) <=> a \in Related(b)
  BY DEF EdgesAnswerEachOther, Propagating, NoEdge
<1>1. (IsBusiness(a) \/ IsResource(a)) /\ (IsBusiness(b) \/ IsResource(b))
  BY DEF Propagating, Objects, IsBusiness, IsResource
<1>2. CASE IsBusiness(a) /\ IsBusiness(b)
  BY <1>2, BusinessToBusiness
<1>3. CASE IsBusiness(a) /\ IsResource(b)
  BY <1>3, BusinessToResource, ResourceToBusiness
<1>4. CASE IsResource(a) /\ IsBusiness(b)
  BY <1>4, BusinessToResource, ResourceToBusiness
<1>5. CASE IsResource(a) /\ IsResource(b)
  <2>1. /\ NoEdge(a, b) <=> NoEdge(b, a)
        /\ Share(a, b) <=> Share(b, a)
        /\ SameRuntime(a, b) <=> SameRuntime(b, a)
    BY DEF NoEdge, Share, SameRuntime
  <2> QED BY <1>5, <2>1, ResourceToResource
<1> QED BY <1>1, <1>2, <1>3, <1>4, <1>5

LEMMA WorldKept ==
    ASSUME IsWorld(world), [ViewNext]_viewVars
    PROVE  IsWorld(world)'
<1>1. CASE Change
  <2>1. PICK c : world' = [world EXCEPT !.status[c[1]] = c[2]]
    BY <1>1 DEF Change
  <2>2. /\ DOMAIN world' = DOMAIN world
        /\ \A f \in DOMAIN world : f # "status" => world'[f] = world[f]
    BY <2>1
  <2>3. DOMAIN world'.status = Objects
    <3>1. "status" \in DOMAIN world /\ DOMAIN world.status = Objects
      BY DEF IsWorld
    <3>2. world'.status = [world.status EXCEPT ![c[1]] = c[2]]
      BY <2>1, <3>1
    <3> QED BY <3>1, <3>2
  <2> HIDE <2>1
  <2> QED BY <2>2, <2>3 DEF IsWorld
<1>2. CASE world' = world
  BY <1>2 DEF IsWorld, Objects, Resources
<1>3. Change \/ world' = world
  BY DEF ViewNext, viewVars, AskImpact, AskReadiness, Gather, Refuse, Serve,
         Seed, Level, Summarise, Evaluate, Restart
<1> QED BY <1>1, <1>2, <1>3

\* Whatever the world, the outages and the changes of status, the edges of the
\* context graph answer one another: _EDGES has a line for each direction, and
\* the two lines agree, but for operations, models and tables.
THEOREM EdgesAnswerHolds == ViewSpec => []EdgesAnswerEachOther
<1>1. IsWorld(world) => EdgesAnswerEachOther
  BY EdgesAnswer, ContextGraphAssumption
<1>2. ViewInit => IsWorld(world)
  BY ExecutiveViewAssumption DEF ViewInit
<1>3. IsWorld(world) /\ [ViewNext]_viewVars => IsWorld(world)'
  BY WorldKept
<1> QED BY <1>1, <1>2, <1>3, PTL DEF ViewSpec

-----------------------------------------------------------------------------
\* While readiness is judged the objects are those that some outage leaves.
GatheredInv ==
    /\ "kind" \in DOMAIN request
    /\ request.kind = "readiness" => \E down \in Outages : seen = Delivered(down)

ReadyInv == GatheredInv /\ ReadyHasNoCritical

\* What a runtime delivers shows that it is configured.
LEMMA DeliveredFrom ==
    ASSUME KindsAreApart, NEW down, seen = Delivered(down), NEW x \in seen
    PROVE  /\ x \in Services => "docker" \in Configured
           /\ x \in Workflows => "n8n" \in Configured
           /\ x \in Tables => "nocodb" \in Configured
           /\ x \in Providers \cup Models => "llm" \in Configured
<1>1. x \in Services \cup Workflows \cup Tables \cup Providers \cup Models =>
        x \notin Registered \cup Operations \cup Kpis \cup Decisions \cup Repositories \cup Databases
  BY KindIs DEF Registered
<1>2. x \in FromReview(down) => x \in Kpis \cup Decisions
  BY DEF FromReview
<1>3. x \in FromGithub => x \in Repositories
  BY DEF FromGithub
<1>4. x \in FromN8n(down) => x \in Workflows /\ "n8n" \in Configured
  BY DEF FromN8n
<1>5. x \in FromDocker(down) => x \in Services /\ "docker" \in Configured
  BY DEF FromDocker
<1>6. x \in FromNocodb(down) => x \in Databases \cup Tables /\ "nocodb" \in Configured
  BY DEF FromNocodb
<1>7. x \in FromLlm(down) => x \in Providers \cup Models /\ "llm" \in Configured
  BY DEF FromLlm
<1> QED BY <1>1, <1>2, <1>3, <1>4, <1>5, <1>6, <1>7, KindIs DEF Delivered

\* An object at critical risk blocks the category it is checked under.
LEMMA CriticalBlocks ==
    ASSUME KindsAreApart, NEW down, seen = Delivered(down),
           NEW x \in seen, <<x, data[x]>> \in Critical
    PROVE  \E c \in Categories : Verdict(c) = "blocked"
<1>1. Blocks(x)
  BY DEF Blocks
<1>2. ASSUME NEW c, x \in Checked(c), RuntimeOf(c) \in Configured \cup {None}
      PROVE  Verdict(c) = "blocked"
  BY <1>1, <1>2 DEF Verdict
<1>3. CASE x \in Capabilities
  <2>1. x \in Checked("business") /\ RuntimeOf("business") = None
    BY <1>3 DEF Checked, RuntimeOf
  <2> QED BY <1>2, <2>1 DEF Categories
<1>4. CASE x \in Operations
  <2>1. x \in Checked("operations") /\ RuntimeOf("operations") = None
    BY <1>4 DEF Checked, RuntimeOf
  <2> QED BY <1>2, <2>1 DEF Categories
<1>5. CASE x \in Services
  <2>1. x \in Checked("infrastructure") /\ RuntimeOf("infrastructure") = "docker"
    BY <1>5 DEF Checked, RuntimeOf
  <2> QED BY <1>2, <1>5, <2>1, DeliveredFrom DEF Categories
<1>6. CASE x \in Tables
  <2>1. x \in Checked("data") /\ RuntimeOf("data") = "nocodb"
    BY <1>6 DEF Checked, RuntimeOf
  <2> QED BY <1>2, <1>6, <2>1, DeliveredFrom DEF Categories
<1>7. CASE x \in Providers \cup Models
  <2>1. x \in Checked("ai") /\ RuntimeOf("ai") = "llm"
    BY <1>7 DEF Checked, RuntimeOf
  <2> QED BY <1>2, <1>7, <2>1, DeliveredFrom DEF Categories
<1>8. CASE x \in Workflows
  <2>1. x \in Checked("automation") /\ RuntimeOf("automation") = "n8n"
    BY <1>8 DEF Checked, RuntimeOf
  <2> QED BY <1>2, <1>8, <2>1, DeliveredFrom DEF Categories
<1>9. x \in Capabilities \cup Operations \cup Services \cup Workflows \cup Tables
           \cup Providers \cup Models
  BY DEF Critical
<1> QED BY <1>3, <1>4, <1>5, <1>6, <1>7, <1>8, <1>9

\* All categories count for a deployment.
LEMMA DeploymentWeighsAll == DOMAIN Weights("deployment") = Categories
<1> QED BY DEF Weights, Categories

\* evaluate: what it finds ready has nothing critical.
LEMMA EvaluateKeeps ==
    ASSUME KindsAreApart, GatheredInv, Evaluate PROVE ReadyInv'
<1>1. /\ request.kind = "readiness"
      /\ "kind" \in DOMAIN request' /\ request'.kind = "none"
  BY DEF Evaluate, NoRequest
<1>2. PICK down \in Outages : seen = Delivered(down)
  BY <1>1 DEF GatheredInv
<1>3. PICK ready, score :
        /\ report' = [kind |-> "readiness", scenario |-> request.scenario, ready |-> ready,
                      score |-> score, critical |-> CriticalCount]
        /\ ready = \A c \in DOMAIN Weights(request.scenario) : Verdict(c) # "blocked"
  BY DEF Evaluate
<1>4. ASSUME report'.scenario = "deployment", report'.ready PROVE report'.critical = 0
  <2>1. /\ report'.ready = ready /\ report'.critical = CriticalCount
        /\ request.scenario = "deployment"
    BY <1>3, <1>4
  <2>2. ready
    BY <1>4, <2>1
  <2>3. \A c \in DOMAIN Weights("deployment") : Verdict(c) # "blocked"
    BY <1>3, <2>1, <2>2
  <2>4. \A c \in Categories : Verdict(c) # "blocked"
    BY <2>3, DeploymentWeighsAll
  <2>5. ASSUME NEW x \in seen PROVE <<x, data[x]>> \notin Critical
    BY <1>2, <2>4, CriticalBlocks
  <2>7. {x \in seen : <<x, data[x]>> \in Critical} = {}
    BY <2>5
  <2> QED BY <2>1, <2>7, FS_EmptySet DEF CriticalCount
<1>5. ReadyHasNoCritical'
  BY <1>4 DEF ReadyHasNoCritical
<1>6. GatheredInv'
  BY <1>1 DEF GatheredInv
<1> QED BY <1>5, <1>6 DEF ReadyInv

LEMMA ReadyNext ==
    ASSUME KindsAreApart, ReadyInv, [ViewNext]_viewVars PROVE ReadyInv'
<1>1. CASE Evaluate
  BY <1>1, EvaluateKeeps DEF ReadyInv
<1>2. CASE \E sc \in Scenarios : AskReadiness(sc)
  <2>1. PICK sc : AskReadiness(sc)
    BY <1>2
  <2>2. report'.kind = "none" /\ "kind" \in DOMAIN request'
    BY <2>1 DEF AskReadiness, NoReport
  <2>3. PICK down \in Outages : seen' = Delivered(down) /\ UNCHANGED world
    BY <2>1 DEF AskReadiness, Gather
  <2>4. GatheredInv'
    BY <2>2, <2>3 DEF GatheredInv, Delivered, FromReview, FromGithub,
        FromDocker, FromN8n, FromNocodb, FromLlm, Registered
  <2> QED BY <2>2, <2>4 DEF ReadyInv, ReadyHasNoCritical
<1>3. ASSUME "kind" \in DOMAIN request', request'.kind # "readiness",
             report' = report \/ report'.kind # "readiness"
      PROVE  ReadyInv'
  BY <1>3 DEF ReadyInv, GatheredInv, ReadyHasNoCritical
<1>5. CASE \E x \in Sources, limit \in 1 .. 5 : AskImpact(x, limit)
  <2>1. "kind" \in DOMAIN request' /\ request'.kind = "seeding" /\ report'.kind = "none"
    BY <1>5 DEF AskImpact, NoReport
  <2> QED BY <1>3, <2>1
<1>6. CASE Refuse \/ Change \/ Restart
  <2>1. /\ "kind" \in DOMAIN request' /\ request'.kind = "none"
        /\ report'.kind = "refused" \/ report'.kind = "none"
    BY <1>6 DEF Refuse, Change, Restart, NoRequest, NoReport
  <2> QED BY <1>3, <2>1
<1>7. CASE Seed
  <2>1. /\ "kind" \in DOMAIN request' /\ (request'.kind = "impact" \/ request'.kind = "none")
        /\ report' = report \/ report'.kind = "unknown"
    BY <1>7 DEF Seed, NoRequest
  <2> QED BY <1>3, <2>1
<1>8. CASE Level
  <2>1. "kind" \in DOMAIN request' /\ request'.kind = "impact" /\ report' = report
    BY <1>8 DEF Level, ReadyInv, GatheredInv
  <2> QED BY <1>3, <2>1
<1>9. CASE Summarise
  <2>1. "kind" \in DOMAIN request' /\ request'.kind = "none" /\ report'.kind = "impact"
    BY <1>9 DEF Summarise, NoRequest
  <2> QED BY <1>3, <2>1
<1>4. CASE UNCHANGED viewVars
  BY <1>4 DEF viewVars, ReadyInv, GatheredInv, ReadyHasNoCritical, Delivered, FromReview,
              FromGithub, FromDocker, FromN8n, FromNocodb, FromLlm, Registered
<1> QED BY <1>1, <1>2, <1>4, <1>5, <1>6, <1>7, <1>8, <1>9 DEF ViewNext, Serve

\* A workspace found ready for deployment has nothing at critical risk: the
\* rules of readiness_engine.py block on whatever risk_engine.py calls critical,
\* among objects of any number, whichever runtimes are configured or down.
THEOREM ReadyHolds == ViewSpec => []ReadyHasNoCritical
<1>1. ViewInit => ReadyInv
  BY DEF ViewInit, NoRequest, NoReport, ReadyInv, GatheredInv, ReadyHasNoCritical
<1>2. ReadyInv /\ [ViewNext]_viewVars => ReadyInv'
  BY ReadyNext, ContextGraphAssumption
<1>3. ReadyInv => ReadyHasNoCritical
  BY DEF ReadyInv
<1> QED BY <1>1, <1>2, <1>3, PTL DEF ViewSpec
-----------------------------------------------------------------------------
(* What the risk and the relations of an object are made of *)

\* Relations and risks change with the fields they are read off and not otherwise.
LEMMA RelatedKept ==
    ASSUME UNCHANGED <<world, seen>>, NEW x
    PROVE  Related(x)' = Related(x)
<1> USE DEF Matches, Owners, SameOwner, Open, OpsOfDecisions, OpsOfSops, Serving, TablesOf, ModelsOf
<1>1. CapsOf(x)' = CapsOf(x)
  BY DEF CapsOf, Naming
<1>2. \A C : /\ NamedBy(C)' = NamedBy(C) /\ PeopleOf(C)' = PeopleOf(C)
             /\ DepartmentsOf(C)' = DepartmentsOf(C) /\ GoalsOf(C)' = GoalsOf(C)
             /\ ServicesOf(C)' = ServicesOf(C) /\ DatabasesOf(C)' = DatabasesOf(C)
             /\ ProvidersOf(C)' = ProvidersOf(C)
  BY DEF NamedBy, PeopleOf, DepartmentsOf, GoalsOf, ServicesOf, DatabasesOf, ProvidersOf
<1>3. (\A C : ResourcesOf(C)' = ResourcesOf(C)) /\ Business(x)' = Business(x)
  BY <1>1, <1>2 DEF ResourcesOf, Resources, Business
<1>4. /\ GoalEdges(x)' = GoalEdges(x) /\ PersonEdges(x)' = PersonEdges(x)
      /\ DepartmentEdges(x)' = DepartmentEdges(x)
  BY <1>1, <1>2, <1>3 DEF GoalEdges, PersonEdges, DepartmentEdges
<1>5. /\ CapabilityEdges(x)' = CapabilityEdges(x) /\ OperationEdges(x)' = OperationEdges(x)
      /\ DecisionEdges(x)' = DecisionEdges(x) /\ KpiEdges(x)' = KpiEdges(x)
      /\ SopEdges(x)' = SopEdges(x)
  BY <1>1, <1>2, <1>3 DEF CapabilityEdges, OperationEdges, DecisionEdges, KpiEdges, SopEdges
<1>6. /\ RepositoryEdges(x)' = RepositoryEdges(x) /\ ServiceEdges(x)' = ServiceEdges(x)
      /\ WorkflowEdges(x)' = WorkflowEdges(x) /\ DatabaseEdges(x)' = DatabaseEdges(x)
  BY <1>1, <1>2, <1>3 DEF RepositoryEdges, ServiceEdges, WorkflowEdges, DatabaseEdges
<1>7. /\ TableEdges(x)' = TableEdges(x) /\ ProviderEdges(x)' = ProviderEdges(x)
      /\ ModelEdges(x)' = ModelEdges(x)
  BY <1>1, <1>2, <1>3 DEF TableEdges, ProviderEdges, ModelEdges
<1> QED BY <1>4, <1>5, <1>6, <1>7 DEF Related

LEMMA NearKept ==
    ASSUME UNCHANGED <<world, seen>>, NEW x, NEW limit
    PROVE  Near(x, limit)' = Near(x, limit)
<1>1. PICK edges : edges = [y \in Objects |-> Related(y) \cap Propagating]
  OBVIOUS
<1>2. [y \in Objects |-> Related(y) \cap Propagating]' = edges
  BY <1>1, RelatedKept DEF Propagating
<1> QED BY <1>1, <1>2 DEF Near

LEMMA OwnRiskKept ==
    ASSUME UNCHANGED <<world, seen, data>>, NEW x
    PROVE  OwnRisk(x)' = OwnRisk(x)
<1> QED BY DEF OwnRisk, IntrinsicRisk, Boosts, CriticallyNoticed, BlockedBehind, OpsBehind,
      Matches, Owners, Open, OpsOfDecisions, OpsOfSops, Serving, Critical, High, Medium, Low


\* The rings around an object: itself, then what one relation more reaches.
LEMMA NearIs ==
    ASSUME NEW x \in Objects, NEW limit \in Nat, seen \subseteq Objects
    PROVE  /\ DOMAIN Near(x, limit) = 0 .. limit
           /\ Near(x, limit)[0] = {x}
           /\ \A n \in 0 .. limit : Near(x, limit)[n] \subseteq Objects
           /\ \A n \in 1 .. limit : 
                 Near(x, limit)[n] = Near(x, limit)[n - 1]
                   \cup UNION {Related(y) \cap Propagating : y \in Near(x, limit)[n - 1]}
<1>1. PICK edges : edges = [y \in Objects |-> Related(y) \cap Propagating]
  OBVIOUS
<1>2. \A y \in Objects : edges[y] = Related(y) \cap Propagating
  BY <1>1
<1>3. \A y \in Objects : edges[y] \subseteq Objects
  BY <1>2 DEF Propagating
<1> DEFINE X == SUBSET Objects
           Wider(S) == S \cup UNION {edges[y] : y \in S}
           g == [p \in Nat \X X |-> Wider(p[2])]
<1>4. \A n \in Nat, S \in X : g[<<n, S>>] = Wider(S) /\ Wider(S) \in X
  <2> SUFFICES ASSUME NEW n \in Nat, NEW S \in X
               PROVE  g[<<n, S>>] = Wider(S) /\ Wider(S) \in X
    OBVIOUS
  <2>1. Wider(S) \in X
    BY <1>3
  <2>2. <<n, S>> \in Nat \X X /\ <<n, S>>[2] = S
    OBVIOUS
  <2> HIDE DEF Wider, X
  <2> QED BY <2>1, <2>2
<1> HIDE DEF Wider
<1>5. PICK f \in [0 .. limit -> X] : f[0] = {x} /\ \A n \in 1 .. limit : f[n] = g[<<n, f[n - 1]>>]
  <2>1. {x} \in X
    OBVIOUS
  <2>2. IsStepOn(g, X)
    BY <1>4 DEF IsStepOn
  <2> HIDE DEF X, g
  <2>3. PICK f \in [0 .. limit -> X] : Iterates(f, g, {x}, limit)
    BY ONLY <2>1, <2>2, limit \in Nat, IterationExists
  <2> QED BY <2>3 DEF Iterates
<1>6. \A n \in 1 .. limit : f[n] = Wider(f[n - 1])
  <2>1. \A n \in 1 .. limit : n \in Nat /\ f[n - 1] \in X
    BY <1>5
  <2> HIDE DEF g, X
  <2> QED BY <1>4, <1>5, <2>1
<1>7. f = [n \in 0 .. limit |-> IF n = 0 THEN {x} ELSE f[n - 1] \cup UNION {edges[y] : y \in f[n - 1]}]
  <2>1. \A n \in 0 .. limit : f[n] = IF n = 0 THEN {x} ELSE f[n - 1] \cup UNION {edges[y] : y \in f[n - 1]}
    BY <1>5, <1>6 DEF Wider
  <2> HIDE DEF X
  <2> QED BY <1>5, <2>1
<1> DEFINE near[n \in 0 .. limit] == IF n = 0 THEN {x} ELSE near[n - 1] \cup UNION {edges[y] : y \in near[n - 1]}
<1>8. near = [n \in 0 .. limit |-> IF n = 0 THEN {x} ELSE near[n - 1] \cup UNION {edges[y] : y \in near[n - 1]}]
  BY <1>7
<1>9. Near(x, limit) = near
  BY <1>1 DEF Near, Within
<1> HIDE DEF near
<1>10. PICK N : N = Near(x, limit)
  OBVIOUS
<1>11. N = [n \in 0 .. limit |-> IF n = 0 THEN {x} ELSE Wider(N[n - 1])]
  BY <1>8, <1>9, <1>10 DEF Wider
<1>12. DOMAIN N = 0 .. limit /\ N[0] = {x} /\ \A n \in 1 .. limit : N[n] = Wider(N[n - 1])
  <2>1. \A n \in 0 .. limit : N[n] = IF n = 0 THEN {x} ELSE Wider(N[n - 1])
    BY <1>11
  <2>2. 0 \in 0 .. limit /\ \A n \in 1 .. limit : n \in 0 .. limit /\ n # 0
    OBVIOUS
  <2> QED BY <1>11, <2>1, <2>2
<1>13. \A n \in 0 .. limit : N[n] \subseteq Objects
  <2> DEFINE Bad == {n \in 0 .. limit : ~ (N[n] \subseteq Objects)}
  <2> SUFFICES ASSUME Bad # {} PROVE FALSE
    OBVIOUS
  <2>1. PICK n \in Bad : \A j \in Bad : n <= j
    <3>1. Bad \subseteq Nat
      OBVIOUS
    <3> HIDE DEF Bad
    <3> QED BY <3>1, LeastExists
  <2>2. n # 0
    BY <1>12
  <2>3. n - 1 \in 0 .. limit /\ n - 1 \notin Bad /\ n \in 1 .. limit /\ n - 1 \in Nat
    BY <2>1, <2>2
  <2>4. N[n - 1] \in X /\ N[n] = Wider(N[n - 1])
    BY <1>12, <2>3
  <2>5. N[n] \in X
    <3> HIDE DEF X, g
    <3> QED BY <1>4, <2>3, <2>4
  <2> QED BY <2>5
<1>14. ASSUME NEW n \in 1 .. limit
       PROVE  N[n] = N[n - 1] \cup UNION {Related(y) \cap Propagating : y \in N[n - 1]}
  <2>1. N[n - 1] \subseteq Objects
    BY <1>13
  <2> QED BY <1>2, <1>12, <2>1 DEF Wider
<1> QED BY <1>10, <1>12, <1>13, <1>14

-----------------------------------------------------------------------------
(* A level: the lists of what is around each object of the frontier, one after
   the other, and of several entries for one object the first *)

\* The concatenation of two lists holds what either holds.
LEMMA ConcatHolds ==
    ASSUME NEW S, NEW s \in Seq(S), NEW t \in Seq(S)
    PROVE  s \o t \in Seq(S) /\ \A e : e \in ToSet(s \o t) <=> e \in ToSet(s) \/ e \in ToSet(t)
<1>1. /\ s \o t \in Seq(S) /\ Len(s \o t) = Len(s) + Len(t)
      /\ \A i \in 1 .. Len(s) : (s \o t)[i] = s[i]
      /\ \A i \in 1 .. Len(t) : (s \o t)[i + Len(s)] = t[i]
      /\ \A i \in 1 .. Len(s) + Len(t) : i \in 1 .. Len(s) \/ i - Len(s) \in 1 .. Len(t)
  OBVIOUS
<1>2. /\ DOMAIN s = 1 .. Len(s) /\ DOMAIN t = 1 .. Len(t) /\ DOMAIN (s \o t) = 1 .. Len(s) + Len(t)
      /\ Len(s) \in Nat /\ Len(t) \in Nat
  BY <1>1
<1>3. ASSUME NEW e, e \in ToSet(s \o t) PROVE e \in ToSet(s) \/ e \in ToSet(t)
  <2>1. PICK i \in 1 .. Len(s) + Len(t) : (s \o t)[i] = e
    BY <1>2, <1>3 DEF ToSet
  <2>2. CASE i \in 1 .. Len(s)
    BY <1>1, <1>2, <2>1, <2>2 DEF ToSet
  <2>3. CASE i - Len(s) \in 1 .. Len(t)
    <3>1. (i - Len(s)) + Len(s) = i
      BY <1>2
    <3>2. t[i - Len(s)] = e
      BY <1>1, <2>1, <2>3, <3>1
    <3> QED BY <1>2, <2>3, <3>2 DEF ToSet
  <2> QED BY <1>1, <2>2, <2>3
<1>4. ASSUME NEW e, e \in ToSet(s) PROVE e \in ToSet(s \o t)
  <2>1. PICK i \in 1 .. Len(s) : s[i] = e
    BY <1>2, <1>4 DEF ToSet
  <2>2. i \in 1 .. Len(s) + Len(t) /\ (s \o t)[i] = e
    BY <1>1, <1>2, <2>1
  <2> QED BY <1>2, <2>2 DEF ToSet
<1>5. ASSUME NEW e, e \in ToSet(t) PROVE e \in ToSet(s \o t)
  <2>1. PICK i \in 1 .. Len(t) : t[i] = e
    BY <1>2, <1>5 DEF ToSet
  <2>2. i + Len(s) \in 1 .. Len(s) + Len(t) /\ (s \o t)[i + Len(s)] = e
    BY <1>1, <1>2, <2>1
  <2> QED BY <1>2, <2>2 DEF ToSet
<1> QED BY <1>1, <1>3, <1>4, <1>5

\* The concatenation of a list of lists holds what they hold.
LEMMA FlattenIs ==
    ASSUME NEW S, NEW seqs \in Seq(Seq(S))
    PROVE  /\ FlattenSeq(seqs) \in Seq(S)
           /\ \A e : e \in ToSet(FlattenSeq(seqs)) <=> \E i \in DOMAIN seqs : e \in ToSet(seqs[i])
<1>1. PICK m : m = Len(seqs) /\ m \in Nat /\ DOMAIN seqs = 1 .. m
  OBVIOUS
<1>2. CASE m = 0
  <2>1. FlattenSeq(seqs) = <<>>
    BY <1>1, <1>2 DEF FlattenSeq
  <2> QED BY <1>1, <1>2, <2>1 DEF ToSet
<1>3. CASE m # 0
  <2> DEFINE X == Seq(S)
             g == [p \in Nat \X X |-> IF p[1] \in 1 .. m THEN p[2] \o seqs[p[1]] ELSE <<>>]
  <2>1. IsStepOn(g, X) /\ \A n \in 1 .. m, s \in X : g[<<n, s>>] = s \o seqs[n]
    <3>1. ASSUME NEW n \in Nat, NEW s \in X
          PROVE  g[<<n, s>>] \in X /\ (n \in 1 .. m => g[<<n, s>>] = s \o seqs[n])
      <4>1. g[<<n, s>>] = IF n \in 1 .. m THEN s \o seqs[n] ELSE <<>>
        OBVIOUS
      <4>2. CASE n \in 1 .. m
        <5>1. seqs[n] \in Seq(S)
          BY <1>1, <4>2
        <5>2. s \o seqs[n] \in Seq(S)
          BY <5>1
        <5> QED BY ONLY <4>1, <4>2, <5>2
      <4>3. CASE n \notin 1 .. m
        <5>1. <<>> \in X
          OBVIOUS
        <5> QED BY ONLY <4>1, <4>3, <5>1
      <4> QED BY <4>2, <4>3
    <3>2. \A n \in 1 .. m : n \in Nat
      BY <1>1
    <3> HIDE DEF g, X
    <3> QED BY <3>1, <3>2 DEF IsStepOn
  <2> HIDE DEF g
  <2>2. PICK f \in [0 .. m -> X] : Iterates(f, g, <<>>, m)
    <3>1. <<>> \in X
      OBVIOUS
    <3> HIDE DEF X
    <3> QED BY ONLY <1>1, <2>1, <3>1, IterationExists
  <2>3. /\ \A n \in 0 .. m : f[n] \in Seq(S)
        /\ f[0] = <<>>
        /\ \A n \in 1 .. m : f[n] = f[n - 1] \o seqs[n]
    <3>1. \A n \in 1 .. m : f[n - 1] \in X
      <4>1. \A n \in 1 .. m : n - 1 \in 0 .. m
        BY <1>1
      <4> HIDE DEF X
      <4> QED BY <2>2, <4>1
    <3> QED BY <1>1, <2>1, <2>2, <3>1 DEF Iterates
  <2> DEFINE F == [i \in 1 .. m |-> f[i]]
  <2>4. f[1] = seqs[1]
    <3>1. 1 \in 1 .. m /\ seqs[1] \in Seq(S)
      BY <1>1, <1>3
    <3>2. f[1] = f[1 - 1] \o seqs[1] /\ f[1 - 1] = <<>>
      <4>1. f[1] = f[1 - 1] \o seqs[1]
        BY ONLY <2>3, <3>1
      <4>2. 1 - 1 = 0
        OBVIOUS
      <4>3. f[1 - 1] = f[0]
        BY ONLY <4>2
      <4> QED BY ONLY <2>3, <4>1, <4>3
    <3>3. <<>> \o seqs[1] = seqs[1]
      BY <3>1
    <3> QED BY <3>2, <3>3
  <2>5. F = [i \in 1 .. m |-> IF i = 1 THEN seqs[i] ELSE F[i - 1] \o seqs[i]]
    <3>1. \A i \in 1 .. m : F[i] = IF i = 1 THEN seqs[i] ELSE F[i - 1] \o seqs[i]
      <4> TAKE i \in 1 .. m
      <4>1. CASE i = 1
        BY <2>4, <4>1
      <4>2. CASE i # 1
        <5>1. i - 1 \in 1 .. m
          BY <1>1, <4>2
        <5> QED BY <2>3, <4>2, <5>1
      <4> QED BY <4>1, <4>2
    <3> QED BY <3>1
  <2> DEFINE flatten[i \in 1 .. Len(seqs)] == IF i = 1 THEN seqs[i] ELSE flatten[i - 1] \o seqs[i]
  <2>6. flatten = [i \in 1 .. Len(seqs) |-> IF i = 1 THEN seqs[i] ELSE flatten[i - 1] \o seqs[i]]
    BY <1>1, <2>5
  <2>7. FlattenSeq(seqs) = flatten[m]
    BY <1>1, <1>3 DEF FlattenSeq
  <2> HIDE DEF flatten
  <2>8. PICK acc : acc = flatten
    OBVIOUS
  <2>9. /\ m \in 1 .. m /\ acc[1] = seqs[1] /\ FlattenSeq(seqs) = acc[m]
        /\ \A i \in 1 .. m : i # 1 => acc[i] = acc[i - 1] \o seqs[i]
    <3>1. m \in 1 .. m /\ 1 \in 1 .. m
      BY <1>1, <1>3
    <3>2. \A i \in 1 .. m : acc[i] = IF i = 1 THEN seqs[i] ELSE acc[i - 1] \o seqs[i]
      BY <1>1, <2>6, <2>8
    <3> QED BY <2>7, <2>8, <3>1, <3>2
  <2> DEFINE Good(i) == /\ acc[i] \in Seq(S)
                        /\ \A e : e \in ToSet(acc[i]) <=> \E j \in 1 .. i : e \in ToSet(seqs[j])
             Bad == {i \in 1 .. m : ~ Good(i)}
  <2>10. Bad = {}
    <3> SUFFICES ASSUME Bad # {} PROVE FALSE
      OBVIOUS
    <3>1. PICK i \in Bad : \A j \in Bad : i <= j
      <4>1. Bad \subseteq Nat
        BY <1>1
      <4> HIDE DEF Bad
      <4> QED BY <4>1, LeastExists
    <3>2. seqs[i] \in Seq(S) /\ i \in 1 .. m
      BY <1>1
    <3>3. i # 1
      <4> SUFFICES ASSUME i = 1 PROVE FALSE
        OBVIOUS
      <4>1. acc[i] = seqs[i] /\ \A j \in 1 .. i : j = i /\ i \in 1 .. i
        BY <2>9
      <4> QED BY <3>2, <4>1
    <3>4. i - 1 \in 1 .. m /\ i - 1 \notin Bad
      <4>1. i - 1 \in 1 .. m /\ i - 1 \in Int /\ i \in Int
        BY <1>1, <3>2, <3>3
      <4>2. ~ (i <= i - 1)
        BY <4>1
      <4> HIDE DEF Bad
      <4> QED BY <3>1, <4>1, <4>2
    <3>5. Good(i - 1)
      BY <3>4
    <3>6. acc[i] = acc[i - 1] \o seqs[i]
      BY <2>9, <3>2, <3>3
    <3>7. acc[i] \in Seq(S) /\ \A e : e \in ToSet(acc[i]) <=> e \in ToSet(acc[i - 1]) \/ e \in ToSet(seqs[i])
      BY <3>2, <3>5, <3>6, ConcatHolds
    <3>8. \A e : (\E j \in 1 .. i : e \in ToSet(seqs[j]))
                    <=> e \in ToSet(seqs[i]) \/ \E j \in 1 .. i - 1 : e \in ToSet(seqs[j])
      <4>1. i \in Nat /\ \A j : j \in 1 .. i <=> j = i \/ j \in 1 .. i - 1
        BY <1>1, <3>2
      <4> QED BY <4>1
    <3> QED BY <3>5, <3>7, <3>8
  <2>11. Good(m)
    BY <2>9, <2>10
  <2> QED BY <1>1, <2>9, <2>11
<1> QED BY <1>2, <1>3

\* The objects of the entries of a list.
Objs(s)  == {s[i].obj : i \in DOMAIN s}
Found    == [obj : Objects, via : Objects]
Listed   == [obj : Objects, via : Objects, depth : 1 .. 5]

\* The objects that one more relation reaches.
Beyond(x)  == Related(x) \cap Propagating
Around(S) == UNION {Beyond(y) : y \in S}

\* What the objects of a frontier have around them, and the objects of it.
AllFound(F, known) == FlattenSeq([i \in DOMAIN F |-> Expand(F[i].obj, known)])
Reached(found)     == {e.obj : e \in ToSet(found)}

\* Each object at most once.
Distinct(s) == \A i, j \in DOMAIN s : s[i].obj = s[j].obj => i = j

LEMMA BeyondIsObjects ==
    ASSUME NEW x
    PROVE  Beyond(x) \subseteq Objects
<1> QED BY DEF Beyond, Propagating

\* _expand_frontier: each new object around this one, once.
LEMMA ExpandIs ==
    ASSUME IsListing(order), NEW x \in Objects, NEW known
    PROVE  /\ Expand(x, known) \in Seq(Found)
           /\ Objs(Expand(x, known)) = Beyond(x) \ known
           /\ Distinct(Expand(x, known))
<1>1. PICK I : I = {i \in DOMAIN order : order[i] \in Beyond(x) \ known}
  OBVIOUS
<1>2. PICK list : list = Only(order, I)
  OBVIOUS
<1>3. order \in Seq(Objects) /\ I \subseteq DOMAIN order
  BY <1>1 DEF IsListing
<1>4. /\ list \in Seq(Objects)
      /\ \A n \in DOMAIN list : Nth(I, n) \in I /\ list[n] = order[Nth(I, n)]
      /\ \A n, m \in DOMAIN list : Nth(I, n) = Nth(I, m) => n = m
      /\ \A i \in I : \E n \in DOMAIN list : Nth(I, n) = i
  BY ONLY <1>2, <1>3, OnlyIs
<1>5. Expand(x, known) = [i \in DOMAIN list |-> [obj |-> list[i], via |-> x]]
  BY <1>1, <1>2 DEF Expand, Beyond
<1>6. PICK ex : ex = Expand(x, known)
  OBVIOUS
<1>7. DOMAIN ex = DOMAIN list /\ \A i \in DOMAIN list : ex[i] \in Found /\ ex[i].obj = list[i] /\ ex[i].via = x
  BY <1>4, <1>5, <1>6 DEF Found
<1>8. ex \in Seq(Found)
  <2>1. DOMAIN list = 1 .. Len(list) /\ Len(list) \in Nat
    BY <1>4
  <2>2. ex = [i \in 1 .. Len(list) |-> [obj |-> list[i], via |-> x]]
    BY <1>5, <1>6, <2>1
  <2>3. ex \in [1 .. Len(list) -> Found]
    BY <1>7, <2>1, <2>2
  <2> QED BY <2>1, <2>3
<1>9. ASSUME NEW y PROVE y \in Objs(ex) <=> y \in Beyond(x) \ known
  <2>1. ASSUME y \in Objs(ex) PROVE y \in Beyond(x) \ known
    <3>1. PICK n \in DOMAIN ex : ex[n].obj = y
      BY <2>1 DEF Objs
    <3>2. Nth(I, n) \in I /\ y = order[Nth(I, n)]
      BY <1>4, <1>7, <3>1
    <3> QED BY <1>1, <3>2
  <2>2. ASSUME y \in Beyond(x) \ known PROVE y \in Objs(ex)
    <3>1. y \in Objects
      BY <2>2, BeyondIsObjects
    <3>2. PICK i \in DOMAIN order : order[i] = y
      BY <3>1 DEF IsListing
    <3>3. i \in I
      BY <1>1, <2>2, <3>2
    <3>4. PICK n \in DOMAIN list : Nth(I, n) = i
      BY <1>4, <3>3
    <3> QED BY <1>4, <1>7, <3>2, <3>4 DEF Objs
  <2> QED BY <2>1, <2>2
<1>10. ASSUME NEW i \in DOMAIN ex, NEW j \in DOMAIN ex, ex[i].obj = ex[j].obj PROVE i = j
  <2>1. order[Nth(I, i)] = order[Nth(I, j)] /\ Nth(I, i) \in I /\ Nth(I, j) \in I
    BY <1>4, <1>7, <1>10
  <2>2. Nth(I, i) = Nth(I, j)
    BY <1>3, <2>1 DEF IsListing
  <2> QED BY <1>4, <1>7, <2>2
<1> QED BY <1>6, <1>8, <1>9, <1>10 DEF Distinct

\* Of the entries for an object one is kept.
LEMMA FirstOfEachIs ==
    ASSUME NEW entries \in Seq(Found)
    PROVE  /\ FirstOfEach(entries) \in Seq(Found)
           /\ Objs(FirstOfEach(entries)) = Objs(entries)
           /\ Distinct(FirstOfEach(entries))
<1>1. PICK I : I = {i \in DOMAIN entries : \A j \in 1 .. i - 1 : entries[j].obj # entries[i].obj}
  OBVIOUS
<1>2. PICK first : first = Only(entries, I)
  OBVIOUS
<1>3. entries \in Seq(Found) /\ I \subseteq DOMAIN entries
  BY <1>1
<1>4. /\ first \in Seq(Found)
      /\ \A n \in DOMAIN first : Nth(I, n) \in I /\ first[n] = entries[Nth(I, n)]
      /\ \A n, m \in DOMAIN first : Nth(I, n) = Nth(I, m) => n = m
      /\ \A i \in I : \E n \in DOMAIN first : Nth(I, n) = i
  BY ONLY <1>2, <1>3, OnlyIs
<1>5. DOMAIN entries = 1 .. Len(entries) /\ Len(entries) \in Nat
  OBVIOUS
<1>6. ASSUME NEW i \in I, NEW j \in I, entries[i].obj = entries[j].obj PROVE i = j
  <2>1. i \in Int /\ j \in Int /\ i >= 1 /\ j >= 1
    BY <1>3, <1>5
  <2>2. ~ (j \in 1 .. i - 1) /\ ~ (i \in 1 .. j - 1)
    BY <1>1, <1>6
  <2> QED BY <2>1, <2>2
<1>7. ASSUME NEW y, y \in Objs(entries) PROVE y \in Objs(first)
  <2> DEFINE T == {i \in DOMAIN entries : entries[i].obj = y}
  <2>1. T # {} /\ T \subseteq Nat
    BY <1>5, <1>7 DEF Objs
  <2>2. PICK i \in T : \A j \in T : i <= j
    <3> HIDE DEF T
    <3> QED BY <2>1, LeastExists
  <2>3. i \in DOMAIN entries /\ entries[i].obj = y /\ i \in Nat
    BY <2>1, <2>2
  <2>4. ASSUME NEW j \in 1 .. i - 1 PROVE entries[j].obj # y
    <3>1. j \in 1 .. Len(entries) /\ ~ (i <= j)
      BY <1>5, <2>3
    <3>2. j \notin T
      BY <2>2, <3>1
    <3> QED BY <1>5, <3>1, <3>2
  <2>5. i \in I
    BY <1>1, <2>3, <2>4
  <2>6. PICK n \in DOMAIN first : Nth(I, n) = i
    BY <1>4, <2>5
  <2> QED BY <1>4, <2>3, <2>6 DEF Objs
<1>8. ASSUME NEW y, y \in Objs(first) PROVE y \in Objs(entries)
  BY <1>3, <1>4, <1>8 DEF Objs
<1>9. Distinct(first)
  BY <1>4, <1>6 DEF Distinct
<1>10. first = FirstOfEach(entries)
  BY <1>1, <1>2 DEF FirstOfEach
<1> QED BY <1>4, <1>7, <1>8, <1>9, <1>10

\* The next level: what the objects of this one are related to and no level
\* before has.
LEMMA LevelFinds ==
    ASSUME IsListing(order), NEW front \in Seq(Found), NEW known,
           NEW found, found = AllFound(front, known)
    PROVE  /\ FirstOfEach(found) \in Seq(Found) /\ Distinct(FirstOfEach(found))
           /\ Objs(FirstOfEach(found)) = Around(Objs(front)) \ known
           /\ Reached(found) = Around(Objs(front)) \ known
<1>1. PICK lists : lists = [i \in DOMAIN front |-> Expand(front[i].obj, known)]
  OBVIOUS
<1>2. \A i \in DOMAIN front : front[i].obj \in Objects
  <2>1. \A i \in DOMAIN front : front[i] \in Found
    OBVIOUS
  <2>2. \A f \in Found : f.obj \in Objects
    BY DEF Found
  <2> QED BY <2>1, <2>2
<1>3. \A i \in DOMAIN front : /\ lists[i] \in Seq(Found)
                              /\ Objs(lists[i]) = Beyond(front[i].obj) \ known
  BY <1>1, <1>2, ExpandIs
<1>4. DOMAIN lists = DOMAIN front /\ lists \in Seq(Seq(Found))
  <2>1. DOMAIN front = 1 .. Len(front) /\ Len(front) \in Nat
    OBVIOUS
  <2>2. lists \in [1 .. Len(front) -> Seq(Found)]
    BY <1>1, <1>3, <2>1
  <2> QED BY <1>1, <2>1, <2>2
<1>5. /\ found \in Seq(Found)
      /\ \A e : e \in ToSet(found) <=> \E i \in DOMAIN lists : e \in ToSet(lists[i])
  <2>1. found = FlattenSeq(lists)
    BY <1>1 DEF AllFound
  <2> QED BY ONLY <1>4, <2>1, FlattenIs
<1>6. \A y : y \in Objs(found) <=> \E e \in ToSet(found) : e.obj = y
  BY DEF Objs, ToSet
<1>7. \A y : \A i \in DOMAIN front : y \in Objs(lists[i]) <=> \E e \in ToSet(lists[i]) : e.obj = y
  BY DEF Objs, ToSet
<1>8. \A y : y \in Objs(found) <=> \E i \in DOMAIN front : y \in Objs(lists[i])
  <2> TAKE y
  <2>1. y \in Objs(found) <=> \E e \in ToSet(found) : e.obj = y
    BY <1>6
  <2>2. (\E e \in ToSet(found) : e.obj = y) <=> \E i \in DOMAIN front : \E e \in ToSet(lists[i]) : e.obj = y
    BY <1>4, <1>5
  <2> QED BY <1>7, <2>1, <2>2
<1>9. \A y : y \in Objs(found) <=> y \in Around(Objs(front)) \ known
  <2>1. \A y : y \in Around(Objs(front)) <=> \E i \in DOMAIN front : y \in Beyond(front[i].obj)
    BY DEF Around, Objs
  <2>2. \A i \in DOMAIN front : \A y : y \in Objs(lists[i]) <=> y \in Beyond(front[i].obj) /\ y \notin known
    BY <1>3
  <2> QED BY ONLY <1>8, <2>1, <2>2
<1>10. Objs(found) = Around(Objs(front)) \ known /\ Reached(found) = Objs(found)
  BY <1>6, <1>9 DEF Reached
<1> QED BY <1>5, <1>10, FirstOfEachIs

\* The rings around an object: what one relation more reaches is in the next.
Rings(N, src, limit) ==
    /\ N[0] = {src}
    /\ \A n \in 0 .. limit : N[n] \subseteq Objects
    /\ \A n \in 1 .. limit : N[n] = N[n - 1] \cup Around(N[n - 1])

LEMMA NearRings ==
    ASSUME seen \subseteq Objects, NEW src \in Objects, NEW limit \in Nat
    PROVE  Rings(Near(src, limit), src, limit)
<1>1. /\ Near(src, limit)[0] = {src}
      /\ \A n \in 0 .. limit : Near(src, limit)[n] \subseteq Objects
      /\ \A n \in 1 .. limit :
            Near(src, limit)[n] = Near(src, limit)[n - 1]
               \cup UNION {Related(y) \cap Propagating : y \in Near(src, limit)[n - 1]}
  BY NearIs
<1>2. ASSUME NEW N, N = Near(src, limit) PROVE Rings(N, src, limit)
  BY <1>1, <1>2 DEF Rings, Around, Beyond
<1> QED BY <1>2

\* A ring that adds nothing is the last that does.
LEMMA RingsStop ==
    ASSUME NEW N, NEW src, NEW limit \in Nat, Rings(N, src, limit),
           NEW d \in 1 .. limit, N[d] = N[d - 1]
    PROVE  N[limit] = N[d - 1]
<1> DEFINE Bad == {n \in d .. limit : N[n] # N[d - 1]}
<1> SUFFICES ASSUME Bad # {} PROVE FALSE
  OBVIOUS
<1>1. PICK n \in Bad : \A m \in Bad : n <= m
  <2>1. Bad \subseteq Nat
    OBVIOUS
  <2> HIDE DEF Bad
  <2> QED BY <2>1, LeastExists
<1>2. n # d /\ n \in d .. limit
  OBVIOUS
<1>3. n - 1 \in d .. limit /\ n - 1 \notin Bad /\ n \in 1 .. limit
  BY <1>1, <1>2
<1>4. N[n - 1] = N[d - 1]
  BY <1>3
<1>5. N[n] = N[n - 1] \cup Around(N[n - 1]) /\ N[d] = N[d - 1] \cup Around(N[d - 1])
  BY <1>3 DEF Rings
<1> QED BY <1>4, <1>5

-----------------------------------------------------------------------------
(* The walk: N the rings around src, at depth d of limit, with A listed, F to
   list next and V visited *)

First(A) == {A[i].obj : i \in {j \in DOMAIN A : A[j].depth = 1}}
Deep(A)  == {A[i].obj : i \in {j \in DOMAIN A : A[j].depth # 1}}

WalkTyped(src, limit, d, A, F) ==
    /\ src \in Objects /\ limit \in 1 .. 5 /\ d \in 1 .. limit + 1
    /\ A \in Seq(Listed) /\ F \in Seq(Found)
    /\ \A i \in DOMAIN A : A[i].depth < d
    /\ d = limit + 1 => F = <<>>

\* What is listed is what the levels so far have, and the frontier is what the
\* next one adds, but for what is listed again.
Reaches(N, src, limit, d, A, F) ==
    /\ {src} \cup Objs(A) = N[d - 1]
    /\ src \notin Objs(A) /\ src \notin Objs(F)
    /\ d <= limit => N[d] = N[d - 1] \cup Objs(F)

\* The first level is listed but not visited.
Visits(src, d, A, F, V) ==
    /\ V = {src} \cup Deep(A) \cup (IF d = 1 THEN {} ELSE Objs(F))
    /\ Objs(F) \cap Deep(A) = {}

\* Each object is listed at its distance, and again only if its distance is one.
Once(A) == \A i, j \in DOMAIN A :
              A[i].obj = A[j].obj /\ (A[i].depth = 1 <=> A[j].depth = 1) => i = j
AtDistance(N, d, A, F) ==
    /\ \A i \in DOMAIN A :
          /\ A[i].obj \in N[A[i].depth]
          /\ A[i].obj \notin N[A[i].depth - 1] \/ (A[i].depth # 1 /\ A[i].obj \in First(A))
    /\ \A y \in Objs(F) : y \notin N[d - 1] \/ (d # 1 /\ y \in First(A))

Walk(N, src, limit, d, A, F, V) ==
    /\ WalkTyped(src, limit, d, A, F)
    /\ Reaches(N, src, limit, d, A, F)
    /\ Visits(src, d, A, F, V)
    /\ Distinct(F) /\ Once(A)
    /\ AtDistance(N, d, A, F)

\* The entries of a level.
IsLevel(T, F, d) ==
    /\ T = [i \in DOMAIN F |-> T[i]]
    /\ \A i \in DOMAIN F : T[i] = [obj |-> F[i].obj, via |-> F[i].via, depth |-> d]

\* The list is longer by the frontier.
Adds(B, A, F, d) ==
    /\ B \in Seq(Listed)
    /\ \A k \in DOMAIN A : k \in DOMAIN B /\ B[k] = A[k]
    /\ \A k \in DOMAIN F : k + Len(A) \in DOMAIN B /\ B[k + Len(A)].obj = F[k].obj
                                                /\ B[k + Len(A)].depth = d
    /\ \A k \in DOMAIN B : k \in DOMAIN A \/ k - Len(A) \in DOMAIN F

\* A level that is listed adds its objects at its depth.
LEMMA LevelListed ==
    ASSUME NEW A \in Seq(Listed), NEW F \in Seq(Found), NEW d \in 1 .. 5,
           NEW T, IsLevel(T, F, d), NEW B, B = A \o T
    PROVE  Adds(B, A, F, d)
<1>2. DOMAIN F = 1 .. Len(F) /\ Len(F) \in Nat /\ DOMAIN A = 1 .. Len(A) /\ Len(A) \in Nat
  OBVIOUS
<1>3. \A k \in DOMAIN F : T[k] \in Listed /\ T[k].obj = F[k].obj /\ T[k].depth = d
  <2>1. \A k \in DOMAIN F : F[k] \in Found
    OBVIOUS
  <2>2. \A f \in Found : [obj |-> f.obj, via |-> f.via, depth |-> d] \in Listed
    BY DEF Found, Listed
  <2> QED BY <2>1, <2>2 DEF IsLevel
<1>4. T \in Seq(Listed) /\ DOMAIN T = DOMAIN F
  <2>1. T \in [1 .. Len(F) -> Listed]
    BY <1>2, <1>3 DEF IsLevel
  <2>2. DOMAIN T = DOMAIN F
    BY DEF IsLevel
  <2>3. ASSUME NEW n \in Nat, T \in [1 .. n -> Listed] PROVE T \in Seq(Listed)
    BY ONLY <2>3
  <2> QED BY ONLY <1>2, <2>1, <2>2, <2>3
<1>5. Len(T) = Len(F)
  BY <1>2, <1>4
<1>6. /\ B \in Seq(Listed) /\ Len(B) = Len(A) + Len(T)
      /\ \A i \in 1 .. Len(A) : B[i] = A[i]
      /\ \A i \in 1 .. Len(T) : B[i + Len(A)] = T[i]
      /\ DOMAIN B = 1 .. Len(A) + Len(T)
  <2>1. B = A \o T
    OBVIOUS
  <2>2. A \in Seq(Listed)
    OBVIOUS
  <2> QED BY ONLY <1>4, <2>1, <2>2
<1>7. \A i \in 1 .. Len(A) + Len(T) : i \in 1 .. Len(A) \/ i - Len(A) \in 1 .. Len(T)
  BY <1>2, <1>5
<1>8. /\ \A i \in 1 .. Len(A) : i \in 1 .. Len(A) + Len(T)
      /\ \A i \in 1 .. Len(T) : i + Len(A) \in 1 .. Len(A) + Len(T)
  BY <1>2, <1>5
<1> QED BY <1>2, <1>3, <1>5, <1>6, <1>7, <1>8 DEF Adds

\* Seed: the walk begins.
LEMMA WalkBegins ==
    ASSUME IsListing(order), NEW src \in Objects, NEW limit \in 1 .. 5,
           NEW N, Rings(N, src, limit)
    PROVE  Walk(N, src, limit, 1, <<>>, Expand(src, {src}), {src})
<1>1. PICK F : F = Expand(src, {src})
  OBVIOUS
<1>2. F \in Seq(Found) /\ Objs(F) = Beyond(src) \ {src} /\ Distinct(F)
  BY <1>1, ExpandIs
<1>3. <<>> \in Seq(Listed) /\ DOMAIN <<>> = {}
  OBVIOUS
<1>4. Objs(<<>>) = {} /\ First(<<>>) = {} /\ Deep(<<>>) = {} /\ Once(<<>>)
  BY <1>3 DEF Objs, First, Deep, Once
<1>5. Around({src}) = Beyond(src)
  BY DEF Around
<1>6. 1 \in 1 .. limit /\ 1 - 1 = 0 /\ limit \in Nat
  OBVIOUS
<1>7. N[0] = {src} /\ N[1] = {src} \cup Beyond(src)
  BY <1>5, <1>6 DEF Rings
<1>8. WalkTyped(src, limit, 1, <<>>, F)
  BY <1>2, <1>3 DEF WalkTyped
<1>9. Reaches(N, src, limit, 1, <<>>, F)
  BY <1>2, <1>4, <1>6, <1>7 DEF Reaches
<1>10. Visits(src, 1, <<>>, F, {src})
  BY <1>4 DEF Visits
<1>11. AtDistance(N, 1, <<>>, F)
  <2>1. \A y \in Objs(F) : y \notin N[1 - 1]
    BY <1>2, <1>6, <1>7
  <2> QED BY ONLY <1>3, <2>1 DEF AtDistance
<1> QED BY <1>1, <1>2, <1>4, <1>8, <1>9, <1>10, <1>11 DEF Walk

\* Level: the list afterwards, and what the next level is chosen from.
Longer(A, F, d) ==
    A \o [i \in DOMAIN F |-> [obj |-> F[i].obj, via |-> F[i].via, depth |-> d]]
NextFound(F, V, d, limit) ==
    IF d < limit THEN AllFound(F, V) ELSE <<>>

\* The walk goes on.
LEMMA WalkGoesOn ==
    ASSUME IsListing(order), NEW src, NEW limit, NEW d, NEW A, NEW F, NEW V, NEW N,
           Rings(N, src, limit), Walk(N, src, limit, d, A, F, V), F # <<>>,
           NEW B, B = Longer(A, F, d), NEW found, found = NextFound(F, V, d, limit)
    PROVE  Walk(N, src, limit, d + 1, B, FirstOfEach(found), V \cup Reached(found))
<1>1. PICK G : G = FirstOfEach(found)
  OBVIOUS
<1>2. WalkTyped(src, limit, d, A, F) /\ Reaches(N, src, limit, d, A, F) /\ Visits(src, d, A, F, V)
  BY DEF Walk
<1>3. /\ src \in Objects /\ limit \in 1 .. 5 /\ d \in 1 .. limit
      /\ d \in 1 .. 5 /\ d + 1 \in 1 .. limit + 1 /\ (d + 1) - 1 = d
      /\ A \in Seq(Listed) /\ F \in Seq(Found)
      /\ \A i \in DOMAIN A : A[i].depth \in 1 .. 5 /\ A[i].depth < d
  <2>1. \A i \in DOMAIN A : A[i].depth \in 1 .. 5
    <3>1. A \in Seq(Listed)
      BY <1>2 DEF WalkTyped
    <3>2. \A i \in DOMAIN A : A[i] \in Listed
      BY <3>1
    <3> QED BY <3>2 DEF Listed
  <2> QED BY <1>2, <2>1 DEF WalkTyped
<1>4. /\ B \in Seq(Listed)
      /\ \A k \in DOMAIN A : k \in DOMAIN B /\ B[k] = A[k]
      /\ \A k \in DOMAIN F : k + Len(A) \in DOMAIN B /\ B[k + Len(A)].obj = F[k].obj
                                                  /\ B[k + Len(A)].depth = d
      /\ \A k \in DOMAIN B : k \in DOMAIN A \/ k - Len(A) \in DOMAIN F
  <2>1. A \in Seq(Listed) /\ F \in Seq(Found) /\ d \in 1 .. 5
    BY <1>3
  <2>2. PICK T : T = [i \in DOMAIN F |-> [obj |-> F[i].obj, via |-> F[i].via, depth |-> d]]
    OBVIOUS
  <2>3. IsLevel(T, F, d) /\ B = A \o T
    BY <2>2 DEF IsLevel, Longer
  <2>4. Adds(B, A, F, d)
    BY ONLY <2>1, <2>3, LevelListed
  <2> QED BY ONLY <2>4 DEF Adds
<1>5. \A k \in DOMAIN B :
         \/ k \in DOMAIN A /\ B[k] = A[k]
         \/ k - Len(A) \in DOMAIN F /\ B[k].obj = F[k - Len(A)].obj /\ B[k].depth = d
  <2>1. DOMAIN B \subseteq Int /\ Len(A) \in Int
    BY <1>3, <1>4
  <2>2. \A k \in DOMAIN B : (k - Len(A)) + Len(A) = k
    BY <2>1
  <2> QED BY <1>4, <2>2
<1>6. Objs(B) = Objs(A) \cup Objs(F)
  <2>1. ASSUME NEW y, y \in Objs(B) PROVE y \in Objs(A) \cup Objs(F)
    BY <1>5, <2>1 DEF Objs
  <2>2. ASSUME NEW y, y \in Objs(A) PROVE y \in Objs(B)
    BY <1>4, <2>2 DEF Objs
  <2>3. ASSUME NEW y, y \in Objs(F) PROVE y \in Objs(B)
    <3>1. PICK k \in DOMAIN F : F[k].obj = y
      BY <2>3 DEF Objs
    <3>2. k + Len(A) \in DOMAIN B /\ B[k + Len(A)].obj = y
      BY <1>4, <3>1
    <3> QED BY <3>2 DEF Objs
  <2> QED BY <2>1, <2>2, <2>3
<1>7. /\ First(B) = First(A) \cup (IF d = 1 THEN Objs(F) ELSE {})
      /\ Deep(B) = Deep(A) \cup (IF d = 1 THEN {} ELSE Objs(F))
  <2>1. ASSUME NEW y, y \in First(B) PROVE y \in First(A) \/ (d = 1 /\ y \in Objs(F))
    <3>1. PICK k \in DOMAIN B : B[k].depth = 1 /\ B[k].obj = y
      BY <2>1 DEF First
    <3> QED BY <1>5, <3>1 DEF First, Objs
  <2>2. ASSUME NEW y, y \in Deep(B) PROVE y \in Deep(A) \/ (d # 1 /\ y \in Objs(F))
    <3>1. PICK k \in DOMAIN B : B[k].depth # 1 /\ B[k].obj = y
      BY <2>2 DEF Deep
    <3> QED BY <1>5, <3>1 DEF Deep, Objs
  <2>3. First(A) \subseteq First(B) /\ Deep(A) \subseteq Deep(B)
    BY <1>4 DEF First, Deep
  <2>4. ASSUME NEW y \in Objs(F) PROVE IF d = 1 THEN y \in First(B) ELSE y \in Deep(B)
    <3>1. PICK k \in DOMAIN F : F[k].obj = y
      BY DEF Objs
    <3>2. k + Len(A) \in DOMAIN B /\ B[k + Len(A)].obj = y /\ B[k + Len(A)].depth = d
      BY <1>4, <3>1
    <3> QED BY <3>2 DEF First, Deep
  <2> HIDE DEF First, Deep, Objs
  <2> QED BY <2>1, <2>2, <2>3, <2>4
<1>8. /\ G \in Seq(Found) /\ Distinct(G)
      /\ Objs(G) = IF d < limit THEN Around(Objs(F)) \ V ELSE {}
      /\ Reached(found) = Objs(G)
      /\ d >= limit => G = <<>>
  <2>1. CASE d < limit
    <3>1. found = AllFound(F, V) /\ F \in Seq(Found)
      BY <1>3, <2>1 DEF NextFound
    <3>2. /\ G \in Seq(Found) /\ Distinct(G) /\ Objs(G) = Around(Objs(F)) \ V
          /\ Reached(found) = Around(Objs(F)) \ V
      BY ONLY <1>1, <3>1, LevelFinds, IsListing(order)
    <3>3. ~ (d >= limit)
      BY <1>3, <2>1
    <3> QED BY ONLY <2>1, <3>2, <3>3
  <2>2. CASE ~ (d < limit)
    <3>1. found = <<>> /\ <<>> \in Seq(Found) /\ DOMAIN <<>> = {}
      BY <2>2 DEF NextFound
    <3>2. G \in Seq(Found) /\ Distinct(G) /\ Objs(G) = {}
      <4>1. found \in Seq(Found)
        BY <3>1
      <4>2. G \in Seq(Found) /\ Distinct(G) /\ Objs(G) = Objs(found)
        BY ONLY <1>1, <4>1, FirstOfEachIs
      <4>3. Objs(found) = {}
        BY ONLY <3>1 DEF Objs
      <4> QED BY <4>2, <4>3
    <3>3. DOMAIN G = {}
      BY <3>2 DEF Objs
    <3>4. G = <<>>
      BY <3>2, <3>3
    <3>5. Reached(found) = {}
      BY <3>1 DEF Reached, ToSet
    <3> QED BY ONLY <2>2, <3>2, <3>4, <3>5
  <2> QED BY <2>1, <2>2
<1>9. N[d] = N[d - 1] \cup Objs(F) /\ N[d] = {src} \cup Objs(B)
  BY <1>2, <1>3, <1>6 DEF Reaches
<1>10. src \in V /\ src \notin Objs(B) /\ src \notin Objs(G)
  BY <1>2, <1>6, <1>8 DEF Reaches, Visits
<1>11. V = {src} \cup Deep(B) /\ V \subseteq N[d]
  <2>1. V = {src} \cup Deep(B)
    BY <1>2, <1>7 DEF Visits
  <2>2. Deep(B) \subseteq Objs(B)
    BY DEF Deep, Objs
  <2> QED BY <1>9, <2>1, <2>2
<1>12. d + 1 <= limit => N[d + 1] = N[d] \cup Objs(G)
  <2> SUFFICES ASSUME d + 1 <= limit PROVE N[d + 1] = N[d] \cup Objs(G)
    OBVIOUS
  <2>1. d < limit /\ d + 1 \in 1 .. limit
    BY <1>3
  <2>2. N[d + 1] = N[d] \cup Around(N[d])
    BY <1>3, <2>1 DEF Rings
  <2>3. N[d] = N[d - 1] \cup Around(N[d - 1])
    BY <1>3 DEF Rings
  <2>4. Objs(G) = Around(Objs(F)) \ V
    BY <1>8, <2>1
  <2>5. Around(N[d]) = Around(N[d - 1]) \cup Around(Objs(F))
    BY <1>9 DEF Around
  <2> QED BY <1>11, <2>2, <2>3, <2>4, <2>5
<1>13. WalkTyped(src, limit, d + 1, B, G)
  <2>1. \A k \in DOMAIN B : B[k].depth < d + 1
    <3> TAKE k \in DOMAIN B
    <3>1. CASE k \in DOMAIN A /\ B[k] = A[k]
      <4>1. A[k].depth \in 1 .. 5 /\ A[k].depth < d /\ d \in 1 .. 5
        BY ONLY <1>3, <3>1
      <4> QED BY <3>1, <4>1
    <3>2. CASE B[k].depth = d
      BY <1>3, <3>2
    <3> QED BY <1>5, <3>1, <3>2
  <2>2. d + 1 = limit + 1 => G = <<>>
    BY <1>3, <1>8
  <2> QED BY <1>3, <1>4, <1>8, <2>1, <2>2 DEF WalkTyped
<1>14. Reaches(N, src, limit, d + 1, B, G)
  BY <1>3, <1>9, <1>10, <1>12 DEF Reaches
<1>15. Visits(src, d + 1, B, G, V \cup Objs(G))
  <2>1. d + 1 # 1
    BY <1>3
  <2>2. Objs(G) \cap V = {}
    BY <1>8
  <2> QED BY <1>11, <2>1, <2>2 DEF Visits
<1>16. Once(B)
  <2> SUFFICES ASSUME NEW i \in DOMAIN B, NEW j \in DOMAIN B, B[i].obj = B[j].obj,
                      B[i].depth = 1 <=> B[j].depth = 1
               PROVE  i = j
    BY DEF Once
  <2>0. i \in Int /\ j \in Int /\ Len(A) \in Int
    BY <1>3, <1>4
  <2>1. CASE i \in DOMAIN A /\ B[i] = A[i] /\ j \in DOMAIN A /\ B[j] = A[j]
    BY <2>1 DEF Walk, Once
  <2>2. CASE /\ i - Len(A) \in DOMAIN F /\ B[i].obj = F[i - Len(A)].obj
             /\ j - Len(A) \in DOMAIN F /\ B[j].obj = F[j - Len(A)].obj
    <3>1. i - Len(A) = j - Len(A)
      BY <2>2 DEF Walk, Distinct
    <3> QED BY <2>0, <3>1
  <2>3. ASSUME NEW k \in DOMAIN A, NEW m \in DOMAIN F, A[k].obj = F[m].obj,
               A[k].depth = 1 <=> d = 1
        PROVE  FALSE
    <3>1. A[k].depth # 1
      BY <1>3, <2>3
    <3>2. A[k].obj \in Deep(A) /\ F[m].obj \in Objs(F)
      BY <3>1 DEF Deep, Objs
    <3> QED BY <1>2, <2>3, <3>2 DEF Visits
  <2> QED BY <1>5, <2>1, <2>2, <2>3
<1>17. AtDistance(N, d + 1, B, G)
  <2>1. First(A) \subseteq First(B)
    BY <1>7
  <2>2. ASSUME NEW k \in DOMAIN A
        PROVE  /\ A[k].obj \in N[A[k].depth]
               /\ A[k].obj \notin N[A[k].depth - 1] \/ (A[k].depth # 1 /\ A[k].obj \in First(B))
    BY <2>1 DEF Walk, AtDistance
  <2>3. ASSUME NEW k \in DOMAIN F
        PROVE  /\ F[k].obj \in N[d]
               /\ F[k].obj \notin N[d - 1] \/ (d # 1 /\ F[k].obj \in First(B))
    <3>1. F[k].obj \in Objs(F)
      BY DEF Objs
    <3> QED BY <1>9, <2>1, <3>1 DEF Walk, AtDistance
  <2>4. ASSUME NEW k \in DOMAIN B
        PROVE  /\ B[k].obj \in N[B[k].depth]
               /\ B[k].obj \notin N[B[k].depth - 1] \/ (B[k].depth # 1 /\ B[k].obj \in First(B))
    BY <1>5, <2>2, <2>3
  <2>5. ASSUME NEW y \in Objs(G) PROVE y \notin N[d] \/ y \in First(B)
    <3>1. y # src /\ y \notin Deep(B)
      BY <1>8, <1>10, <1>11
    <3>2. Objs(B) = First(B) \cup Deep(B)
      BY DEF Objs, First, Deep
    <3> QED BY <1>9, <3>1, <3>2
  <2>6. d + 1 # 1 /\ N[(d + 1) - 1] = N[d]
    BY <1>3
  <2> QED BY ONLY <2>4, <2>5, <2>6 DEF AtDistance
<1> QED BY <1>1, <1>8, <1>13, <1>14, <1>15, <1>16, <1>17 DEF Walk

\* The end of the walk: what is listed is what the limit reaches.
LEMMA WalkEnds ==
    ASSUME NEW src, NEW limit, NEW d, NEW A, NEW V, NEW N,
           Rings(N, src, limit), Walk(N, src, limit, d, A, <<>>, V)
    PROVE  Objs(A) = N[limit] \ {src}
<1>1. /\ limit \in 1 .. 5 /\ d \in 1 .. limit + 1 /\ {src} \cup Objs(A) = N[d - 1] /\ src \notin Objs(A)
      /\ d <= limit => N[d] = N[d - 1] \cup Objs(<<>>)
  BY DEF Walk, WalkTyped, Reaches
<1>2. N[limit] = N[d - 1]
  <2>1. CASE d = limit + 1
    <3>1. d - 1 = limit
      BY <1>1, <2>1
    <3> QED BY <3>1
  <2>2. CASE d \in 1 .. limit
    <3>1. Objs(<<>>) = {}
      BY DEF Objs
    <3>2. d <= limit /\ limit \in Nat
      BY <1>1, <2>2
    <3>3. N[d] = N[d - 1]
      BY <1>1, <3>1, <3>2
    <3> QED BY ONLY <2>2, <3>2, <3>3, RingsStop, Rings(N, src, limit)
  <2> QED BY <1>1, <2>1, <2>2
<1> QED BY <1>1, <1>2

-----------------------------------------------------------------------------
(* The report: what is listed, and at which depths *)

LEMMA LeastIs ==
    ASSUME NEW S \in SUBSET Int, NEW m \in S, \A n \in S : m <= n
    PROVE  Min(S) = m
<1>1. Min(S) \in S /\ \A n \in S : Min(S) <= n
  BY DEF Min
<1>2. Min(S) <= m /\ m <= Min(S) /\ Min(S) \in Int /\ m \in Int
  BY <1>1
<1> QED BY <1>2

\* The depths at which an object is listed.
Depths(L, x) == {L[i].depth : i \in {j \in DOMAIN L : L[j].obj = x}}

\* What ReachExactly says of the list L.
ListsExactly(N, src, limit, L) ==
    /\ Objs(L) = N[limit] \ {src}
    /\ \A i, j \in DOMAIN L : L[i].obj = L[j].obj /\ L[i].depth = L[j].depth => i = j
    /\ \A i \in DOMAIN L :
          /\ L[i].obj \in N[Min(Depths(L, L[i].obj))] \ N[Min(Depths(L, L[i].obj)) - 1]
          /\ Depths(L, L[i].obj) = {L[i].depth}
                \/ (1 \in Depths(L, L[i].obj) /\ Cardinality(Depths(L, L[i].obj)) = 2)

LEMMA WalkListsExactly ==
    ASSUME NEW src, NEW limit, NEW d, NEW L, NEW V, NEW N,
           Rings(N, src, limit), Walk(N, src, limit, d, L, <<>>, V)
    PROVE  ListsExactly(N, src, limit, L)
<1>1. Objs(L) = N[limit] \ {src}
  BY WalkEnds
<1>2. /\ Once(L)
      /\ \A i \in DOMAIN L :
          /\ L[i].obj \in N[L[i].depth]
          /\ L[i].obj \notin N[L[i].depth - 1] \/ (L[i].depth # 1 /\ L[i].obj \in First(L))
  BY DEF Walk, AtDistance
<1>3. \A i \in DOMAIN L : L[i].depth \in 1 .. 5
  <2>1. L \in Seq(Listed)
    BY DEF Walk, WalkTyped
  <2>2. \A i \in DOMAIN L : L[i] \in Listed
    BY <2>1
  <2> QED BY <2>2 DEF Listed
<1>4. \A i, j \in DOMAIN L : L[i].obj = L[j].obj /\ L[i].depth = L[j].depth => i = j
  BY <1>2 DEF Once
<1>5. ASSUME NEW i \in DOMAIN L
      PROVE  /\ L[i].obj \in N[Min(Depths(L, L[i].obj))] \ N[Min(Depths(L, L[i].obj)) - 1]
             /\ Depths(L, L[i].obj) = {L[i].depth}
                   \/ (1 \in Depths(L, L[i].obj) /\ Cardinality(Depths(L, L[i].obj)) = 2)
  <2>1. PICK x, D : x = L[i].obj /\ D = Depths(L, x)
    OBVIOUS
  <2>2. /\ L[i].depth \in D /\ D \subseteq 1 .. 5
        /\ \A n \in D : \E j \in DOMAIN L : L[j].obj = x /\ L[j].depth = n
        /\ \A j \in DOMAIN L : L[j].obj = x => L[j].depth \in D
    BY <1>3, <2>1 DEF Depths
  <2>3. \A m, n \in D : (m = 1 <=> n = 1) => m = n
    BY <1>2, <2>2 DEF Once
  <2>4. CASE 1 \in D
    <3>1. D \in SUBSET Int /\ \A n \in D : 1 <= n
      BY <2>2
    <3>2. Min(D) = 1
      BY ONLY <2>4, <3>1, LeastIs
    <3>3. PICK j \in DOMAIN L : L[j].obj = x /\ L[j].depth = 1
      BY <2>2, <2>4
    <3>4. x \in N[1] \ N[1 - 1]
      <4>1. L[j].obj \in N[L[j].depth] /\ L[j].obj \notin N[L[j].depth - 1]
        BY <1>2, <3>3
      <4> QED BY <3>3, <4>1
    <3>5. CASE D = {L[i].depth}
      BY <2>1, <3>2, <3>4, <3>5
    <3>6. CASE D # {L[i].depth}
      <4>1. PICK n \in D : n # L[i].depth
        BY <2>2, <3>6
      <4>2. PICK m \in D : m # 1
        BY <2>2, <4>1
      <4>3. D = {1, m}
        BY <2>3, <2>4, <4>2
      <4>4. Cardinality({1, m}) = 2
        <5>1. IsFiniteSet({1}) /\ Cardinality({1}) = 1 /\ m \notin {1}
          BY <4>2, FS_Singleton
        <5>2. Cardinality({1} \cup {m}) = Cardinality({1}) + 1
          BY ONLY <5>1, FS_AddElement
        <5>3. {1} \cup {m} = {1, m}
          OBVIOUS
        <5>4. Cardinality({1} \cup {m}) = 2
          BY ONLY <5>1, <5>2
        <5> QED BY ONLY <5>3, <5>4
      <4>5. x \in N[Min(D)] \ N[Min(D) - 1] /\ 1 \in D /\ Cardinality(D) = 2
        BY ONLY <2>4, <3>2, <3>4, <4>3, <4>4
      <4> QED BY ONLY <2>1, <4>5
    <3> QED BY <3>5, <3>6
  <2>5. CASE 1 \notin D
    <3>1. D = {L[i].depth}
      BY <2>2, <2>3, <2>5
    <3>2. Min(D) = L[i].depth
      <4>1. D \in SUBSET Int /\ L[i].depth \in D /\ \A n \in D : L[i].depth <= n
        BY <2>2, <3>1
      <4> QED BY ONLY <4>1, LeastIs
    <3>3. x \notin First(L)
      BY <2>2, <2>5 DEF First
    <3>4. x \in N[L[i].depth] \ N[L[i].depth - 1]
      BY <1>2, <2>1, <3>3
    <3> QED BY <2>1, <3>1, <3>2, <3>4
  <2> QED BY <2>4, <2>5
<1> QED BY ONLY <1>1, <1>4, <1>5 DEF ListsExactly

-----------------------------------------------------------------------------
(* The verdict: inherited risk *)

LEMMA OwnRiskRange ==
    ASSUME NEW x
    PROVE  OwnRisk(x) \in 0 .. 4
<1>1. IntrinsicRisk(x) \in 0 .. 4
  BY DEF IntrinsicRisk
<1>2. Cardinality(Boosts(x)) \in Nat
  <2>1. Boosts(x) \in SUBSET {"notification", "heartbeat", "kpi"}
    BY DEF Boosts
  <2>2. IsFiniteSet({"notification", "heartbeat", "kpi"})
    <3>1. IsFiniteSet({}) /\ IsFiniteSet({} \cup {"notification"})
      BY FS_EmptySet, FS_AddElement
    <3>2. IsFiniteSet(({} \cup {"notification"}) \cup {"heartbeat"})
      BY ONLY <3>1, FS_AddElement
    <3>3. IsFiniteSet((({} \cup {"notification"}) \cup {"heartbeat"}) \cup {"kpi"})
      BY ONLY <3>2, FS_AddElement
    <3>4. (({} \cup {"notification"}) \cup {"heartbeat"}) \cup {"kpi"} = {"notification", "heartbeat", "kpi"}
      OBVIOUS
    <3> QED BY ONLY <3>3, <3>4
  <2>3. IsFiniteSet(Boosts(x))
    BY ONLY <2>1, <2>2, FS_Subset
  <2> QED BY ONLY <2>3, FS_CardinalityType
<1> QED BY ONLY <1>1, <1>2 DEF OwnRisk

LEMMA HighestRisk ==
    ASSUME NEW S \in SUBSET (-1 .. 4), S # {}
    PROVE  Max(S) \in S /\ \A n \in S : n <= Max(S)
<1>1. \E m \in S : \A n \in S : n <= m
  <2> DEFINE T == {4 - n : n \in S}
  <2>1. T \subseteq Nat /\ T # {}
    <3>1. \A n \in S : n \in -1 .. 4 /\ 4 - n \in Nat
      OBVIOUS
    <3>2. PICK n \in S : TRUE
      OBVIOUS
    <3>3. 4 - n \in T
      OBVIOUS
    <3> QED BY <3>1, <3>3
  <2>2. PICK t \in T : \A u \in T : t <= u
    <3> HIDE DEF T
    <3> QED BY <2>1, LeastExists
  <2>3. PICK m \in S : t = 4 - m
    OBVIOUS
  <2>4. ASSUME NEW n \in S PROVE n <= m
    <3>1. 4 - m <= 4 - n
      BY <2>2, <2>3
    <3> QED BY <3>1
  <2> QED BY <2>4
<1>2. \E m \in S : \A n \in S : m >= n
  <2>1. PICK m \in S : \A n \in S : n <= m
    BY <1>1
  <2>2. \A n \in S : m >= n
    BY <2>1
  <2> QED BY <2>2
<1>3. Max(S) \in S /\ \A n \in S : Max(S) >= n
  BY ONLY <1>2 DEF Max
<1> QED BY <1>3

\* The entries found through this one, and what they and its own risk make.
Children(A, i) == {j \in DOMAIN A : A[j].depth = A[i].depth + 1 /\ A[j].via = A[i].obj}
Inherits(A, f, i) == Max({OwnRisk(A[i].obj)} \cup {f[j] - 1 : j \in Children(A, i)})

LEMMA InheritsIs ==
    ASSUME NEW A, NEW f \in [DOMAIN A -> 0 .. 4], NEW i \in DOMAIN A
    PROVE  /\ Inherits(A, f, i) \in 0 .. 4
           /\ OwnRisk(A[i].obj) <= Inherits(A, f, i)
           /\ \/ Inherits(A, f, i) = OwnRisk(A[i].obj)
              \/ \E j \in Children(A, i) : Inherits(A, f, i) = f[j] - 1
<1>1. PICK own : own = OwnRisk(A[i].obj) /\ own \in 0 .. 4
  BY OwnRiskRange
<1>2. PICK S : S = {own} \cup {f[j] - 1 : j \in Children(A, i)}
  OBVIOUS
<1>3. \A j \in Children(A, i) : f[j] \in 0 .. 4
  BY DEF Children
<1>4. S \in SUBSET (-1 .. 4) /\ own \in S /\ S # {}
  <2>1. \A j \in Children(A, i) : f[j] - 1 \in -1 .. 4
    BY <1>3
  <2>2. own \in -1 .. 4
    BY <1>1
  <2> QED BY ONLY <1>2, <2>1, <2>2
<1>5. Max(S) \in S /\ own <= Max(S)
  BY ONLY <1>4, HighestRisk
<1>6. Inherits(A, f, i) = Max(S)
  BY <1>1, <1>2 DEF Inherits
<1>7. Max(S) = own \/ \E j \in Children(A, i) : Max(S) = f[j] - 1
  BY ONLY <1>2, <1>5
<1>8. Max(S) \in 0 .. 4
  <2>1. Max(S) \in -1 .. 4 /\ own \in 0 .. 4
    BY ONLY <1>1, <1>4, <1>5
  <2> QED BY ONLY <1>5, <2>1
<1> QED BY ONLY <1>1, <1>5, <1>6, <1>7, <1>8

\* The definition of the inherited risk defines something: the deepest entries
\* inherit nothing, and every entry from deeper ones.
LEMMA RiskExists ==
    ASSUME NEW A, \A i \in DOMAIN A : A[i].depth \in 1 .. 5
    PROVE  \E f \in [DOMAIN A -> 0 .. 4] : f = [i \in DOMAIN A |-> Inherits(A, f, i)]
<1> DEFINE X == [DOMAIN A -> 0 .. 4]
           Inherited(f) == [i \in DOMAIN A |-> Inherits(A, f, i)]
           g == [p \in Nat \X X |-> Inherited(p[2])]
<1>1. \A f \in X : Inherited(f) \in X
  BY InheritsIs
<1>2. \A n \in Nat, f \in X : g[<<n, f>>] = Inherited(f) /\ g[<<n, f>>] \in X
  <2> SUFFICES ASSUME NEW n \in Nat, NEW f \in X PROVE g[<<n, f>>] = Inherited(f)
    BY <1>1
  <2>1. <<n, f>> \in Nat \X X /\ <<n, f>>[2] = f
    OBVIOUS
  <2> HIDE DEF Inherited, X
  <2> QED BY <2>1
<1>3. [i \in DOMAIN A |-> 0] \in X
  OBVIOUS
<1>4. PICK F \in [0 .. 6 -> X] : \A n \in 1 .. 6 : F[n] = Inherited(F[n - 1])
  <2> HIDE DEF g, X, Inherited
  <2>1. IsStepOn(g, X)
    BY <1>2 DEF IsStepOn
  <2>2. PICK F \in [0 .. 6 -> X] : Iterates(F, g, [i \in DOMAIN A |-> 0], 6)
    BY <1>3, <2>1, IterationExists
  <2>3. \A n \in 1 .. 6 : n \in Nat /\ n - 1 \in 0 .. 6
    OBVIOUS
  <2> QED BY <1>2, <2>2, <2>3 DEF Iterates
<1> DEFINE Settled(k) == \A i \in DOMAIN A : A[i].depth >= 6 - k => F[k + 1][i] = F[k][i]
<1>5. Settled(0)
  OBVIOUS
<1>6. ASSUME NEW k \in 1 .. 5, Settled(k - 1) PROVE Settled(k)
  <2> SUFFICES ASSUME NEW i \in DOMAIN A, A[i].depth >= 6 - k PROVE F[k + 1][i] = F[k][i]
    OBVIOUS
  <2>1. k + 1 \in 1 .. 6 /\ (k + 1) - 1 = k /\ k \in 1 .. 6 /\ (k - 1) + 1 = k
    OBVIOUS
  <2>2. F[k + 1][i] = Inherits(A, F[k], i) /\ F[k][i] = Inherits(A, F[k - 1], i)
    <3> HIDE DEF X
    <3> QED BY <1>4, <2>1
  <2>3. \A j \in Children(A, i) : F[k][j] = F[k - 1][j]
    <3> TAKE j \in Children(A, i)
    <3>1. j \in DOMAIN A /\ A[j].depth = A[i].depth + 1 /\ A[i].depth \in 1 .. 5
      BY DEF Children
    <3>2. A[j].depth >= 6 - (k - 1)
      BY <2>1, <3>1
    <3>3. F[(k - 1) + 1][j] = F[k - 1][j]
      BY <1>6, <3>1, <3>2
    <3> QED BY <2>1, <3>3
  <2>4. {F[k][j] - 1 : j \in Children(A, i)} = {F[k - 1][j] - 1 : j \in Children(A, i)}
    BY <2>3
  <2> QED BY <2>2, <2>4 DEF Inherits
<1>7. Settled(5)
  <2> HIDE DEF Settled
  <2>1. \A k \in 1 .. 5 : Settled(k - 1) => Settled(k)
    BY <1>6
  <2>2. Settled(1)
    <3>1. 1 - 1 = 0 /\ 1 \in 1 .. 5
      OBVIOUS
    <3> QED BY <1>5, <2>1, <3>1
  <2>3. Settled(2)
    <3>1. 2 - 1 = 1 /\ 2 \in 1 .. 5
      OBVIOUS
    <3> QED BY <2>1, <2>2, <3>1
  <2>4. Settled(3)
    <3>1. 3 - 1 = 2 /\ 3 \in 1 .. 5
      OBVIOUS
    <3> QED BY <2>1, <2>3, <3>1
  <2>5. Settled(4)
    <3>1. 4 - 1 = 3 /\ 4 \in 1 .. 5
      OBVIOUS
    <3> QED BY <2>1, <2>4, <3>1
  <2>6. 5 - 1 = 4 /\ 5 \in 1 .. 5
    OBVIOUS
  <2> QED BY <2>1, <2>5, <2>6
<1>8. \A i \in DOMAIN A : F[5][i] = Inherits(A, F[5], i)
  <2>1. 6 \in 1 .. 6 /\ 6 - 1 = 5 /\ 5 + 1 = 6
    OBVIOUS
  <2>2. \A i \in DOMAIN A : F[6][i] = Inherits(A, F[5], i)
    BY <1>4, <2>1
  <2>3. \A i \in DOMAIN A : A[i].depth >= 6 - 5
    OBVIOUS
  <2> QED BY <1>7, <2>1, <2>2, <2>3
<1>9. F[5] \in X
  BY <1>4
<1>10. F[5] = [i \in DOMAIN A |-> Inherits(A, F[5], i)]
  BY <1>8, <1>9
<1> QED BY <1>9, <1>10

LEMMA RiskIs ==
    ASSUME \A i \in DOMAIN affected : affected[i].depth \in 1 .. 5,
           NEW risk, risk = InheritedRisk
    PROVE  /\ risk \in [DOMAIN affected -> 0 .. 4]
           /\ \A i \in DOMAIN affected : risk[i] = Inherits(affected, risk, i)
<1> DEFINE r[i \in DOMAIN affected] ==
             Max({OwnRisk(affected[i].obj)} \cup
                 {r[j] - 1 : j \in {j \in DOMAIN affected : affected[j].depth = affected[i].depth + 1
                                                    /\ affected[j].via = affected[i].obj}})
<1>1. InheritedRisk = [i \in DOMAIN affected |-> r[i]]
  BY DEF InheritedRisk
<1>2. PICK f \in [DOMAIN affected -> 0 .. 4] : f = [i \in DOMAIN affected |-> Inherits(affected, f, i)]
  BY RiskExists
<1>3. f = [i \in DOMAIN affected |->
             Max({OwnRisk(affected[i].obj)} \cup
                 {f[j] - 1 : j \in {j \in DOMAIN affected : affected[j].depth = affected[i].depth + 1
                                                    /\ affected[j].via = affected[i].obj}})]
  BY <1>2 DEF Inherits, Children
<1>4. r = [i \in DOMAIN affected |->
             Max({OwnRisk(affected[i].obj)} \cup
                 {r[j] - 1 : j \in {j \in DOMAIN affected : affected[j].depth = affected[i].depth + 1
                                                    /\ affected[j].via = affected[i].obj}})]
  BY <1>3
<1> HIDE DEF r
<1>5. PICK q : q = r
  OBVIOUS
<1>6. q = [i \in DOMAIN affected |-> Inherits(affected, q, i)]
  <2>1. q = [i \in DOMAIN affected |->
               Max({OwnRisk(affected[i].obj)} \cup
                   {q[j] - 1 : j \in {j \in DOMAIN affected : affected[j].depth = affected[i].depth + 1
                                                      /\ affected[j].via = affected[i].obj}})]
    BY ONLY <1>4, <1>5
  <2> QED BY ONLY <2>1 DEF Inherits, Children
<1> DEFINE Bad == {i \in DOMAIN affected : q[i] # f[i]}
<1>7. Bad = {}
  <2> SUFFICES ASSUME Bad # {} PROVE FALSE
    OBVIOUS
  <2> DEFINE D == {5 - affected[i].depth : i \in Bad}
  <2>1. D \subseteq Nat /\ D # {}
    <3>1. \A i \in Bad : 5 - affected[i].depth \in Nat
      OBVIOUS
    <3> HIDE DEF Bad
    <3> QED BY <3>1
  <2>2. PICK m \in D : \A n \in D : m <= n
    <3> HIDE DEF D
    <3> QED BY <2>1, LeastExists
  <2>3. PICK i \in Bad : m = 5 - affected[i].depth
    <3> HIDE DEF Bad
    <3> QED OBVIOUS
  <2>4. \A j \in Children(affected, i) : q[j] = f[j]
    <3> TAKE j \in Children(affected, i)
    <3>1. j \in DOMAIN affected /\ affected[j].depth = affected[i].depth + 1
      BY DEF Children
    <3>2. affected[i].depth \in 1 .. 5 /\ ~ (m <= 5 - affected[j].depth)
      BY <2>3, <3>1
    <3>3. j \notin Bad
      <4> HIDE DEF Bad
      <4> QED BY <2>2, <3>2
    <3> QED BY <3>1, <3>3
  <2>5. {q[j] - 1 : j \in Children(affected, i)} = {f[j] - 1 : j \in Children(affected, i)}
    BY <2>4
  <2>6. i \in DOMAIN affected /\ Inherits(affected, q, i) = Inherits(affected, f, i)
    BY <2>5 DEF Inherits
  <2>7. q[i] = Inherits(affected, q, i) /\ f[i] = Inherits(affected, f, i)
    <3>1. q[i] = Inherits(affected, q, i)
      BY ONLY <1>6, <2>6
    <3>2. f[i] = Inherits(affected, f, i)
      BY ONLY <1>2, <2>6
    <3> QED BY <3>1, <3>2
  <2>8. q[i] # f[i]
    OBVIOUS
  <2> QED BY <2>6, <2>7, <2>8
<1>8. risk = [i \in DOMAIN affected |-> f[i]]
  <2>1. \A i \in DOMAIN affected : q[i] = f[i]
    BY <1>7
  <2> QED BY <1>1, <1>5, <2>1
<1>9. risk = f
  BY <1>2, <1>8
<1> QED BY <1>2, <1>9

\* What an object inherits decides nothing that is not decided by an object of
\* its own: risk is inherited less one, and the last to pass it on has it itself.
LEMMA InheritedNeverDecides ==
    ASSUME NEW A, \A i \in DOMAIN A : A[i].depth \in 1 .. 5,
           NEW risk \in [DOMAIN A -> 0 .. 4], \A i \in DOMAIN A : risk[i] = Inherits(A, risk, i)
    PROVE  (\A i \in DOMAIN A : risk[i] < 3) <=> (\A x \in Objs(A) : OwnRisk(x) < 3)
<1>1. ASSUME \A i \in DOMAIN A : risk[i] < 3, NEW x \in Objs(A) PROVE OwnRisk(x) < 3
  <2>1. PICK i \in DOMAIN A : A[i].obj = x
    BY DEF Objs
  <2>2. OwnRisk(x) <= risk[i] /\ OwnRisk(x) \in 0 .. 4
    BY <2>1, InheritsIs, OwnRiskRange
  <2> QED BY <1>1, <2>2
<1>2. ASSUME \A x \in Objs(A) : OwnRisk(x) < 3, NEW k \in DOMAIN A, ~ (risk[k] < 3) PROVE FALSE
  <2> DEFINE Bad == {i \in DOMAIN A : ~ (risk[i] < 3)}
             D == {5 - A[i].depth : i \in Bad}
  <2>1. D \subseteq Nat /\ D # {}
    <3>1. \A i \in Bad : 5 - A[i].depth \in Nat
      OBVIOUS
    <3>2. k \in Bad
      BY <1>2
    <3> HIDE DEF Bad
    <3> QED BY <3>1, <3>2
  <2>2. PICK m \in D : \A n \in D : m <= n
    <3> HIDE DEF D
    <3> QED BY <2>1, LeastExists
  <2>3. PICK i \in Bad : m = 5 - A[i].depth
    <3> HIDE DEF Bad
    <3> QED OBVIOUS
  <2>4. i \in DOMAIN A /\ ~ (risk[i] < 3) /\ risk[i] \in 0 .. 4
    OBVIOUS
  <2>5. OwnRisk(A[i].obj) < 3
    BY <1>2, <2>4 DEF Objs
  <2>6. risk[i] # OwnRisk(A[i].obj)
    BY <2>4, <2>5
  <2>7. PICK j \in Children(A, i) : risk[i] = risk[j] - 1
    BY <2>4, <2>6, InheritsIs
  <2>8. j \in DOMAIN A /\ A[j].depth = A[i].depth + 1 /\ risk[j] \in 0 .. 4
    BY DEF Children
  <2>9. j \in Bad
    BY <2>4, <2>7, <2>8
  <2>10. ~ (m <= 5 - A[j].depth)
    BY <2>3, <2>4, <2>8
  <2> HIDE DEF Bad
  <2> QED BY <2>2, <2>9, <2>10
<1> QED BY <1>1, <1>2

-----------------------------------------------------------------------------
(* The states of a request *)

Asked == {[kind |-> "seeding", source |-> x, limit |-> l] : x \in Sources, l \in 1 .. 5}
Walked(x, l, d) == [kind |-> "impact", source |-> x, limit |-> l, depth |-> d]

\* While an impact is asked for, the walk is where it should be; otherwise
\* nothing is listed or visited.
WalkInv ==
    /\ request.kind \in {"none", "seeding", "impact", "readiness"}
    /\ request.kind = "seeding" => request \in Asked
    /\ IF request.kind = "impact"
       THEN /\ request = Walked(request.source, request.limit, request.depth)
            /\ Walk(Near(request.source, request.limit), request.source, request.limit,
                    request.depth, affected, frontier, visited)
       ELSE visited = {} /\ affected = <<>>

\* A report is of the world that is still there: whatever changes it asks anew.
ReportInv ==
    report.kind = "impact" =>
        /\ request.kind = "none"
        /\ ListsExactly(Near(report.source, report.limit), report.source, report.limit, report.listed)
        /\ SafeMeansQuiet

ImpactInv ==
    /\ order \in Orders /\ seen \subseteq Objects
    /\ WalkInv
    /\ ReportInv

LEMMA DeliveredObjects ==
    ASSUME NEW down
    PROVE  Delivered(down) \subseteq Objects
<1> QED BY DEF Delivered, FromReview, FromGithub, FromDocker, FromN8n, FromNocodb, FromLlm,
               Registered, Objects, Resources

\* Whatever sets aside the report keeps what is said of it.
LEMMA NoReportKept ==
    ASSUME report'.kind # "impact"
    PROVE  ReportInv'
<1> QED BY DEF ReportInv

LEMMA AskKeeps ==
    ASSUME ImpactInv,
           (\E x \in Sources, limit \in 1 .. 5 : AskImpact(x, limit)) \/ \E s \in Scenarios : AskReadiness(s)
    PROVE  ImpactInv'
<1>1. /\ request = NoRequest /\ seen' \subseteq Objects /\ order' = order
      /\ visited' = visited /\ affected' = affected /\ report' = NoReport
  <2>1. PICK down \in Outages : Gather(down)
    BY DEF AskImpact, AskReadiness
  <2>2. seen' = Delivered(down) /\ request = NoRequest
    BY <2>1 DEF Gather
  <2> QED BY <2>2, DeliveredObjects DEF AskImpact, AskReadiness
<1>2. visited' = {} /\ affected' = <<>>
  BY <1>1 DEF NoRequest, ImpactInv, WalkInv
<1>3. request' \in Asked \/ \E s \in Scenarios : request' = [kind |-> "readiness", scenario |-> s]
  BY DEF AskImpact, AskReadiness, Asked
<1>4. (request'.kind = "seeding" /\ request' \in Asked) \/ request'.kind = "readiness"
  BY <1>3 DEF Asked
<1>5. WalkInv'
  BY <1>2, <1>4 DEF WalkInv
<1>6. ReportInv'
  BY <1>1, NoReportKept DEF NoReport
<1> QED BY <1>1, <1>5, <1>6 DEF ImpactInv

LEMMA SeedKeeps ==
    ASSUME ExecutiveViewAssumption, ImpactInv, Seed PROVE ImpactInv'
<1>1. /\ request.kind = "seeding" /\ request \in Asked /\ report.kind # "impact"
      /\ UNCHANGED <<world, seen, order>>
  BY DEF Seed, ImpactInv, WalkInv, ReportInv
<1>2. PICK x \in Sources, l \in 1 .. 5 : request = [kind |-> "seeding", source |-> x, limit |-> l]
  BY <1>1 DEF Asked
<1>3. request.source = x /\ request.limit = l /\ l \in Nat
  BY <1>2
<1>4. ReportInv'
  <2>1. report'.kind # "impact"
    BY <1>1 DEF Seed
  <2> QED BY <2>1, NoReportKept
<1>5. CASE x \in seen
  <2>1. /\ frontier' = Expand(x, {x}) /\ visited' = {x} /\ affected' = <<>>
        /\ request' = Walked(x, l, 1)
    BY <1>3, <1>5 DEF Seed, Walked
  <2>2. PICK N : N = Near(x, l)
    OBVIOUS
  <2>3. x \in Objects /\ Rings(N, x, l)
    BY <1>3, <1>5, <2>2, NearRings DEF ImpactInv
  <2>4. IsListing(order)
    BY DEF ImpactInv, ExecutiveViewAssumption
  <2>5. Walk(N, x, l, 1, <<>>, Expand(x, {x}), {x})
    BY ONLY <2>3, <2>4, WalkBegins, l \in 1 .. 5
  <2>6. Near(x, l)' = N
    BY <1>1, <2>2, NearKept
  <2>7. /\ request'.kind = "impact" /\ request'.source = x /\ request'.limit = l /\ request'.depth = 1
    BY <2>1 DEF Walked
  <2>8. Walk(Near(x, l)', x, l, 1, affected', frontier', visited')
    BY <2>1, <2>5, <2>6
  <2>9. WalkInv'
    BY <2>1, <2>7, <2>8 DEF WalkInv
  <2> QED BY <1>1, <1>4, <2>9 DEF ImpactInv
<1>6. CASE x \notin seen
  <2>1. request' = NoRequest /\ UNCHANGED <<visited, affected>>
    BY <1>3, <1>6 DEF Seed
  <2>2. request'.kind = "none" /\ visited' = {} /\ affected' = <<>>
    BY <1>1, <2>1 DEF NoRequest, ImpactInv, WalkInv
  <2>3. WalkInv'
    BY <2>2 DEF WalkInv
  <2> QED BY <1>1, <1>4, <2>3 DEF ImpactInv
<1> QED BY <1>5, <1>6

LEMMA LevelKeeps ==
    ASSUME ExecutiveViewAssumption, ImpactInv, Level PROVE ImpactInv'
<1>1. PICK x, l, d : request = Walked(x, l, d) /\ x = request.source /\ l = request.limit /\ d = request.depth
  BY DEF Level, ImpactInv, WalkInv
<1>2. PICK N : N = Near(x, l)
  OBVIOUS
<1>3. Walk(N, x, l, d, affected, frontier, visited)
  BY <1>1, <1>2 DEF Level, ImpactInv, WalkInv
<1>4. x \in Objects /\ l \in 1 .. 5
  BY <1>3 DEF Walk, WalkTyped
<1>5. Rings(N, x, l)
  <2>1. l \in Nat /\ seen \subseteq Objects
    BY <1>4 DEF ImpactInv
  <2> QED BY <1>2, <1>4, <2>1, NearRings
<1>6. IsListing(order)
  BY DEF ImpactInv, ExecutiveViewAssumption
<1>7. PICK found : found = NextFound(frontier, visited, d, l)
  OBVIOUS
<1>8. /\ frontier # <<>>
      /\ affected' = Longer(affected, frontier, d)
      /\ frontier' = FirstOfEach(found) /\ visited' = visited \cup Reached(found)
      /\ UNCHANGED <<world, seen, order, report>>
  BY <1>1, <1>7 DEF Level, MayExpand, Longer, NextFound, AllFound, Reached
<1>9. request' = Walked(x, l, d + 1)
  BY <1>1 DEF Level, Walked
<1>10. Walk(N, x, l, d + 1, affected', frontier', visited')
  <2>1. ASSUME NEW A, A = affected, NEW F, F = frontier, NEW V, V = visited
        PROVE  Walk(N, x, l, d + 1, affected', frontier', visited')
    <3>1. Walk(N, x, l, d, A, F, V) /\ F # <<>>
      BY <1>3, <1>8, <2>1
    <3>2. affected' = Longer(A, F, d)
      BY <1>8, <2>1
    <3>3. found = NextFound(F, V, d, l)
      BY <1>7, <2>1
    <3>4. Walk(N, x, l, d + 1, affected', FirstOfEach(found), V \cup Reached(found))
      BY ONLY <1>5, <1>6, <3>1, <3>2, <3>3, WalkGoesOn
    <3> QED BY <1>8, <2>1, <3>4
  <2> QED BY <2>1
<1>11. Near(x, l)' = N
  BY <1>2, <1>8, NearKept
<1>12. /\ request'.kind = "impact" /\ request'.source = x /\ request'.limit = l /\ request'.depth = d + 1
  BY <1>9 DEF Walked
<1>13. WalkInv'
  BY <1>9, <1>10, <1>11, <1>12 DEF WalkInv
<1>14. ReportInv'
  <2>1. report'.kind # "impact"
    BY <1>8 DEF Level, ImpactInv, ReportInv
  <2> QED BY <2>1, NoReportKept
<1> QED BY <1>8, <1>13, <1>14 DEF ImpactInv

LEMMA SummariseKeeps ==
    ASSUME ExecutiveViewAssumption, ImpactInv, Summarise PROVE ImpactInv'
<1>1. PICK x, l, d : request = Walked(x, l, d) /\ x = request.source /\ l = request.limit /\ d = request.depth
  BY DEF Summarise, ImpactInv, WalkInv
<1>2. PICK N, L : N = Near(x, l) /\ L = affected
  OBVIOUS
<1>3. frontier = <<>> /\ Walk(N, x, l, d, L, <<>>, visited)
  BY <1>1, <1>2 DEF Summarise, ImpactInv, WalkInv
<1>4. x \in Objects /\ l \in 1 .. 5 /\ L \in Seq(Listed)
  BY <1>3 DEF Walk, WalkTyped
<1>5. Rings(N, x, l)
  <2>1. l \in Nat /\ seen \subseteq Objects
    BY <1>4 DEF ImpactInv
  <2> QED BY <1>2, <1>4, <2>1, NearRings
<1>6. ListsExactly(N, x, l, L)
  BY ONLY <1>3, <1>5, WalkListsExactly
<1>7. \A i \in DOMAIN L : L[i].depth \in 1 .. 5
  <2>1. \A i \in DOMAIN L : L[i] \in Listed
    BY <1>4
  <2> QED BY <2>1 DEF Listed
<1>8. PICK risk : risk = InheritedRisk
  OBVIOUS
<1>9. /\ report' = [kind |-> "impact", source |-> x, limit |-> l, listed |-> L,
                    safe |-> \A i \in DOMAIN L : risk[i] < 3]
      /\ request' = NoRequest /\ visited' = {} /\ affected' = <<>>
      /\ UNCHANGED <<world, seen, order, data>>
  BY <1>1, <1>2, <1>8 DEF Summarise
<1>10. /\ report'.kind = "impact" /\ report'.source = x /\ report'.limit = l /\ report'.listed = L
       /\ report'.safe = \A i \in DOMAIN L : risk[i] < 3
  BY <1>9
<1>11. Near(x, l)' = N
  BY <1>2, <1>9, NearKept
<1>12. ListsExactly(Near(report.source, report.limit), report.source, report.limit, report.listed)'
  BY <1>6, <1>10, <1>11
<1>13. SafeMeansQuiet'
  <2>1. (\A i \in DOMAIN L : risk[i] < 3) <=> \A y \in Objs(L) : OwnRisk(y) < 3
    <3>1. /\ risk \in [DOMAIN L -> 0 .. 4]
          /\ \A i \in DOMAIN L : risk[i] = Inherits(L, risk, i)
      BY <1>2, <1>7, <1>8, RiskIs
    <3> QED BY ONLY <1>7, <3>1, InheritedNeverDecides
  <2>2. Objs(L) = N[l] \ {x}
    BY <1>6 DEF ListsExactly
  <2>3. \A y : OwnRisk(y)' = OwnRisk(y)
    BY <1>9, OwnRiskKept
  <2>4. report'.safe <=> \A y \in N[l] \ {x} : OwnRisk(y)' < 3
    BY <1>10, <2>1, <2>2, <2>3
  <2> QED BY <1>10, <1>11, <2>4 DEF SafeMeansQuiet
<1>14. request'.kind = "none"
  BY <1>9 DEF NoRequest
<1>15. WalkInv' /\ ReportInv'
  BY <1>9, <1>12, <1>13, <1>14 DEF WalkInv, ReportInv
<1> QED BY <1>9, <1>15 DEF ImpactInv

LEMMA EvaluateReports ==
    ASSUME Evaluate PROVE report'.kind = "readiness"
<1>1. PICK sc, ready, score, critical :
         report' = [kind |-> "readiness", scenario |-> sc, ready |-> ready, score |-> score,
                    critical |-> critical]
  BY Zenon DEF Evaluate
<1> QED BY <1>1

\* What goes on between two requests drops the report.
LEMMA ElseKeeps ==
    ASSUME ExecutiveViewAssumption, ImpactInv, Refuse \/ Change \/ Restart \/ Evaluate PROVE ImpactInv'
<1>1. /\ report'.kind # "impact" /\ request'.kind = "none" /\ request.kind # "impact"
      /\ UNCHANGED <<seen, visited, affected>> /\ order' \in Orders
  <2>1. CASE Refuse
    BY <2>1 DEF Refuse, NoRequest, ImpactInv
  <2>2. CASE Change \/ Restart
    BY <2>2 DEF Change, Restart, NoRequest, NoReport, ImpactInv
  <2>3. CASE Evaluate
    BY <2>3, EvaluateReports DEF Evaluate, NoRequest, ImpactInv
  <2> QED BY <2>1, <2>2, <2>3
<1>2. WalkInv'
  BY <1>1 DEF ImpactInv, WalkInv
<1> QED BY <1>1, <1>2, NoReportKept DEF ImpactInv

LEMMA StutterKeeps ==
    ASSUME ImpactInv, UNCHANGED viewVars PROVE ImpactInv'
<1>1. UNCHANGED <<world, seen, order, data, request, frontier, visited, affected, report>>
  BY DEF viewVars
<1>2. Near(request.source, request.limit)' = Near(request.source, request.limit)
  BY <1>1, NearKept
<1>3. WalkInv'
  BY <1>1, <1>2 DEF ImpactInv, WalkInv
<1>4. Near(report.source, report.limit)' = Near(report.source, report.limit)
  BY <1>1, NearKept
<1>5. \A y : OwnRisk(y)' = OwnRisk(y)
  BY <1>1, OwnRiskKept
<1>6. ReportInv'
  <2>1. SafeMeansQuiet' <=> SafeMeansQuiet
    BY <1>1, <1>4, <1>5 DEF SafeMeansQuiet
  <2> QED BY <1>1, <1>4, <2>1 DEF ImpactInv, ReportInv
<1> QED BY <1>1, <1>3, <1>6 DEF ImpactInv

LEMMA ImpactHolds == ViewSpec => []ImpactInv
<1> USE ExecutiveViewAssumption
<1>1. ViewInit => ImpactInv
  <2> SUFFICES ASSUME ViewInit PROVE ImpactInv
    OBVIOUS
  <2>1. request.kind = "none" /\ report.kind = "none" /\ visited = {} /\ affected = <<>>
    BY DEF ViewInit, NoRequest, NoReport
  <2> QED BY <2>1 DEF ViewInit, ImpactInv, WalkInv, ReportInv
<1>2. ImpactInv /\ [ViewNext]_viewVars => ImpactInv'
  <2> SUFFICES ASSUME ImpactInv, [ViewNext]_viewVars PROVE ImpactInv'
    OBVIOUS
  <2> QED BY AskKeeps, SeedKeeps, LevelKeeps, SummariseKeeps, ElseKeeps, StutterKeeps DEF ViewNext, Serve
<1> QED BY <1>1, <1>2, PTL DEF ViewSpec

\* An impact report lists what is within the depth asked for and nothing else,
\* each object at its distance: on any graph, from any source, in any order of
\* iteration.  The walk of impact_engine.py leaves the first level unvisited, and
\* that lists its objects again at most once and at no cost to the distances.
THEOREM ReachHolds == ViewSpec => []ReachExactly
<1>1. ImpactInv => ReachExactly
  BY DEF ImpactInv, ReportInv, ReachExactly, ListsExactly, Depths, Objs
<1> QED BY <1>1, ImpactHolds, PTL

\* A change is called safe exactly when no object listed is at high or critical
\* risk of its own: what _propagate_inherited_risk adds never tips the verdict.
THEOREM SafeHolds == ViewSpec => []SafeMeansQuiet
<1>1. ImpactInv => SafeMeansQuiet
  BY DEF ImpactInv, ReportInv, SafeMeansQuiet
<1> QED BY <1>1, ImpactHolds, PTL

-----------------------------------------------------------------------------
(* Types *)

RestType ==
    /\ index = None \/ DOMAIN index = Registered
    /\ DOMAIN data = Objects
    /\ report.kind \in {"none", "refused", "unknown", "impact", "readiness"}
    /\ changes \in 0 .. MaxChanges

LEMMA RestNext ==
    ASSUME MaxChanges \in Nat, RestType, [ViewNext]_viewVars PROVE RestType'
<1>1. ASSUME NEW down, Gather(down) PROVE (index' = None \/ DOMAIN index' = Registered) /\ DOMAIN data' = Objects
  BY <1>1 DEF RestType, Gather, Index
<1>2. CASE \E x \in Sources, limit \in 1 .. 5 : AskImpact(x, limit)
  BY <1>1, <1>2 DEF RestType, AskImpact, NoReport
<1>3. CASE \E s \in Scenarios : AskReadiness(s)
  BY <1>1, <1>3 DEF RestType, AskReadiness, NoReport
<1>4. CASE Refuse
  BY <1>4 DEF RestType, Refuse
<1>5. CASE Seed
  BY <1>5 DEF RestType, Seed
<1>6. CASE Level
  BY <1>6 DEF RestType, Level
<1>7. CASE Summarise
  BY <1>7 DEF RestType, Summarise
<1>8. CASE Evaluate
  BY <1>8, EvaluateReports DEF RestType, Evaluate
<1>9. CASE Change
  BY <1>9 DEF RestType, Change, NoReport
<1>10. CASE Restart
  BY <1>10 DEF RestType, Restart, NoReport
<1>11. CASE UNCHANGED viewVars
  BY <1>11 DEF RestType, viewVars
<1> QED BY <1>2, <1>3, <1>4, <1>5, <1>6, <1>7, <1>8, <1>9, <1>10, <1>11 DEF ViewNext, Serve

\* The types of the executive view: what is gathered, visited and listed are
\* objects, at depths from 1 to 5, and a request or a report is of a known kind.
THEOREM ViewTypeHolds == ViewSpec => []ViewTypeOK
<1>1. ViewInit => RestType
  BY ExecutiveViewAssumption DEF ViewInit, RestType, NoReport, IsWorld
<1>2. RestType /\ [ViewNext]_viewVars => RestType'
  BY RestNext, ExecutiveViewAssumption
<1>3. ImpactInv /\ RestType => ViewTypeOK
  <2> SUFFICES ASSUME ImpactInv, RestType PROVE ViewTypeOK
    OBVIOUS
  <2>1. CASE request.kind = "impact"
    <3>1. PICK x, l, d, N : Walk(N, x, l, d, affected, frontier, visited)
      BY <2>1 DEF ImpactInv, WalkInv
    <3>2. affected \in Seq(Listed) /\ frontier \in Seq(Found) /\ x \in Objects
      BY <3>1 DEF Walk, WalkTyped
    <3>3. (\A i \in DOMAIN affected : affected[i] \in Listed) /\ \A i \in DOMAIN frontier : frontier[i] \in Found
      BY <3>2
    <3>4. Deep(affected) \subseteq Objects /\ Objs(frontier) \subseteq Objects
      BY <3>3 DEF Deep, Objs, Listed, Found
    <3>5. visited \subseteq Objects
      BY <3>1, <3>2, <3>4 DEF Walk, Visits
    <3>6. \A i \in DOMAIN affected : affected[i].depth \in 1 .. 5
      BY <3>3 DEF Listed
    <3> QED BY <3>5, <3>6 DEF ImpactInv, WalkInv, RestType, ViewTypeOK
  <2>2. CASE request.kind # "impact"
    <3>1. visited = {} /\ affected = <<>> /\ DOMAIN <<>> = {}
      BY <2>2 DEF ImpactInv, WalkInv
    <3> QED BY <3>1 DEF ImpactInv, WalkInv, RestType, ViewTypeOK
  <2> QED BY <2>1, <2>2
<1> QED BY <1>1, <1>2, <1>3, ImpactHolds, PTL DEF ViewSpec
=============================================================================
