---------------------------- MODULE NetNSProofs ----------------------------
(***************************************************************************)
(* Proofs about NetNSOps and the resolution it builds on, FleetResolve,    *)
(* for any zones, sites, claims and bounds. What carries them is what a    *)
(* list that was read still says of a world that went on changing:         *)
(* whatever stood all the time since a read began is in what was read.     *)
(***************************************************************************)
EXTENDS NetNSOps, FiniteSetTheorems, TLAPS

\* pc from the evidence of a deletion to its end.
Deleting == {"evidence", "prompt", "recheck", "delete", "wait"}

\* Every value of pc.
Steps == {"start", "list", "resolved", "audit"} \cup Deleting \cup Ended

\* The kinds among the first n lists.
KindsRead(n) == {Lists[k] : k \in 1..n}

\* What was read of a zone.
Load == [step: 0..4, nns: SUBSET Object, claims: SUBSET Claims]

\* A name stands for at most one object in a site.
OneEach(S) == \A o1, o2 \in S : o1.site = o2.site => o1 = o2

\* The objects there are.
ObjectsOK ==
    /\ objects \subseteq Object /\ OneEach(objects)
    /\ steady \subseteq Ids(objects)
    /\ born \in 1..MaxGen /\ changes \in Nat

\* Zones are connected to, then listed or given up.
ZonesOK ==
    /\ command \in Commands /\ scope \subseteq Zones
    /\ connected \subseteq scope /\ answered \subseteq connected
    /\ unread \subseteq connected \ answered
    /\ found \subseteq Object

\* Which command is where, and what it knows there.
PhaseOK ==
    /\ pc \in Steps
    /\ pc \in {"audit", "complete", "incomplete"} <=> (command = "nn orphans" /\ pc \notin {"start", "failed"})
    /\ pc \in {"resolved"} \cup Deleting => found # {}
    /\ pc = "start" => answered = {} /\ unread = {}
    /\ pc = "list" /\ command \in WholeFleet => connected = scope

\* The claims there are, and were.
ClaimsOK == claims \subseteq Claims /\ standing \subseteq claims /\ seen \subseteq Claims

\* Where lists may have been read, and of which objects.
LoadsOK ==
    /\ load \in [Zones -> Load]
    /\ \A z \in Zones : OneEach(load[z].nns) /\ \A o \in load[z].nns : ZoneOf[o.site] = z
    /\ pc \in {"start", "list", "resolved"} => \A z \in Zones : load[z] = NotLoaded
    /\ pc \in Deleting => \A z \in Zones : z # ZoneOf[Hit.site] => load[z] = NotLoaded
    /\ pc = "audit" => \A z \in answered : Complete(z)

\* While it lists, what was there all the time in a zone that answered was
\* found.
Listed == pc = "list" => \A id \in steady : ZoneOf[id[1]] \in answered => id \in Ids(found)

\* What was there all the time in a zone whose lists were read is in them.
LoadTells ==
    \A z \in Zones :
      /\ load[z].step >= 1 => \A id \in steady : ZoneOf[id[1]] = z => id \in Ids(load[z].nns)
      /\ \A c \in standing : ZoneOf[c.site] = z /\ c.kind \in KindsRead(load[z].step) => c \in load[z].claims

\* An audit has read no claim it would not remember.
SeenAll == command = "nn orphans" => claims \subseteq seen /\ \A z \in Zones : load[z].claims \subseteq seen

\* What is about to be deleted passed the gates on what was read of its zone.
TargetOK ==
    /\ target \subseteq Object /\ OneEach(target)
    /\ \A o1, o2 \in target : o1.site = o2.site
    /\ pc = "delete" =>
         /\ Loaded.step = 4 /\ target \subseteq {o \in Loaded.nns : o.site = Hit.site}
         /\ \A o \in target : ~Blocked(o, Loaded.claims)

\* What the runs check of the outcomes.
Verdicts == ResolvesTheOnlyOne /\ GoneMeansGone /\ AuditTellsTheTruth

\* The inductive invariant.
IInv ==
    /\ ObjectsOK /\ ZonesOK /\ PhaseOK /\ ClaimsOK /\ LoadsOK
    /\ Listed /\ LoadTells /\ SeenAll /\ TargetOK
    /\ Verdicts
-----------------------------------------------------------------------------
\* The object that was resolved is an object, of a zone.
LEMMA HitFound ==
  ASSUME ZonesOK, found # {}
  PROVE  Hit \in found /\ Hit \in Object /\ ZoneOf[Hit.site] \in Zones
<1>1. Hit \in found
  BY DEF Hit
<1>2. Hit \in Object
  BY <1>1 DEF ZonesOK
<1>3. Hit.site \in Sites
  BY <1>2 DEF Object
<1>4. QED BY <1>1, <1>2, <1>3, FleetAssumption

\* The ids of a set of objects.
LEMMA IdsIn == \A S, id : id \in Ids(S) <=> \E o \in S : id = <<o.site, o.gen>>
BY DEF Ids, Id

\* The objects of a zone.
LEMMA InIs == \A z, o : o \in In({z}) <=> (o \in objects /\ ZoneOf[o.site] = z)
BY DEF In

\* Frames: what a step leaves alone of what a part of the invariant speaks of.
LEMMA ObjectsFrame ==
  ASSUME ObjectsOK, UNCHANGED <<objects, steady, born, changes>>
  PROVE  ObjectsOK'
BY DEF ObjectsOK, OneEach, Ids, Id

\* Claims.
LEMMA ClaimsFrame ==
  ASSUME ClaimsOK, UNCHANGED <<claims, standing, seen>>
  PROVE  ClaimsOK'
BY DEF ClaimsOK

\* What was read stays right while less is known to have stood all the time.
LEMMA TellsFrame ==
  ASSUME LoadTells, load' = load, steady' \subseteq steady, standing' \subseteq standing
  PROVE  LoadTells'
BY DEF LoadTells, KindsRead, Ids, Id

\* What an audit remembers.
LEMMA SeenFrame ==
  ASSUME SeenAll, UNCHANGED <<command, load, claims, seen>>
  PROVE  SeenAll'
BY DEF SeenAll

\* The target, until it is deleted.
LEMMA TargetFrame ==
  ASSUME TargetOK, UNCHANGED <<target, load, found>>, pc' = pc \/ pc' # "delete"
  PROVE  TargetOK'
<1>1. target' \subseteq Object /\ OneEach(target)'
      /\ \A o1, o2 \in target' : o1.site = o2.site
  BY DEF TargetOK, OneEach
<1>2. CASE pc' # "delete"
  BY <1>1, <1>2 DEF TargetOK
<1>3. CASE pc' = pc
  <2>1. Hit' = Hit
    BY DEF Hit
  <2>2. Loaded' = Loaded
    BY <2>1 DEF Loaded
  <2>3. QED BY <1>1, <1>3, <2>1, <2>2 DEF TargetOK, Blocked, InUse, Unresolved, ReferencingKCs, NCRefs, NCUnevaluated, IPAllocs, IPAllocUnevaluated, On
<1>4. QED BY <1>2, <1>3

\* What was read, when the step it was read for goes on.
LEMMA LoadsFrame ==
  ASSUME LoadsOK, UNCHANGED <<load, found>>,
         pc' \in {"start", "list", "resolved"} => pc \in {"start", "list", "resolved"},
         pc' \in Deleting => pc \in Deleting \cup {"resolved"},
         pc' = "audit" => (\A z \in answered' : Complete(z))
  PROVE  LoadsOK'
<1>1. Hit' = Hit
  BY DEF Hit
<1>2. /\ load' \in [Zones -> Load]
      /\ \A z \in Zones : OneEach(load'[z].nns) /\ \A o \in load'[z].nns : ZoneOf[o.site] = z
  BY DEF LoadsOK, OneEach
<1>3. pc' \in {"start", "list", "resolved"} => \A z \in Zones : load'[z] = NotLoaded
  BY DEF LoadsOK
<1>4. pc' \in Deleting => \A z \in Zones : z # ZoneOf[Hit'.site] => load'[z] = NotLoaded
  BY <1>1 DEF LoadsOK
<1>5. pc' = "audit" => \A z \in answered' : Complete(z)'
  BY DEF Complete
<1>6. QED BY <1>2, <1>3, <1>4, <1>5 DEF LoadsOK, OneEach

\* Between the outcomes there is nothing to be wrong about.
LEMMA NoVerdict ==
  ASSUME pc' \notin {"resolved", "none", "gone", "complete", "incomplete"}
  PROVE  Verdicts'
BY DEF Verdicts, ResolvesTheOnlyOne, GoneMeansGone, AuditTellsTheTruth
-----------------------------------------------------------------------------
\* The invariant holds at first.
LEMMA InitOK == Init => IInv
<1> SUFFICES ASSUME Init PROVE IInv
  OBVIOUS
<1>1. ObjectsOK
  <2>1. objects \subseteq Object /\ OneEach(objects)
    BY DEF Init, FleetInit, OneEach
  <2>2. steady = Ids(objects) /\ born = 1 /\ changes = 0
    BY DEF Init, FleetInit
  <2>3. born \in 1..MaxGen /\ changes \in Nat
    <3>1. born = 1 /\ changes = 0
      BY DEF Init, FleetInit
    <3>2. MaxGen \in Nat /\ MaxGen # 0
      BY FleetAssumption
    <3>3. QED BY <3>1, <3>2
  <2>4. steady \subseteq Ids(objects)
    BY <2>2
  <2>5. QED BY <2>1, <2>3, <2>4 DEF ObjectsOK
<1>2. ZonesOK
  BY DEF Init, FleetInit, ZonesOK
<1>3. PhaseOK
  BY DEF Init, FleetInit, PhaseOK, Steps, Deleting, Ended
<1>4. ClaimsOK
  BY DEF Init, ClaimsOK
<1>5. \A z \in Zones : load[z] = NotLoaded
  BY DEF Init
<1>6. LoadsOK
  <2>1. NotLoaded \in Load /\ NotLoaded.nns = {}
    BY DEF NotLoaded, Load
  <2>2. load \in [Zones -> Load]
    BY <2>1 DEF Init
  <2>3. \A z \in Zones : OneEach(load[z].nns) /\ \A o \in load[z].nns : ZoneOf[o.site] = z
    BY <1>5, <2>1 DEF OneEach
  <2>4. QED BY <1>5, <2>2, <2>3 DEF LoadsOK, Init, FleetInit, Deleting
<1>7. Listed
  BY DEF Init, FleetInit, Listed
<1>8. LoadTells
  <2>1. \A z \in Zones : load[z].step = 0
    BY <1>5 DEF NotLoaded
  <2>2. KindsRead(0) = {}
    BY DEF KindsRead
  <2>3. QED BY <2>1, <2>2 DEF LoadTells
<1>9. SeenAll
  BY <1>5 DEF SeenAll, NotLoaded, Init
<1>10. TargetOK
  BY DEF Init, FleetInit, TargetOK, OneEach
<1>11. Verdicts
  BY DEF Init, FleetInit, Verdicts, ResolvesTheOnlyOne, GoneMeansGone, AuditTellsTheTruth
<1>12. QED
  BY <1>1, <1>2, <1>3, <1>4, <1>6, <1>7, <1>8, <1>9, <1>10, <1>11 DEF IInv

\* Connecting preserves it,
LEMMA ConnectAllOK ==
  ASSUME IInv, ConnectAll, UNCHANGED netVars
  PROVE  IInv'
<1> USE DEF IInv
<1>1. /\ pc = "start" /\ answered = {}
      /\ UNCHANGED <<objects, command, scope, answered, unread, found, steady, born, changes>>
      /\ UNCHANGED <<claims, load, target, rows, standing, seen>>
  BY DEF ConnectAll, netVars, PhaseOK
<1>2. /\ connected' \subseteq scope
      /\ pc' \in {"failed", "audit", "list"}
      /\ pc' = "audit" => command = "nn orphans"
      /\ pc' = "list" => command # "nn orphans"
      /\ pc' = "list" /\ command \in WholeFleet => connected' = scope
  <2>1. PICK C \in SUBSET scope :
          /\ connected' = C
          /\ pc' = IF C = {} \/ (command \in WholeFleet /\ ~requireWholeFleet(C)) THEN "failed"
                   ELSE IF command = "nn orphans" THEN "audit" ELSE "list"
    BY DEF ConnectAll, Goto
  <2>2. QED BY <2>1 DEF requireWholeFleet
<1>3. ObjectsOK' /\ ClaimsOK'
  BY <1>1, ObjectsFrame, ClaimsFrame
<1>4. ZonesOK'
  <2>1. unread = {}
    BY DEF ConnectAll, PhaseOK
  <2>2. QED BY <1>1, <1>2, <2>1 DEF ZonesOK
<1>5. PhaseOK'
  BY <1>1, <1>2 DEF PhaseOK, Steps, Deleting, Ended
<1>6. LoadsOK'
  BY <1>1, <1>2, LoadsFrame DEF Deleting
<1>7. Listed'
  BY <1>1 DEF Listed
<1>8. LoadTells' /\ SeenAll'
  BY <1>1, TellsFrame, SeenFrame
<1>9. TargetOK'
  BY <1>1, <1>2, TargetFrame
<1>10. Verdicts'
  BY <1>2, NoVerdict
<1>11. QED BY <1>3, <1>4, <1>5, <1>6, <1>7, <1>8, <1>9, <1>10

\* and listing a zone,
LEMMA ListZoneOK ==
  ASSUME IInv, NEW z \in Zones, ListZone(z), UNCHANGED netVars
  PROVE  IInv'
<1> USE DEF IInv
<1>1. /\ pc = "list" /\ pc' = "list"
      /\ z \in connected \ (answered \cup unread)
      /\ UNCHANGED <<objects, pc, command, scope, connected, steady, born, changes>>
      /\ UNCHANGED <<claims, load, target, rows, standing, seen>>
  BY DEF ListZone, netVars
<1>2. \/ answered' = answered \cup {z} /\ found' = found \cup In({z}) /\ unread' = unread
      \/ unread' = unread \cup {z} /\ answered' = answered /\ found' = found
  BY DEF ListZone
<1>3. ObjectsOK' /\ ClaimsOK'
  BY <1>1, ObjectsFrame, ClaimsFrame
<1>4. ZonesOK'
  BY <1>1, <1>2, InIs DEF ZonesOK, ObjectsOK
<1>5. PhaseOK'
  BY <1>1 DEF PhaseOK, Deleting
<1>6. LoadsOK'
  BY <1>1 DEF LoadsOK, OneEach, Deleting
<1>7. Listed'
  <2> SUFFICES ASSUME NEW id \in steady, ZoneOf[id[1]] \in answered'
               PROVE  id \in Ids(found')
    BY <1>1 DEF Listed, Ids, Id
  <2>1. CASE ZoneOf[id[1]] \in answered
    BY <1>1, <1>2, <2>1, IdsIn DEF Listed
  <2>2. CASE ZoneOf[id[1]] \notin answered
    <3>1. found' = found \cup In({z}) /\ ZoneOf[id[1]] = z
      BY <1>2, <2>2
    <3>2. PICK o \in objects : id = <<o.site, o.gen>>
      BY IdsIn DEF ObjectsOK
    <3>3. o \in In({z})
      BY <3>1, <3>2, InIs
    <3>4. QED BY <3>1, <3>2, <3>3, IdsIn
  <2>3. QED BY <2>1, <2>2
<1>8. LoadTells' /\ SeenAll'
  BY <1>1, TellsFrame, SeenFrame
<1>9. TargetOK'
  BY <1>1 DEF TargetOK, OneEach
<1>10. Verdicts'
  BY <1>1, NoVerdict
<1>11. QED BY <1>3, <1>4, <1>5, <1>6, <1>7, <1>8, <1>9, <1>10

\* and resolving the name: with every zone asked for answered, all that was
\* there all the time was found.
LEMMA ConcludeOK ==
  ASSUME IInv, Conclude, UNCHANGED netVars
  PROVE  IInv'
<1> USE DEF IInv
<1>1. /\ pc = "list"
      /\ connected = answered \cup unread
      /\ UNCHANGED <<objects, command, scope, connected, answered, unread, found, steady, born, changes>>
      /\ UNCHANGED <<claims, load, target, rows, standing, seen>>
  BY DEF Conclude, netVars, zoneVars
<1>2. /\ pc' \in {"failed", "none", "unknown", "shown", "resolved", "ambiguous"}
      /\ pc' \in {"none", "resolved"} => Usable
      /\ pc' = "none" => found = {} /\ ~Partial
      /\ pc' = "resolved" => Cardinality(found) = 1 /\ command \notin Gets
  BY DEF Conclude, Goto
<1>3. ObjectsOK' /\ ClaimsOK'
  BY <1>1, ObjectsFrame, ClaimsFrame
<1>4. ZonesOK'
  BY <1>1 DEF ZonesOK
<1>5. PhaseOK'
  <2>1. pc' = "resolved" => found # {}
    BY <1>2, FS_EmptySet
  <2>2. command # "nn orphans"
    BY <1>1 DEF PhaseOK
  <2>3. QED BY <1>1, <1>2, <2>1, <2>2 DEF PhaseOK, Steps, Deleting, Ended
<1>6. LoadsOK'
  BY <1>1, <1>2, LoadsFrame DEF Deleting
<1>7. Listed'
  BY <1>2 DEF Listed
<1>8. LoadTells' /\ SeenAll'
  BY <1>1, TellsFrame, SeenFrame
<1>9. TargetOK'
  BY <1>1, <1>2, TargetFrame
<1>10. Verdicts'
  <2>1. ASSUME pc' \in {"none", "resolved"}
        PROVE  SpeaksFor \subseteq answered
    <3>1. command \in Searches
      BY <1>1, FleetAssumption DEF ZonesOK, PhaseOK, Deleting
    <3>2. CASE command = "nn delete"
      BY <1>1, <1>2, <2>1, <3>2 DEF Usable, Lenient, WholeFleet, PhaseOK, SpeaksFor
    <3>3. CASE command = "kc"
      BY <1>1, <3>3 DEF WholeFleet, PhaseOK, SpeaksFor
    <3>4. CASE command = "get"
      BY <1>1, <1>2, <2>1, <3>4 DEF Partial, requireWholeFleet, SpeaksFor, Gets
    <3>5. CASE command \in {"use", "plain get"}
      BY <3>5 DEF SpeaksFor
    <3>6. QED BY <3>1, <3>2, <3>3, <3>4, <3>5 DEF Searches, Gets
  <2>2. ASSUME pc' \in {"none", "resolved"}
        PROVE  There(SpeaksFor) \subseteq Ids(found)
    BY <1>1, <2>1, <2>2 DEF Listed, There
  <2>3. There(SpeaksFor)' = There(SpeaksFor) /\ Ids(found)' = Ids(found)
    BY <1>1 DEF There, SpeaksFor, Ids, Id
  <2>4. found = {} => Ids(found) = {}
    BY IdsIn
  <2>5. ResolvesTheOnlyOne'
    BY <1>1, <1>2, <2>2, <2>3, <2>4 DEF ResolvesTheOnlyOne
  <2>6. QED BY <1>2, <2>5 DEF Verdicts, GoneMeansGone, AuditTellsTheTruth
<1>11. QED BY <1>3, <1>4, <1>5, <1>6, <1>7, <1>8, <1>9, <1>10

\* What others do to the objects leaves what a command knows right.
LEMMA OthersOK ==
  ASSUME IInv, pc \notin Ended, UNCHANGED <<pc, zoneVars>>, UNCHANGED netVars,
         ObjectsOK', steady' \subseteq steady
  PROVE  IInv'
<1> USE DEF IInv
<1>1. /\ UNCHANGED <<pc, command, scope, connected, answered, unread, found>>
      /\ UNCHANGED <<claims, load, target, rows, standing, seen>>
  BY DEF zoneVars, netVars
<1>2. ClaimsOK'
  BY <1>1, ClaimsFrame
<1>3. ZonesOK'
  BY <1>1 DEF ZonesOK
<1>4. PhaseOK'
  BY <1>1 DEF PhaseOK
<1>5. LoadsOK'
  BY <1>1, LoadsFrame DEF LoadsOK
<1>6. Listed'
  BY <1>1 DEF Listed, Ids, Id
<1>7. LoadTells' /\ SeenAll'
  BY <1>1, TellsFrame, SeenFrame
<1>8. TargetOK'
  BY <1>1, TargetFrame
<1>9. Verdicts'
  <2>1. There(SpeaksFor)' \subseteq There(SpeaksFor) /\ Ids(found)' = Ids(found)
    BY <1>1 DEF There, SpeaksFor, Ids, Id
  <2>2. pc \notin {"none", "gone", "complete", "incomplete"}
    BY DEF Ended
  <2>3. ResolvesTheOnlyOne'
    BY <1>1, <2>1, <2>2 DEF Verdicts, ResolvesTheOnlyOne
  <2>4. QED BY <1>1, <2>2, <2>3 DEF Verdicts, GoneMeansGone, AuditTellsTheTruth
<1>10. QED BY <1>2, <1>3, <1>4, <1>5, <1>6, <1>7, <1>8, <1>9

\* An object made anew has an id nobody had.
LEMMA CreatedOK ==
  ASSUME ObjectsOK, NEW s \in Sites, Created(s)
  PROVE  ObjectsOK' /\ steady' \subseteq steady
<1> DEFINE new == [site |-> s, gen |-> born + 1, known |-> FALSE, terminating |-> FALSE]
<1>1. /\ born < MaxGen /\ \A o \in objects : o.site # s
      /\ objects' = objects \cup {new} /\ born' = born + 1
      /\ steady' = steady \cap Ids(objects')
      /\ changes' = changes + 1
  BY DEF Created, Changed, Ids, Id
<1>2. MaxGen \in Nat /\ born \in 1..MaxGen /\ changes \in Nat
  BY FleetAssumption DEF ObjectsOK
<1>3. born' \in 1..MaxGen /\ changes' \in Nat
  BY <1>1, <1>2
<1>4. new \in Object /\ new.site = s
  BY <1>1, <1>2 DEF Object
<1> HIDE DEF new
<1>5. objects' \subseteq Object /\ OneEach(objects')
  BY <1>1, <1>4 DEF ObjectsOK, OneEach
<1>6. QED BY <1>1, <1>3, <1>5 DEF ObjectsOK, OneEach, Ids, Id

\* A change of an object keeps one per site.
LEMMA ReplacedOK ==
  ASSUME ObjectsOK, NEW o \in objects, NEW n \in Object, n.site = o.site,
         objects' = (objects \ {o}) \cup {n}
  PROVE  objects' \subseteq Object /\ OneEach(objects')
BY DEF ObjectsOK, OneEach

\* A status write is such a change,
LEMMA StatusWrittenOK ==
  ASSUME ObjectsOK, NEW o \in objects, StatusWritten(o)
  PROVE  ObjectsOK' /\ steady' \subseteq steady
<1> DEFINE n == [o EXCEPT !.known = ~@]
<1>1. /\ objects' = (objects \ {o}) \cup {n} /\ born' = born
      /\ steady' = steady \cap Ids(objects') /\ changes' = changes + 1
  BY DEF StatusWritten, Replace, Changed, Ids, Id
<1>2. n \in Object /\ n.site = o.site
  BY DEF ObjectsOK, Object
<1> HIDE DEF n
<1>3. objects' \subseteq Object /\ OneEach(objects')
  BY <1>1, <1>2, ReplacedOK
<1>4. QED BY <1>1, <1>3 DEF ObjectsOK, OneEach, Ids, Id

\* and so is a deletion by others,
LEMMA DeletedByOthersOK ==
  ASSUME ObjectsOK, NEW o \in objects, DeletedByOthers(o)
  PROVE  ObjectsOK' /\ steady' \subseteq steady
<1> DEFINE n == [o EXCEPT !.terminating = TRUE]
<1>1. /\ objects' = (objects \ {o}) \cup {n} /\ born' = born
      /\ steady' = steady \cap Ids(objects') /\ changes' = changes + 1
  BY DEF DeletedByOthers, Replace, Changed, Ids, Id
<1>2. n \in Object /\ n.site = o.site
  BY DEF ObjectsOK, Object
<1> HIDE DEF n
<1>3. objects' \subseteq Object /\ OneEach(objects')
  BY <1>1, <1>2, ReplacedOK
<1>4. QED BY <1>1, <1>3 DEF ObjectsOK, OneEach, Ids, Id

\* until the object is released.
LEMMA ReleasedOK ==
  ASSUME ObjectsOK, NEW o \in objects, Released(o)
  PROVE  ObjectsOK' /\ steady' \subseteq steady
<1>1. /\ objects' = objects \ {o} /\ born' = born /\ changes' = changes
      /\ steady' = steady \ {Id(o)}
  BY DEF Released, Replace
<1>2. steady' \subseteq Ids(objects')
  <2> SUFFICES ASSUME NEW id \in steady, id # Id(o)
               PROVE  id \in Ids(objects')
    BY <1>1
  <2>1. PICK p \in objects : id = Id(p)
    BY DEF ObjectsOK, Ids
  <2>2. QED BY <1>1, <2>1 DEF Ids
<1>3. QED BY <1>1, <1>2 DEF ObjectsOK, OneEach, Ids, Id

\* So what others do to the objects preserves the invariant.
LEMMA FleetChangesOK ==
  ASSUME IInv, FleetChanges, UNCHANGED netVars
  PROVE  IInv'
<1>1. ObjectsOK' /\ steady' \subseteq steady
  BY CreatedOK, StatusWrittenOK, DeletedByOthersOK, ReleasedOK DEF FleetChanges, IInv
<1>2. QED BY <1>1, OthersOK DEF FleetChanges, Running

\* Reading a list keeps what was read right: the objects and claims of that
\* moment include those that stood all the time.
LEMMA ListOK ==
  ASSUME IInv, NEW z \in Zones, List(z)
  PROVE  IInv'
<1> USE DEF IInv
<1> DEFINE kind == Lists[load[z].step + 1]
           new == [step   |-> load[z].step + 1,
                   nns    |-> IF kind = "nn" THEN In({z}) ELSE load[z].nns,
                   claims |-> load[z].claims \cup {c \in claims : ZoneOf[c.site] = z /\ c.kind = kind}]
<1>1. /\ z \in Loading /\ load[z].step # 4
      /\ load' = [load EXCEPT ![z] = new]
      /\ UNCHANGED <<objects, pc, command, scope, connected, unread, found, steady, born, changes,
                     claims, target, rows, standing, seen>>
  BY DEF List, Complete, Lists
<1>2. /\ load[z] \in Load /\ load[z].step \in 0..3 /\ load[z].nns \subseteq Object
      /\ load[z].claims \subseteq Claims
  BY <1>1 DEF LoadsOK, Load
<1>3. Hit' = Hit
  BY <1>1 DEF Hit
<1>4. \/ pc = "audit" /\ z \in connected \ (answered \cup unread)
      \/ pc \in {"evidence", "recheck"} /\ z = ZoneOf[Hit.site]
  BY <1>1 DEF Loading
<1>5. /\ new \in Load /\ new.step = load[z].step + 1
      /\ OneEach(new.nns) /\ \A o \in new.nns : ZoneOf[o.site] = z
      /\ new.claims = load[z].claims \cup {c \in claims : ZoneOf[c.site] = z /\ c.kind = kind}
  <2>1. In({z}) \subseteq Object /\ OneEach(In({z})) /\ \A o \in In({z}) : ZoneOf[o.site] = z
    BY DEF In, ObjectsOK, OneEach
  <2>2. new.claims \subseteq Claims
    BY <1>2 DEF ClaimsOK
  <2>3. new.nns \subseteq Object /\ OneEach(new.nns) /\ \A o \in new.nns : ZoneOf[o.site] = z
    BY <1>2, <2>1 DEF LoadsOK, OneEach
  <2>4. new.step \in 0..4
    BY <1>2
  <2>5. QED BY <2>2, <2>3, <2>4 DEF Load
<1>6. /\ load'[z] = new
      /\ \A y \in Zones : y # z => load'[y] = load[y]
      /\ load' \in [Zones -> Load]
  BY <1>1, <1>5 DEF LoadsOK
<1>7. answered' = answered \/ (pc = "audit" /\ new.step = 4 /\ answered' = answered \cup {z})
  BY <1>6 DEF List, Lists
<1>8. new.step >= 1 => \A id \in steady : ZoneOf[id[1]] = z => id \in Ids(new.nns)
  <2> SUFFICES ASSUME NEW id \in steady, ZoneOf[id[1]] = z
               PROVE  id \in Ids(new.nns)
    OBVIOUS
  <2>1. CASE kind = "nn"
    <3>1. PICK o \in objects : id = <<o.site, o.gen>>
      BY IdsIn DEF ObjectsOK
    <3>2. o \in In({z})
      BY <3>1, InIs
    <3>3. QED BY <2>1, <3>1, <3>2, IdsIn
  <2>2. CASE kind # "nn"
    <3>1. load[z].step # 0
      BY <2>2 DEF Lists
    <3>2. load[z].step >= 1
      BY <1>2, <3>1
    <3>3. QED BY <2>2, <3>2 DEF LoadTells
  <2>3. QED BY <2>1, <2>2
<1>9. \A c \in standing : ZoneOf[c.site] = z /\ c.kind \in KindsRead(new.step) => c \in new.claims
  <2> SUFFICES ASSUME NEW c \in standing, ZoneOf[c.site] = z, c.kind \in KindsRead(new.step)
               PROVE  c \in new.claims
    OBVIOUS
  <2>1. c.kind \in KindsRead(load[z].step) \/ c.kind = kind
    BY <1>2 DEF KindsRead
  <2>2. CASE c.kind = kind
    BY <2>2 DEF ClaimsOK
  <2>3. CASE c.kind \in KindsRead(load[z].step)
    BY <2>3 DEF LoadTells
  <2>4. QED BY <2>1, <2>2, <2>3
<1> HIDE DEF new, kind
<1>10. ObjectsOK' /\ ClaimsOK'
  BY <1>1, ObjectsFrame, ClaimsFrame
<1>11. ZonesOK'
  BY <1>1, <1>4, <1>7 DEF ZonesOK
<1>12. PhaseOK'
  BY <1>1, <1>4, <1>7 DEF PhaseOK
<1>13. LoadsOK'
  <2>1. \A y \in Zones : OneEach(load'[y].nns) /\ \A o \in load'[y].nns : ZoneOf[o.site] = y
    BY <1>5, <1>6 DEF LoadsOK
  <2>2. pc \in Deleting => \A y \in Zones : y # ZoneOf[Hit.site] => load'[y] = NotLoaded
    BY <1>4, <1>6 DEF LoadsOK, Deleting
  <2>3. pc = "audit" => \A y \in answered' : load'[y].step = 4
    BY <1>4, <1>6, <1>7 DEF LoadsOK, Complete, Lists, ZonesOK
  <2>4. pc \notin {"start", "list", "resolved"}
    BY <1>4
  <2>5. QED BY <1>1, <1>3, <1>6, <2>1, <2>2, <2>3, <2>4 DEF LoadsOK, OneEach, Complete, Lists
<1>14. Listed'
  BY <1>1, <1>4 DEF Listed
<1>15. LoadTells'
  BY <1>1, <1>6, <1>8, <1>9 DEF LoadTells, KindsRead, Ids, Id
<1>16. SeenAll'
  BY <1>1, <1>5, <1>6 DEF SeenAll
<1>17. TargetOK'
  BY <1>1, <1>4 DEF TargetOK, OneEach
<1>18. Verdicts'
  BY <1>1, <1>4, NoVerdict
<1>19. QED BY <1>10, <1>11, <1>12, <1>13, <1>14, <1>15, <1>16, <1>17, <1>18

\* A list that fails adds nothing.
LEMMA ListFailsOK ==
  ASSUME IInv, NEW z \in Zones, ListFails(z)
  PROVE  IInv'
<1> USE DEF IInv
<1>1. /\ z \in Loading
      /\ UNCHANGED <<objects, command, scope, connected, answered, found, steady, born, changes>>
      /\ UNCHANGED <<claims, load, target, rows, standing, seen>>
      /\ \/ pc = "audit" /\ pc' = pc /\ unread' = unread \cup {z}
         \/ pc # "audit" /\ pc' = "failed" /\ unread' = unread
  BY DEF ListFails, Goto, netVars
<1>2. \/ pc = "audit" /\ z \in connected \ (answered \cup unread)
      \/ pc \in {"evidence", "recheck"}
  BY <1>1 DEF Loading
<1>3. ObjectsOK' /\ ClaimsOK'
  BY <1>1, ObjectsFrame, ClaimsFrame
<1>4. ZonesOK'
  BY <1>1, <1>2 DEF ZonesOK
<1>5. PhaseOK'
  BY <1>1, <1>2 DEF PhaseOK, Steps, Deleting, Ended
<1>6. LoadsOK'
  BY <1>1, <1>2, LoadsFrame DEF Deleting, LoadsOK
<1>7. Listed'
  BY <1>1, <1>2 DEF Listed
<1>8. LoadTells' /\ SeenAll'
  BY <1>1, TellsFrame, SeenFrame
<1>9. TargetOK'
  BY <1>1, <1>2, TargetFrame
<1>10. Verdicts'
  BY <1>1, <1>2, NoVerdict
<1>11. QED BY <1>3, <1>4, <1>5, <1>6, <1>7, <1>8, <1>9, <1>10

\* Gates that pass on claims C clear the object of every claim in D, if C has
\* those of D on its site.
LEMMA ClaimsOnNotBlocked ==
  ASSUME NEW C, NEW D, C \subseteq Claims, D \subseteq Claims, NEW o, ~Blocked(o, C),
         \A c \in D : c.site = o.site => c \in C
  PROVE  \A c \in D : ~MayClaim(c, o)
<1> SUFFICES ASSUME NEW c \in D, c.site = o.site,
                    \/ c.names \in {"this", "unreadable"}
                    \/ c.kind = "nc" /\ (c.vlan = "this" \/ (c.names = "none" /\ c.vlan = "none"))
             PROVE  FALSE
  BY DEF MayClaim
<1>1. c \in C /\ c \in Claims /\ c \in Claim
  BY ClaimsAssumption
<1>2. /\ c \notin ReferencingKCs(o, C) /\ c \notin NCRefs(o, C) /\ c \notin IPAllocs(o, C)
      /\ c \notin NCUnevaluated(o, C) /\ c \notin IPAllocUnevaluated(o, C)
  BY DEF Blocked, InUse, Unresolved
<1>3. /\ c.kind \in {"kc", "nc", "ip"} /\ c.names \in {"this", "other", "none", "unreadable"}
      /\ c.names = "other" => c.vlan # "this"
      /\ c.names = "unreadable" => c.kind = "ip"
  BY <1>1, ClaimsAssumption DEF Claim
<1>4. CASE c.kind = "kc"
  BY <1>1, <1>2, <1>3, <1>4 DEF ReferencingKCs, On
<1>5. CASE c.kind = "ip"
  BY <1>1, <1>2, <1>3, <1>5 DEF IPAllocs, IPAllocUnevaluated, On
<1>6. CASE c.kind = "nc"
  BY <1>1, <1>2, <1>3, <1>6 DEF NCRefs, NCUnevaluated, On
<1>7. QED BY <1>3, <1>4, <1>5, <1>6

\* An object nobody claims is neither in use nor blocked.
LEMMA NobodyOn ==
  ASSUME NEW C, NEW o, \A c \in C : c.site # o.site
  PROVE  ~InUse(o, C) /\ ~Blocked(o, C)
BY DEF InUse, Blocked, Unresolved, ReferencingKCs, NCRefs, NCUnevaluated, IPAllocs, IPAllocUnevaluated, On

\* Four lists tell of all claims.
LEMMA AllRead == \A c \in Claims : c.kind \in KindsRead(4)
<1> SUFFICES ASSUME NEW c \in Claims PROVE c.kind \in KindsRead(4)
  OBVIOUS
<1>1. c.kind \in {"kc", "nc", "ip"}
  BY ClaimsAssumption DEF Claim
<1>2. Lists[2] = "kc" /\ Lists[3] = "nc" /\ Lists[4] = "ip"
  BY DEF Lists
<1>3. 2 \in 1..4 /\ 3 \in 1..4 /\ 4 \in 1..4
  OBVIOUS
<1>4. QED BY <1>1, <1>2, <1>3 DEF KindsRead

\* The audit's summary: its rows are right for every claim that stood all the
\* time, and complete if every zone was read.
LEMMA AuditSummaryOK ==
  ASSUME IInv, AuditSummary
  PROVE  IInv'
<1> USE DEF IInv
<1> DEFINE Listing(z) == {p \in Orphans(load[z].nns, load[z].claims) : ~tooYoung(p)}
           Row(z, o) == [object |-> o, deletable |-> ~Blocked(o, load[z].claims)]
<1>1. /\ pc = "audit" /\ connected = answered \cup unread
      /\ rows' = UNION {{Row(z, o) : o \in Listing(z)} : z \in answered}
      /\ pc' = IF Audited THEN "complete" ELSE "incomplete"
      /\ UNCHANGED <<objects, command, scope, connected, answered, unread, found, steady, born, changes>>
      /\ UNCHANGED <<claims, load, target, standing, seen>>
  BY DEF AuditSummary, Goto, zoneVars
<1>2. \A z \in answered : z \in Zones /\ load[z].step = 4
  BY <1>1 DEF ZonesOK, LoadsOK, Complete, Lists
<1>3. \A z, o : o \in Listing(z) <=> (o \in load[z].nns /\ ~InUse(o, load[z].claims) /\ ~tooYoung(o))
  BY DEF Orphans
<1> HIDE DEF Listing
<1>4. \A r \in rows' : r.deletable => \A c \in standing' : ~MayClaim(c, r.object)
  <2> SUFFICES ASSUME NEW r \in rows', r.deletable
               PROVE  \A c \in standing : ~MayClaim(c, r.object)
    BY <1>1 DEF MayClaim
  <2>1. PICK z \in answered : \E o \in Listing(z) : r = Row(z, o)
    BY <1>1
  <2>2. PICK o \in Listing(z) : r = Row(z, o)
    BY <2>1
  <2>3. o \in load[z].nns /\ z \in Zones /\ load[z].step = 4
    BY <1>2, <1>3
  <2>4. ZoneOf[o.site] = z
    BY <2>3 DEF LoadsOK
  <2>5. standing \subseteq Claims /\ load[z].claims \subseteq Claims
    BY <2>3 DEF ClaimsOK, LoadsOK, Load
  <2>6. \A c \in standing : c.site = o.site => c \in load[z].claims
    BY <2>3, <2>4, <2>5, AllRead DEF LoadTells
  <2>7. ~Blocked(o, load[z].claims) /\ r.object = o
    BY <2>2
  <2>8. QED BY <2>5, <2>6, <2>7, ClaimsOnNotBlocked
<1>5. ASSUME pc' = "complete", NEW id \in steady, ZoneOf[id[1]] \in scope, id[2] = 0,
             \A c \in seen : c.site # id[1]
      PROVE  \E r \in rows' : Id(r.object) = id /\ r.deletable
  <2> DEFINE z == ZoneOf[id[1]]
  <2>1. z \in answered /\ z \in Zones /\ load[z].step = 4
    BY <1>1, <1>2, <1>5 DEF Audited
  <2>2. PICK o \in load[z].nns : id = <<o.site, o.gen>>
    <3>1. load[z].step >= 1
      BY <2>1
    <3>2. id \in Ids(load[z].nns)
      BY <1>5, <2>1, <3>1 DEF LoadTells
    <3>3. QED BY <3>2, IdsIn
  <2>3. id[1] = o.site /\ id[2] = o.gen
    BY <2>2
  <2>4. \A c \in load[z].claims : c.site # o.site
    BY <1>1, <1>5, <2>1, <2>3 DEF SeenAll, PhaseOK
  <2>5. ~InUse(o, load[z].claims) /\ ~Blocked(o, load[z].claims)
    BY <2>4, NobodyOn
  <2>6. o \in Listing(z)
    <3>1. ~tooYoung(o)
      BY <1>5, <2>3 DEF tooYoung
    <3>2. QED BY <1>3, <2>2, <2>5, <3>1
  <2>7. Row(z, o) \in rows'
    BY <1>1, <2>1, <2>6
  <2>8. Id(Row(z, o).object) = id /\ Row(z, o).deletable
    BY <2>2, <2>5 DEF Id
  <2>9. QED BY <2>7, <2>8
<1>6. ObjectsOK' /\ ClaimsOK'
  BY <1>1, ObjectsFrame, ClaimsFrame
<1>7. ZonesOK'
  BY <1>1 DEF ZonesOK
<1>8. PhaseOK'
  BY <1>1 DEF PhaseOK, Steps, Deleting, Ended
<1>9. LoadsOK'
  BY <1>1, LoadsFrame DEF Deleting
<1>10. Listed'
  BY <1>1 DEF Listed
<1>11. LoadTells' /\ SeenAll'
  BY <1>1, TellsFrame, SeenFrame
<1>12. TargetOK'
  BY <1>1, TargetFrame
<1>13. AuditTellsTheTruth'
  <2>1. (pc \in {"complete", "incomplete"} =>
           \A r \in rows : r.deletable => \A c \in standing : ~MayClaim(c, r.object))'
    BY <1>4
  <2>2. (pc = "complete" =>
           \A id \in steady :
             /\ ZoneOf[id[1]] \in scope /\ id[2] = 0
             /\ \A c \in seen : c.site # id[1]
             => \E r \in rows : Id(r.object) = id /\ r.deletable)'
    BY <1>1, <1>5 DEF Id
  <2>3. QED BY <2>1, <2>2 DEF AuditTellsTheTruth
<1>14. Verdicts'
  BY <1>1, <1>13 DEF Verdicts, ResolvesTheOnlyOne, GoneMeansGone
<1>15. QED BY <1>6, <1>7, <1>8, <1>9, <1>10, <1>11, <1>12, <1>14

\* Going to read the evidence preserves the invariant,
LEMMA EvidenceOK ==
  ASSUME IInv, Evidence
  PROVE  IInv'
<1> USE DEF IInv
<1>1. /\ pc = "resolved" /\ command = "nn delete" /\ pc' = "evidence"
      /\ UNCHANGED <<objects, command, scope, connected, answered, unread, found, steady, born, changes>>
      /\ UNCHANGED <<claims, load, target, rows, standing, seen>>
  BY DEF Evidence, Goto, zoneVars, netVars
<1>2. ObjectsOK' /\ ClaimsOK' /\ LoadTells' /\ SeenAll'
  BY <1>1, ObjectsFrame, ClaimsFrame, TellsFrame, SeenFrame
<1>3. ZonesOK' /\ PhaseOK' /\ Listed'
  BY <1>1 DEF ZonesOK, PhaseOK, Steps, Deleting, Ended, Listed
<1>4. LoadsOK'
  BY <1>1, LoadsFrame DEF Deleting
<1>5. TargetOK' /\ Verdicts'
  BY <1>1, TargetFrame, NoVerdict
<1>6. QED BY <1>2, <1>3, <1>4, <1>5

\* and the gates,
LEMMA GatesOK ==
  ASSUME IInv, Gates
  PROVE  IInv'
<1> USE DEF IInv
<1>1. /\ pc = "evidence" /\ pc' \in {"failed", "prompt"}
      /\ UNCHANGED <<objects, command, scope, connected, answered, unread, found, steady, born, changes>>
      /\ UNCHANGED <<claims, load, target, rows, standing, seen>>
  BY DEF Gates, Goto, zoneVars, netVars
<1>2. ObjectsOK' /\ ClaimsOK' /\ LoadTells' /\ SeenAll'
  BY <1>1, ObjectsFrame, ClaimsFrame, TellsFrame, SeenFrame
<1>3. ZonesOK' /\ PhaseOK' /\ Listed'
  BY <1>1 DEF ZonesOK, PhaseOK, Steps, Deleting, Ended, Listed
<1>4. LoadsOK'
  BY <1>1, LoadsFrame DEF Deleting
<1>5. TargetOK' /\ Verdicts'
  BY <1>1, TargetFrame, NoVerdict
<1>6. QED BY <1>2, <1>3, <1>4, <1>5

\* and the prompt, at which what was read is forgotten,
LEMMA ConfirmOK ==
  ASSUME IInv, Confirm
  PROVE  IInv'
<1> USE DEF IInv
<1>1. /\ pc = "prompt"
      /\ UNCHANGED <<objects, command, scope, connected, answered, unread, found, steady, born, changes>>
      /\ UNCHANGED <<claims, target, rows, seen>>
  BY DEF Confirm, zoneVars
<1>2. \/ /\ pc' = "recheck" /\ standing' = claims
         /\ load' = [load EXCEPT ![ZoneOf[Hit.site]] = NotLoaded]
      \/ pc' = "failed" /\ load' = load /\ standing' = standing
  BY DEF Confirm, Goto, Reset
<1>3. Hit' = Hit
  BY <1>1 DEF Hit
<1>4. ZoneOf[Hit.site] \in Zones
  BY <1>1, HitFound DEF PhaseOK, Deleting
<1>5. NotLoaded \in Load /\ NotLoaded.nns = {} /\ NotLoaded.claims = {} /\ NotLoaded.step = 0
  BY DEF NotLoaded, Load
<1>6. ObjectsOK' /\ ClaimsOK'
  BY <1>1, <1>2, ObjectsFrame DEF ClaimsOK
<1>7. ZonesOK' /\ PhaseOK' /\ Listed'
  BY <1>1, <1>2 DEF ZonesOK, PhaseOK, Steps, Deleting, Ended, Listed
<1>8. CASE pc' = "recheck"
  <2>1. \A z \in Zones : load'[z] = NotLoaded
    BY <1>1, <1>2, <1>4, <1>8 DEF LoadsOK, Deleting
  <2>2. load' \in [Zones -> Load]
    BY <1>2, <1>4, <1>5, <1>8 DEF LoadsOK
  <2>3. LoadsOK'
    BY <1>5, <1>8, <2>1, <2>2 DEF LoadsOK, OneEach
  <2>4. KindsRead(0) = {}
    BY DEF KindsRead
  <2>5. LoadTells'
    BY <1>5, <2>1, <2>4 DEF LoadTells
  <2>6. SeenAll'
    BY <1>1, <1>5, <2>1 DEF SeenAll
  <2>7. TargetOK'
    BY <1>1, <1>8 DEF TargetOK, OneEach
  <2>8. Verdicts'
    BY <1>8, NoVerdict
  <2>9. QED BY <1>6, <1>7, <2>3, <2>5, <2>6, <2>7, <2>8
<1>9. CASE pc' = "failed"
  <2>1. load' = load /\ standing' = standing
    BY <1>2, <1>9
  <2>2. LoadsOK'
    BY <1>1, <1>9, <2>1, LoadsFrame DEF Deleting
  <2>3. LoadTells' /\ SeenAll'
    BY <1>1, <2>1, TellsFrame, SeenFrame
  <2>4. TargetOK' /\ Verdicts'
    BY <1>1, <1>9, <2>1, TargetFrame, NoVerdict
  <2>5. QED BY <1>6, <1>7, <2>2, <2>3, <2>4
<1>10. QED BY <1>2, <1>8, <1>9

\* and the gates anew, on what was read since,
LEMMA RecheckOK ==
  ASSUME IInv, recheckGates
  PROVE  IInv'
<1> USE DEF IInv
<1>1. /\ pc = "recheck" /\ Loaded.step = 4
      /\ target' = {o \in Loaded.nns : o.site = Hit.site}
      /\ pc' \in {"failed", "delete"}
      /\ pc' = "delete" => \A o \in target' : ~Blocked(o, Loaded.claims)
      /\ UNCHANGED <<objects, command, scope, connected, answered, unread, found, steady, born, changes>>
      /\ UNCHANGED <<claims, load, rows, standing, seen>>
  BY DEF recheckGates, Goto, zoneVars, Lists
<1>2. ObjectsOK' /\ ClaimsOK' /\ LoadTells' /\ SeenAll'
  BY <1>1, ObjectsFrame, ClaimsFrame, TellsFrame, SeenFrame
<1>3. ZonesOK' /\ PhaseOK' /\ Listed'
  BY <1>1 DEF ZonesOK, PhaseOK, Steps, Deleting, Ended, Listed
<1>4. LoadsOK'
  BY <1>1, LoadsFrame DEF Deleting
<1>5. TargetOK'
  <2>1. Hit' = Hit
    BY <1>1 DEF Hit
  <2>2. Loaded' = Loaded
    BY <1>1, <2>1 DEF Loaded
  <2>3. ZoneOf[Hit.site] \in Zones
    BY <1>1, HitFound DEF PhaseOK, Deleting
  <2>4. Loaded.nns \subseteq Object /\ OneEach(Loaded.nns)
    BY <2>3 DEF Loaded, LoadsOK, Load
  <2>5. target' \subseteq Object /\ OneEach(target') /\ \A o1, o2 \in target' : o1.site = o2.site
    BY <1>1, <2>4 DEF OneEach
  <2>6. pc' = "delete" =>
           /\ Loaded.step = 4 /\ target' \subseteq {o \in Loaded.nns : o.site = Hit.site}
           /\ \A o \in target' : ~Blocked(o, Loaded.claims)
    BY <1>1
  <2>7. QED BY <2>1, <2>2, <2>5, <2>6
    DEF TargetOK, OneEach, Blocked, InUse, Unresolved, ReferencingKCs, NCRefs, NCUnevaluated,
        IPAllocs, IPAllocUnevaluated, On
<1>6. Verdicts'
  BY <1>1, NoVerdict
<1>7. QED BY <1>2, <1>3, <1>4, <1>5, <1>6

\* and the deletion: the request leaves the id in place,
LEMMA DeleteAndWaitOK ==
  ASSUME IInv, DeleteAndWait
  PROVE  IInv'
<1> USE DEF IInv
<1>1. /\ pc = "delete"
      /\ UNCHANGED <<command, scope, connected, answered, unread, found, steady, born, changes>>
      /\ UNCHANGED <<claims, load, target, rows, standing, seen>>
  BY DEF DeleteAndWait, zoneVars, netVars
<1>2. PICK t \in target :
        \/ objects' = objects /\ pc' \in {"wait", "failed"}
        \/ objects' = objects /\ pc' = "gone" /\ At(t.site) = {}
        \/ /\ pc' \in {"wait", "failed"}
           /\ \E o \in At(t.site) : objects' = (objects \ {o}) \cup {[o EXCEPT !.terminating = TRUE]}
  BY DEF DeleteAndWait, Goto, Replace
<1>3. pc' \in {"wait", "failed", "gone"}
  BY <1>2
<1>4. ObjectsOK'
  <2>1. CASE objects' = objects
    BY <1>1, <2>1, ObjectsFrame
  <2>2. CASE \E o \in At(t.site) : objects' = (objects \ {o}) \cup {[o EXCEPT !.terminating = TRUE]}
    <3>1. PICK o \in objects : objects' = (objects \ {o}) \cup {[o EXCEPT !.terminating = TRUE]}
      BY <2>2 DEF At
    <3> DEFINE n == [o EXCEPT !.terminating = TRUE]
    <3>2. n \in Object /\ n.site = o.site /\ n.gen = o.gen
      BY DEF ObjectsOK, Object
    <3>3. objects' = (objects \ {o}) \cup {n}
      BY <3>1
    <3> HIDE DEF n
    <3>4. objects' \subseteq Object /\ OneEach(objects')
      BY <3>2, <3>3, ReplacedOK
    <3>5. Ids(objects) \subseteq Ids(objects')
      <4> SUFFICES ASSUME NEW id \in Ids(objects) PROVE id \in Ids(objects')
        OBVIOUS
      <4>1. PICK q \in objects : id = <<q.site, q.gen>>
        BY IdsIn
      <4>2. CASE q = o
        <5>1. id = <<n.site, n.gen>> /\ n \in objects'
          BY <3>2, <3>3, <4>1, <4>2
        <5>2. QED BY <5>1, IdsIn
      <4>3. CASE q # o
        <5>1. q \in objects'
          BY <3>3, <4>3
        <5>2. QED BY <4>1, <5>1, IdsIn
      <4>4. QED BY <4>2, <4>3
    <3>6. steady' \subseteq Ids(objects') /\ born' \in 1..MaxGen /\ changes' \in Nat
      BY <1>1, <3>5 DEF ObjectsOK
    <3>7. QED BY <3>4, <3>6 DEF ObjectsOK, OneEach, Ids, Id
  <2>3. QED BY <1>2, <2>1, <2>2
<1>5. ClaimsOK' /\ LoadTells' /\ SeenAll'
  BY <1>1, ClaimsFrame, TellsFrame, SeenFrame
<1>6. ZonesOK' /\ PhaseOK' /\ Listed'
  BY <1>1, <1>3 DEF ZonesOK, PhaseOK, Steps, Deleting, Ended, Listed
<1>7. LoadsOK'
  BY <1>1, <1>3, LoadsFrame DEF Deleting
<1>8. TargetOK'
  BY <1>1, <1>3, TargetFrame
<1>9. Verdicts'
  <2>1. pc' = "gone" => \A u \in target' : Id(u)' \notin Ids(objects')
    <3> SUFFICES ASSUME pc' = "gone", NEW u \in target, Id(u) \in Ids(objects')
                 PROVE  FALSE
      BY <1>1 DEF Id
    <3>1. objects' = objects /\ At(t.site) = {}
      BY <1>2
    <3>2. PICK o \in objects : Id(u) = <<o.site, o.gen>>
      BY <3>1, IdsIn
    <3>3. o.site = u.site /\ u.site = t.site
      BY <3>2 DEF Id, TargetOK
    <3>4. QED BY <3>1, <3>3 DEF At
  <2>2. GoneMeansGone'
    BY <2>1 DEF GoneMeansGone, Ids, Id
  <2>3. QED BY <1>3, <2>2 DEF Verdicts, ResolvesTheOnlyOne, AuditTellsTheTruth
<1>10. QED BY <1>4, <1>5, <1>6, <1>7, <1>8, <1>9

\* and polling, which says gone of an empty place only.
LEMMA PollOK ==
  ASSUME IInv, Poll
  PROVE  IInv'
<1> USE DEF IInv
<1>1. /\ pc = "wait" /\ pc' \in {"gone", "failed"}
      /\ pc' = "gone" => \A t \in target : At(t.site) = {}
      /\ UNCHANGED <<objects, command, scope, connected, answered, unread, found, steady, born, changes>>
      /\ UNCHANGED <<claims, load, target, rows, standing, seen>>
  BY DEF Poll, Goto, zoneVars, netVars
<1>2. ObjectsOK' /\ ClaimsOK' /\ LoadTells' /\ SeenAll'
  BY <1>1, ObjectsFrame, ClaimsFrame, TellsFrame, SeenFrame
<1>3. ZonesOK' /\ PhaseOK' /\ Listed'
  BY <1>1 DEF ZonesOK, PhaseOK, Steps, Deleting, Ended, Listed
<1>4. LoadsOK'
  BY <1>1, LoadsFrame DEF Deleting
<1>5. TargetOK'
  BY <1>1, TargetFrame
<1>6. Verdicts'
  <2>1. pc' = "gone" => \A u \in target : Id(u) \notin Ids(objects)
    <3> SUFFICES ASSUME pc' = "gone", NEW u \in target, Id(u) \in Ids(objects)
                 PROVE  FALSE
      OBVIOUS
    <3>1. PICK o \in objects : Id(u) = <<o.site, o.gen>>
      BY IdsIn
    <3>2. o.site = u.site
      BY <3>1 DEF Id
    <3>3. QED BY <1>1, <3>2 DEF At
  <2>2. GoneMeansGone'
    BY <1>1, <2>1 DEF GoneMeansGone, Ids, Id
  <2>3. QED BY <1>1, <2>2 DEF Verdicts, ResolvesTheOnlyOne, AuditTellsTheTruth
<1>7. QED BY <1>2, <1>3, <1>4, <1>5, <1>6

\* Users come and go, and what stood all the time gets less.
LEMMA ClaimsChangeOK ==
  ASSUME IInv, ClaimsChange
  PROVE  IInv'
<1> USE DEF IInv
<1>1. /\ pc \notin Ended
      /\ changes' = changes + 1
      /\ standing' = standing \cap claims'
      /\ seen' = IF command = "nn orphans" THEN seen \cup claims' ELSE seen
      /\ UNCHANGED <<objects, pc, command, scope, connected, answered, unread, found, steady, born>>
      /\ UNCHANGED <<load, target, rows>>
  BY DEF ClaimsChange, Running, zoneVars
<1>2. claims' \subseteq Claims
  BY DEF ClaimsChange, ClaimsOK
<1>3. ObjectsOK'
  <2>1. changes' \in Nat
    <3>1. changes \in Nat
      BY DEF ObjectsOK
    <3>2. changes' = changes + 1
      BY <1>1
    <3>3. QED BY ONLY <3>1, <3>2
  <2>2. QED BY <1>1, <2>1 DEF ObjectsOK, OneEach, Ids, Id
<1>4. ClaimsOK'
  BY <1>1, <1>2 DEF ClaimsOK
<1>5. ZonesOK' /\ PhaseOK' /\ Listed'
  BY <1>1 DEF ZonesOK, PhaseOK, Listed, Ids, Id
<1>6. LoadsOK'
  BY <1>1, LoadsFrame DEF LoadsOK
<1>7. LoadTells'
  BY <1>1, TellsFrame
<1>8. SeenAll'
  BY <1>1 DEF SeenAll
<1>9. TargetOK'
  BY <1>1, TargetFrame
<1>10. Verdicts'
  <2>1. There(SpeaksFor)' = There(SpeaksFor) /\ Ids(found)' = Ids(found)
    BY <1>1 DEF There, SpeaksFor, Ids, Id
  <2>2. pc \notin {"none", "gone", "complete", "incomplete"}
    BY <1>1 DEF Ended
  <2>3. QED BY <1>1, <2>1, <2>2 DEF Verdicts, ResolvesTheOnlyOne, GoneMeansGone, AuditTellsTheTruth
<1>11. QED BY <1>3, <1>4, <1>5, <1>6, <1>7, <1>8, <1>9, <1>10

\* Nothing happens.
LEMMA StutterOK ==
  ASSUME IInv, UNCHANGED vars
  PROVE  IInv'
<1> USE DEF IInv
<1>1. /\ UNCHANGED <<objects, pc, command, scope, connected, answered, unread, found, steady, born, changes>>
      /\ UNCHANGED <<claims, load, target, rows, standing, seen>>
  BY DEF vars, fleetVars, netVars, zoneVars
<1>2. ObjectsOK' /\ ClaimsOK' /\ LoadTells' /\ SeenAll'
  BY <1>1, ObjectsFrame, ClaimsFrame, TellsFrame, SeenFrame
<1>3. ZonesOK' /\ PhaseOK' /\ Listed'
  BY <1>1 DEF ZonesOK, PhaseOK, Listed, Ids, Id
<1>4. LoadsOK'
  BY <1>1, LoadsFrame DEF LoadsOK
<1>5. TargetOK'
  BY <1>1, TargetFrame
<1>6. Verdicts'
  <2>1. There(SpeaksFor)' = There(SpeaksFor) /\ Ids(found)' = Ids(found) /\ Ids(objects)' = Ids(objects)
    BY <1>1 DEF There, SpeaksFor, Ids, Id
  <2>2. ResolvesTheOnlyOne'
    BY <1>1, <2>1 DEF Verdicts, ResolvesTheOnlyOne
  <2>3. GoneMeansGone'
    BY <1>1, <2>1 DEF Verdicts, GoneMeansGone, Id
  <2>4. AuditTellsTheTruth'
    BY <1>1 DEF Verdicts, AuditTellsTheTruth, MayClaim, Id
  <2>5. QED BY <2>2, <2>3, <2>4 DEF Verdicts
<1>7. QED BY <1>2, <1>3, <1>4, <1>5, <1>6

\* Every step preserves the invariant.
LEMMA StepOK == IInv /\ [Next]_vars => IInv'
<1> SUFFICES ASSUME IInv, [Next]_vars PROVE IInv'
  OBVIOUS
<1>1. CASE FleetNext /\ UNCHANGED netVars
  BY <1>1, ConnectAllOK, ListZoneOK, ConcludeOK, FleetChangesOK DEF FleetNext
<1>2. ASSUME NEW z \in Zones, List(z) \/ ListFails(z) PROVE IInv'
  BY <1>2, ListOK, ListFailsOK
<1>3. CASE AuditSummary
  BY <1>3, AuditSummaryOK
<1>4. CASE Evidence
  BY <1>4, EvidenceOK
<1>5. CASE Gates
  BY <1>5, GatesOK
<1>6. CASE Confirm
  BY <1>6, ConfirmOK
<1>7. CASE recheckGates
  BY <1>7, RecheckOK
<1>8. CASE DeleteAndWait
  BY <1>8, DeleteAndWaitOK
<1>9. CASE Poll
  BY <1>9, PollOK
<1>10. CASE ClaimsChange
  BY <1>10, ClaimsChangeOK
<1>11. CASE UNCHANGED vars
  BY <1>11, StutterOK
<1>12. QED
  BY <1>1, <1>2, <1>3, <1>4, <1>5, <1>6, <1>7, <1>8, <1>9, <1>10, <1>11 DEF Next

\* The invariant holds in every reachable state.
LEMMA Invariant == Spec => []IInv
BY InitOK, StepOK, PTL DEF Spec
-----------------------------------------------------------------------------
(***************************************************************************)
(* Type correctness: at most one object is ever the target of a deletion,  *)
(* and only zones that were connected to answer or fail.                   *)
(***************************************************************************)
THEOREM TypeCorrect == Spec => []TypeOK
<1>1. IInv => TypeOK
  <2> SUFFICES ASSUME IInv PROVE TypeOK
    OBVIOUS
  <2>1. Cardinality(target) <= 1
    <3>1. CASE target = {}
      BY <3>1, FS_EmptySet
    <3>2. CASE target # {}
      <4>1. PICK t \in target : TRUE
        BY <3>2
      <4>2. \A o \in target : o = t
        BY DEF IInv, TargetOK, OneEach
      <4>3. target = {t}
        BY <4>1, <4>2
      <4>4. Cardinality(target) = 1
        BY <4>3, FS_Singleton, Zenon
      <4>5. QED BY <4>4
    <3>3. QED BY <3>1, <3>2
  <2>2. objects \subseteq Object /\ \A o1, o2 \in objects : o1.site = o2.site => o1 = o2
    BY DEF IInv, ObjectsOK, OneEach
  <2>3. pc \in {"start", "list", "resolved", "audit", "evidence", "prompt", "recheck", "delete", "wait"} \cup Ended
    BY DEF IInv, PhaseOK, Steps, Deleting
  <2>4. \A z \in Zones : load[z].step \in 0..Len(Lists) /\ load[z].claims \subseteq Claims
    <3>1. Len(Lists) = 4
      BY DEF Lists
    <3>2. QED BY <3>1 DEF IInv, LoadsOK, Load
  <2>5. QED BY <2>1, <2>2, <2>3, <2>4 DEF IInv, ZonesOK, ClaimsOK, TargetOK, TypeOK
<1>2. QED BY Invariant, <1>1, PTL

(***************************************************************************)
(* A command resolves a name to an object only if it knows of no other     *)
(* that was there all the time in the zones it speaks for, and says that   *)
(* there is none only if there was none in these: all zones it was to      *)
(* search for nn delete and get, all but those that failed to list for     *)
(* viti kc delete, preclean and scale, those that answered for the rest.   *)
(***************************************************************************)
THEOREM ResolvesTheOnlyMatch == Spec => []ResolvesTheOnlyOne
<1>1. IInv => ResolvesTheOnlyOne
  BY DEF IInv, Verdicts
<1>2. QED BY Invariant, <1>1, PTL

(***************************************************************************)
(* A deletion reports success only when no object has the id of the one it *)
(* deleted.                                                                *)
(***************************************************************************)
THEOREM SuccessMeansGone == Spec => []GoneMeansGone
<1>1. IInv => GoneMeansGone
  BY DEF IInv, Verdicts
<1>2. QED BY Invariant, <1>1, PTL

(***************************************************************************)
(* What the audit of network namespaces calls deletable nothing claimed    *)
(* all along; and an audit that exits with success has missed nothing in   *)
(* the zones it was asked for.                                             *)
(***************************************************************************)
THEOREM AuditIsTruthful == Spec => []AuditTellsTheTruth
<1>1. IInv => AuditTellsTheTruth
  BY DEF IInv, Verdicts
<1>2. QED BY Invariant, <1>1, PTL

\* No other action leaves the step that deletes.
LEMMA OnlyTheDeletionActs ==
  ASSUME IInv, [Next]_vars, pc = "delete", pc' # pc
  PROVE  DeleteAndWait
<1>1. ~ (FleetNext /\ UNCHANGED netVars)
  BY DEF FleetNext, ListZone, ConnectAll, Conclude, FleetChanges
<1>2. ASSUME NEW z \in Zones
      PROVE  ~List(z) /\ ~ListFails(z)
  BY DEF List, ListFails, Loading
<1>3. QED
  BY <1>1, <1>2 DEF Next, AuditSummary, Evidence, Gates, Confirm, recheckGates, Poll, ClaimsChange,
     vars, fleetVars

(***************************************************************************)
(* Every deletion is of the object the gates were evaluated for, and       *)
(* nothing that has stood since the operator confirmed claims it: the four *)
(* lists read one after another after the prompt, and the precondition on  *)
(* the UID, are enough.                                                    *)
(***************************************************************************)
THEOREM DeletesOnlyWhatNobodyClaims == Spec => DeletesOnlyUnused
<1> DEFINE Sound(o) == DeletesOf(o) =>
                         /\ \A c \in standing : ~MayClaim(c, o)
                         /\ Id(o) \in Ids(Loaded.nns)
<1>1. ASSUME IInv, [Next]_vars, NEW o \in objects, DeletesOf(o)
      PROVE  (\A c \in standing : ~MayClaim(c, o)) /\ Id(o) \in Ids(Loaded.nns)
  <2> USE DEF IInv
  <2>1. pc = "delete" /\ pc' # pc /\ ~o.terminating /\ [o EXCEPT !.terminating = TRUE] \in objects'
    BY <1>1 DEF DeletesOf
  <2>2. DeleteAndWait
    BY <1>1, <2>1, OnlyTheDeletionActs
  <2> DEFINE dying == [o EXCEPT !.terminating = TRUE]
  <2>3. dying.site = o.site /\ dying # o
    BY <1>1, <2>1 DEF ObjectsOK, Object
  <2>4. dying \notin objects
    BY <1>1, <2>3 DEF ObjectsOK, OneEach
  <2>5. PICK t \in target : \E q \in At(t.site) :
          Matches(q, t) /\ objects' = (objects \ {q}) \cup {[q EXCEPT !.terminating = TRUE]}
    BY <2>1, <2>2, <2>4 DEF DeleteAndWait, Replace
  <2>16. PICK q \in At(t.site) :
          Matches(q, t) /\ objects' = (objects \ {q}) \cup {[q EXCEPT !.terminating = TRUE]}
    BY <2>5
  <2>6. dying = [q EXCEPT !.terminating = TRUE]
    BY <2>1, <2>4, <2>16
  <2>7. q = o
    <3>1. q \in objects /\ q.site = [q EXCEPT !.terminating = TRUE].site
      BY <1>1, <2>16 DEF At, ObjectsOK, Object
    <3>2. q.site = o.site
      BY <2>3, <2>6, <3>1
    <3>3. QED BY <1>1, <3>1, <3>2 DEF ObjectsOK, OneEach
  <2>8. o.site = t.site /\ Id(o) = Id(t) /\ t \in Loaded.nns /\ t.site = Hit.site
        /\ Loaded.step = 4 /\ ~Blocked(t, Loaded.claims)
    BY <1>1, <2>1, <2>5, <2>16, <2>7 DEF Matches, At, TargetOK
  <2>9. ZoneOf[Hit.site] \in Zones
    BY <1>1, <2>1, HitFound DEF PhaseOK, Deleting
  <2>10. standing \subseteq Claims /\ Loaded.claims \subseteq Claims
    BY <1>1, <2>9 DEF Loaded, ClaimsOK, LoadsOK, Load
  <2>11. \A c \in standing : c.site = t.site => c \in Loaded.claims
    BY <1>1, <2>8, <2>9, <2>10, AllRead DEF LoadTells, Loaded
  <2>12. \A c \in standing : ~MayClaim(c, t)
    BY <2>8, <2>10, <2>11, ClaimsOnNotBlocked
  <2>13. \A c \in standing : ~MayClaim(c, o)
    BY <2>8, <2>12 DEF MayClaim
  <2>14. Id(o) \in Ids(Loaded.nns)
    BY <2>8 DEF Ids
  <2>15. QED BY <2>13, <2>14
<1>2. IInv /\ [Next]_vars => [\A o \in objects : Sound(o)]_vars
  BY <1>1
<1>3. QED BY Invariant, <1>2, PTL DEF Spec, DeletesOnlyUnused
=============================================================================
