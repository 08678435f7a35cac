------------------------ MODULE SessionManagerProofs ------------------------
(***************************************************************************)
(* The paths of a session stay ranked, held packets are pursued and users' *)
(* packets wait for the session, for any nodes, labels, number of paths,   *)
(* metrics and timeouts.                                                   *)
(***************************************************************************)
EXTENDS SessionManager, FiniteSetTheorems, WellFoundedInduction, TLAPS

Path == [label : Labels \cup {0}, metric : 0 .. DEAD_LINK, time : Int]

Session == [paths : [1 .. PATH_COUNT -> Path], version : {0, 1},
            ca : {"SETUP", "KEYED", "STALE"}, usage : Int, search : Int]

(* What rerankPaths needs of the paths it is given: a path that is none     *)
(* looks as bad as can be, and stands first only as a dead link.            *)
Rankable(paths) ==
    /\ paths \in [1 .. PATH_COUNT -> Path]
    /\ \A i \in 1 .. PATH_COUNT : paths[i].time <= now
    /\ \A i, j \in 1 .. PATH_COUNT :
           (paths[i].label = paths[j].label /\ i # j) => paths[i].label = 0
    /\ \A i \in 1 .. PATH_COUNT :
           paths[i].label = 0 => effectiveMetric(paths[i]) = NO_INFO
    /\ paths[1].label = 0 => paths[1].metric = DEAD_LINK

Ranked(paths) ==
    /\ Rankable(paths)
    /\ \A i \in 1 .. PATH_COUNT : effectiveMetric(paths[1]) <= effectiveMetric(paths[i])

SessionInv(sess) == sess \in Session /\ Ranked(sess.paths)

(* Between handlers every session is ranked, and the buffer is within its   *)
(* limit.                                                                   *)
Inv ==
    /\ now \in Nat
    /\ \A ip \in DOMAIN session : SessionInv(session[ip])
    /\ IsFiniteSet(DOMAIN buffer)
    /\ Cardinality(DOMAIN buffer) <= maxBufferedMessages

-----------------------------------------------------------------------------
(* Facts about numbers and metrics. *)

(* A set of natural numbers that is not empty has a least one. *)
LEMMA NatLeast ==
    ASSUME NEW T, T \subseteq Nat, T # {}
    PROVE  \E x \in T : \A y \in T : x <= y
<1> DEFINE R == OpToRel(<, Nat)
<1>1. IsWellFoundedOn(R, Nat)
    BY NatLessThanWellFounded, Zenon
<1>2. \A x, y \in Nat : <<y, x>> \in R <=> y < x
    BY Zenon DEF OpToRel
<1> HIDE DEF R
<1>3. PICK x \in T : \A y \in T : ~(<<y, x>> \in R)
    BY <1>1, WFMin, Zenon
<1>4. ASSUME NEW y \in T
      PROVE  x <= y
  <2>1. x \in Nat /\ y \in Nat
    BY Zenon
  <2>2. ~(y < x)
    BY <1>2, <1>3, <2>1, Zenon
  <2> QED
    BY <2>1, <2>2
<1> QED
    BY <1>4, Zenon

(* Effective metrics run from 0 to NO_INFO. *)
LEMMA MetricRange ==
    ASSUME now \in Nat, NEW path \in Path, path.time <= now
    PROVE  effectiveMetric(path) \in 0 .. NO_INFO
    BY SessionAssumption DEF effectiveMetric, Path, DEAD_LINK

(* There is a first one among the best paths. *)
LEMMA FirstBestIsBest ==
    ASSUME now \in Nat, NEW paths, Rankable(paths)
    PROVE  /\ FirstBest(paths) \in 1 .. PATH_COUNT
           /\ \A j \in 1 .. PATH_COUNT :
                  /\ effectiveMetric(paths[FirstBest(paths)]) <= effectiveMetric(paths[j])
                  /\ effectiveMetric(paths[j]) = effectiveMetric(paths[FirstBest(paths)])
                         => FirstBest(paths) <= j
<1> DEFINE M == {effectiveMetric(paths[i]) : i \in 1 .. PATH_COUNT}
<1>1. \A i \in 1 .. PATH_COUNT : effectiveMetric(paths[i]) \in 0 .. NO_INFO
    BY MetricRange, Zenon DEF Rankable
<1>2. DOMAIN paths = 1 .. PATH_COUNT /\ 1 \in 1 .. PATH_COUNT
    BY SessionAssumption DEF Rankable
<1>3. M \subseteq Nat /\ M # {}
    BY <1>1, <1>2, SessionAssumption
<1>4. PICK m \in M : \A y \in M : m <= y
    BY <1>3, NatLeast, Zenon
<1> DEFINE I == {i \in 1 .. PATH_COUNT : effectiveMetric(paths[i]) = m}
<1>5. I \subseteq Nat /\ I # {}
    BY <1>4
<1> HIDE DEF I
<1>6. PICK b \in I : \A j \in I : b <= j
    BY <1>5, NatLeast, Zenon
<1>7. b \in DOMAIN paths
    BY <1>2, Zenon DEF I
<1>8. \A j \in DOMAIN paths :
          /\ effectiveMetric(paths[j]) >= effectiveMetric(paths[b])
          /\ effectiveMetric(paths[j]) = effectiveMetric(paths[b]) => b <= j
    BY <1>1, <1>2, <1>4, <1>6, Zenon DEF I
<1>9. /\ FirstBest(paths) \in DOMAIN paths
      /\ \A j \in DOMAIN paths :
          /\ effectiveMetric(paths[j]) >= effectiveMetric(paths[FirstBest(paths)])
          /\ effectiveMetric(paths[j]) = effectiveMetric(paths[FirstBest(paths)])
                 => FirstBest(paths) <= j
    BY <1>7, <1>8, Zenon DEF FirstBest
<1> QED
    BY <1>1, <1>2, <1>9, Zenon

-----------------------------------------------------------------------------
(* Facts about the paths of one session. *)

(* rerankPaths ranks whatever paths can be ranked. *)
LEMMA RerankRanks ==
    ASSUME now \in Nat, NEW paths, Rankable(paths)
    PROVE  Ranked(rerankPaths(paths))
<1> DEFINE b == FirstBest(paths)
           r == rerankPaths(paths)
<1>1. b \in 1 .. PATH_COUNT /\ 1 \in 1 .. PATH_COUNT
    BY FirstBestIsBest, SessionAssumption
<1>2. \A j \in 1 .. PATH_COUNT :
          /\ effectiveMetric(paths[b]) <= effectiveMetric(paths[j])
          /\ effectiveMetric(paths[j]) = effectiveMetric(paths[b]) => b <= j
    BY FirstBestIsBest, Zenon
<1>3. \A i \in 1 .. PATH_COUNT : effectiveMetric(paths[i]) \in 0 .. NO_INFO
    BY MetricRange, Zenon DEF Rankable
<1>4. /\ paths \in [1 .. PATH_COUNT -> Path]
      /\ \A i, j \in 1 .. PATH_COUNT :
             (paths[i].label = paths[j].label /\ i # j) => paths[i].label = 0
      /\ \A i \in 1 .. PATH_COUNT : paths[i].time <= now
      /\ \A i \in 1 .. PATH_COUNT :
             paths[i].label = 0 => effectiveMetric(paths[i]) = NO_INFO
      /\ paths[1].label = 0 => paths[1].metric = DEAD_LINK
    BY Zenon DEF Rankable
<1>5. r = [paths EXCEPT ![1] = paths[b], ![b] = paths[1]]
    BY Zenon DEF rerankPaths
<1> HIDE DEF b, r
<1> DEFINE p(i) == IF i = b THEN 1 ELSE IF i = 1 THEN b ELSE i
<1>6. /\ r \in [1 .. PATH_COUNT -> Path]
      /\ \A i \in 1 .. PATH_COUNT : p(i) \in 1 .. PATH_COUNT /\ r[i] = paths[p(i)]
    BY <1>1, <1>4, <1>5, Zenon
<1>7. \A i, j \in 1 .. PATH_COUNT : i # j => p(i) # p(j)
    BY <1>1, Zenon
<1>8. r[1] = paths[b]
    BY <1>1, <1>6, Zenon
<1> HIDE DEF p
<1>9. \A i, j \in 1 .. PATH_COUNT :
          (r[i].label = r[j].label /\ i # j) => r[i].label = 0
    BY <1>4, <1>6, <1>7
<1>10. r[1].label = 0 => r[1].metric = DEAD_LINK
  <2> SUFFICES ASSUME paths[b].label = 0
               PROVE  paths[b].metric = DEAD_LINK
    BY <1>8, Zenon
  <2>1. effectiveMetric(paths[b]) = NO_INFO
    BY <1>1, <1>4, Zenon
  <2>2. effectiveMetric(paths[1]) = NO_INFO
    BY <1>1, <1>2, <1>3, <2>1, SessionAssumption
  <2>3. b = 1
    BY <1>1, <1>2, <2>1, <2>2
  <2> QED
    BY <1>4, <2>3, Zenon
<1>11. \A i \in 1 .. PATH_COUNT : effectiveMetric(r[1]) <= effectiveMetric(r[i])
    BY <1>2, <1>6, <1>8, Zenon
<1>12. \A i \in 1 .. PATH_COUNT :
          /\ r[i].time <= now
          /\ r[i].label = 0 => effectiveMetric(r[i]) = NO_INFO
    BY <1>4, <1>6, Zenon
<1> QED
    BY <1>6, <1>9, <1>10, <1>11, <1>12, Zenon DEF Ranked, Rankable, r

(* A path that has just been validated takes the place of one of its own    *)
(* label, or of any other when the label is new.                            *)
LEMMA ReplaceRankable ==
    ASSUME now \in Nat, NEW paths, Rankable(paths),
           NEW label \in Labels, NEW metric \in 0 .. DEAD_LINK,
           NEW k,
           \A i \in 1 .. PATH_COUNT : paths[i].label = label => i = k
    PROVE  Rankable([paths EXCEPT ![k] = [label |-> label, metric |-> metric, time |-> now]])
<1> DEFINE new == [label |-> label, metric |-> metric, time |-> now]
           q == [paths EXCEPT ![k] = new]
<1>1. new \in Path /\ new.label = label /\ new.label # 0 /\ new.time <= now
    BY SessionAssumption DEF Path
<1>2. paths \in [1 .. PATH_COUNT -> Path] /\ 1 \in 1 .. PATH_COUNT
    BY SessionAssumption DEF Rankable
<1> HIDE DEF new
<1>3. /\ q \in [1 .. PATH_COUNT -> Path]
      /\ \A i \in 1 .. PATH_COUNT : q[i] = IF i = k THEN new ELSE paths[i]
    BY <1>1, <1>2, Zenon
<1> HIDE DEF q
<1> QED
    BY <1>1, <1>2, <1>3, Zenon DEF Rankable, q, new

(* discoverPath keeps the paths ranked, whatever it is told. *)
LEMMA DiscoverRanked ==
    ASSUME now \in Nat, NEW paths, Ranked(paths),
           NEW label \in Labels \cup {0}, NEW metric \in 0 .. DEAD_LINK
    PROVE  Ranked(discoverPath(paths, label, metric).paths)
<1> DEFINE known == pathForLabel(paths, label)
           k == IF known # {} THEN CHOOSE k \in known : \A l \in known : k <= l
                ELSE worstPath(paths)
           new == [label |-> label, metric |-> metric, time |-> now]
<1>1. discoverPath(paths, label, metric).paths
          \in {paths, rerankPaths([paths EXCEPT ![k] = new])}
    BY Zenon DEF discoverPath
<1>2. CASE label = 0
    BY <1>2, Zenon DEF discoverPath
<1>3. CASE label # 0
  <2>1. DOMAIN paths = 1 .. PATH_COUNT /\ Rankable(paths)
    BY Zenon DEF Ranked, Rankable
  <2>2. \A i, j \in known : i = j
    BY <1>3, <2>1, Zenon DEF pathForLabel, Rankable
  <2>3. ASSUME NEW i \in 1 .. PATH_COUNT, paths[i].label = label
        PROVE  i = k
    <3>1. i \in known
      BY <2>1, <2>3, Zenon DEF pathForLabel
    <3>2. i \in Nat
      OBVIOUS
    <3> HIDE DEF known
    <3>3. known = {i}
      BY <2>2, <3>1, Zenon
    <3>4. \E j \in known : \A l \in known : j <= l
      BY <3>2, <3>3
    <3>5. (CHOOSE j \in known : \A l \in known : j <= l) \in known
      BY <3>4, Zenon
    <3> QED
      BY <3>1, <3>3, <3>5
  <2>4. Rankable([paths EXCEPT ![k] = new])
    <3>1. label \in Labels
      BY <1>3, Zenon
    <3> HIDE DEF k
    <3> QED
      BY <2>1, <2>3, <3>1, ReplaceRankable, Zenon
  <2> QED
    BY <1>1, <2>4, RerankRanks, Zenon
<1> QED
    BY <1>2, <1>3, Zenon

(* Paths stay ranked while time passes: all metrics grow alike, up to the   *)
(* same ceiling.                                                            *)
LEMMA AgeingRanked ==
    ASSUME now \in Nat, now' = now + 1, NEW paths, Ranked(paths)
    PROVE  Ranked(paths)'
<1>1. \A i \in 1 .. PATH_COUNT :
          /\ paths[i] \in Path /\ paths[i].time <= now
          /\ 1 \in 1 .. PATH_COUNT
    BY SessionAssumption DEF Ranked, Rankable
<1>2. ASSUME NEW p \in Path, NEW q \in Path, effectiveMetric(p) <= effectiveMetric(q)
      PROVE  effectiveMetric(p)' <= effectiveMetric(q)'
    BY <1>2, SessionAssumption DEF effectiveMetric, Path, DEAD_LINK
<1>3. ASSUME NEW p \in Path, effectiveMetric(p) = NO_INFO
      PROVE  effectiveMetric(p)' = NO_INFO
    BY <1>3, SessionAssumption DEF effectiveMetric, Path, DEAD_LINK
<1>4. \A i \in 1 .. PATH_COUNT : effectiveMetric(paths[1])' <= effectiveMetric(paths[i])'
    BY <1>1, <1>2, Zenon DEF Ranked
<1>5. \A i \in 1 .. PATH_COUNT :
          /\ paths[i].label = 0 => effectiveMetric(paths[i])' = NO_INFO
          /\ paths[i].time <= now'
  <2> SUFFICES ASSUME NEW i \in 1 .. PATH_COUNT
               PROVE  /\ paths[i].label = 0 => effectiveMetric(paths[i])' = NO_INFO
                      /\ paths[i].time <= now'
    BY Zenon
  <2>1. paths[i].label = 0 => effectiveMetric(paths[i])' = NO_INFO
    BY <1>1, <1>3, Zenon DEF Ranked, Rankable
  <2>2. paths[i].time <= now'
    BY <1>1 DEF Path
  <2> QED
    BY <2>1, <2>2, Zenon
<1> QED
    BY <1>4, <1>5, Zenon DEF Ranked, Rankable

-----------------------------------------------------------------------------
(* Facts about one session. *)

(* getSession returns a ranked session, an old one or a new one. *)
LEMMA GetSessionInv ==
    ASSUME Inv, NEW ip, NEW version \in {0, 1},
           NEW label \in Labels \cup {0}, NEW metric \in 0 .. DEAD_LINK
    PROVE  SessionInv(getSession(ip, version, label, metric))
<1> DEFINE m == IF label = 0 THEN DEAD_LINK ELSE metric
<1>1. m \in 0 .. DEAD_LINK /\ DEAD_LINK = NO_INFO + 1 /\ NO_INFO \in Nat
    BY SessionAssumption DEF DEAD_LINK
<1>2. now \in Nat
    BY Zenon DEF Inv
<1>3. CASE ip \notin DOMAIN session
  <2> DEFINE new == NewSession(version, label, m)
             first == [label |-> label, metric |-> m, time |-> now]
  <2>1. getSession(ip, version, label, metric) = new
    BY <1>3, Zenon DEF getSession
  <2>2. first \in Path /\ EmptyPath \in Path /\ Never \in Int /\ Never <= now
    BY <1>1, <1>2 DEF Path, EmptyPath, Never
  <2>3. new.paths = [i \in 1 .. PATH_COUNT |-> IF i = 1 THEN first ELSE EmptyPath]
    BY Zenon DEF NewSession
  <2>4. new \in Session
    BY <2>2, Zenon DEF NewSession, Session
  <2>5. effectiveMetric(EmptyPath) = NO_INFO
    BY <1>1, <1>2 DEF effectiveMetric, EmptyPath, Never
  <2>6. effectiveMetric(first) <= NO_INFO
    BY <1>1, <1>2 DEF effectiveMetric
  <2>7. label = 0 => effectiveMetric(first) = NO_INFO /\ first.metric = DEAD_LINK
    BY <1>1, <1>2 DEF effectiveMetric
  <2>8. /\ first.label = label /\ first.time = now
        /\ EmptyPath.label = 0 /\ EmptyPath.time = Never
    BY Zenon DEF EmptyPath
  <2> HIDE DEF new, first, m
  <2>9. 1 \in 1 .. PATH_COUNT
    BY SessionAssumption
  <2>10. /\ new.paths \in [1 .. PATH_COUNT -> Path]
         /\ new.paths[1] = first
         /\ \A i \in 1 .. PATH_COUNT : i # 1 => new.paths[i] = EmptyPath
    BY <2>2, <2>3, <2>9, Zenon
  <2>11. Rankable(new.paths)
    BY <1>2, <2>2, <2>5, <2>7, <2>8, <2>9, <2>10 DEF Rankable
  <2>12. effectiveMetric(first) <= effectiveMetric(first)
    BY <2>2, <1>2, <1>1 DEF effectiveMetric, Path
  <2>13. \A i \in 1 .. PATH_COUNT :
             effectiveMetric(new.paths[1]) <= effectiveMetric(new.paths[i])
    BY <2>5, <2>6, <2>10, <2>12, Zenon
  <2> QED
    BY <2>1, <2>4, <2>11, <2>13, Zenon DEF SessionInv, Ranked
<1>4. CASE ip \in DOMAIN session
  <2> DEFINE sess == session[ip]
             found == discoverPath(sess.paths, label, m)
             v == IF version # 0 /\ (found.better \/ sess.version = 0)
                  THEN version ELSE sess.version
  <2>1. sess \in Session /\ Ranked(sess.paths)
    BY <1>4, Zenon DEF Inv, SessionInv
  <2>2. getSession(ip, version, label, metric)
            = [sess EXCEPT !.paths = found.paths, !.version = v]
    BY <1>4, Zenon DEF getSession
  <2> HIDE DEF m, sess
  <2>3. Ranked(found.paths)
    BY <1>1, <1>2, <2>1, DiscoverRanked, Zenon
  <2>4. found.paths \in [1 .. PATH_COUNT -> Path]
    BY <2>3, Zenon DEF Ranked, Rankable
  <2>5. v \in {0, 1}
    BY <2>1, Zenon DEF Session
  <2> HIDE DEF found, v
  <2> QED
    BY <2>1, <2>2, <2>3, <2>4, <2>5, Zenon DEF SessionInv, Session
<1> QED
    BY <1>3, <1>4, Zenon

(* What else the handlers set in a session leaves its paths alone. *)
LEMMA SetFieldInv ==
    ASSUME NEW sess, SessionInv(sess)
    PROVE  /\ SessionInv(resetIfTimeout(sess))
           /\ \A t \in Int : /\ SessionInv([sess EXCEPT !.usage = t])
                             /\ SessionInv([sess EXCEPT !.search = t])
           /\ \A ca \in {"SETUP", "KEYED", "STALE"} : SessionInv([sess EXCEPT !.ca = ca])
           /\ SessionInv([sess EXCEPT !.version = 1])
    BY Zenon DEF SessionInv, Session, resetIfTimeout

(* A message that has been accepted: the state changes and the path is new. *)
LEMMA AcceptedInv ==
    ASSUME now \in Nat, NEW sess, SessionInv(sess), NEW label \in Labels,
           NEW ca \in {"SETUP", "KEYED", "STALE"}
    PROVE  SessionInv([sess EXCEPT !.ca = ca,
                                   !.paths = discoverPath(@, label, SM_INCOMING).paths])
<1> DEFINE new == discoverPath(sess.paths, label, SM_INCOMING).paths
<1>1. SM_INCOMING \in 0 .. DEAD_LINK
    BY SessionAssumption DEF DEAD_LINK
<1>2. Ranked(new)
    BY <1>1, DiscoverRanked, Zenon DEF SessionInv
<1>3. new \in [1 .. PATH_COUNT -> Path]
    BY <1>2, Zenon DEF Ranked, Rankable
<1>4. [sess EXCEPT !.ca = ca, !.paths = discoverPath(@, label, SM_INCOMING).paths]
          = [sess EXCEPT !.ca = ca, !.paths = new]
    BY Zenon DEF SessionInv, Session
<1> HIDE DEF new
<1> QED
    BY <1>2, <1>3, <1>4, Zenon DEF SessionInv, Session

-----------------------------------------------------------------------------
(* The buffer. *)

(* Whoever leaves the buffer and whoever takes a place in it, it stays      *)
(* within its limit.                                                        *)
LEMMA FewerHeld ==
    ASSUME Inv, NEW b, DOMAIN b \subseteq DOMAIN buffer
    PROVE  IsFiniteSet(DOMAIN b) /\ Cardinality(DOMAIN b) <= maxBufferedMessages
<1>1. /\ IsFiniteSet(DOMAIN b)
      /\ Cardinality(DOMAIN b) <= Cardinality(DOMAIN buffer)
    BY FS_Subset, Zenon DEF Inv
<1>2. Cardinality(DOMAIN b) \in Nat /\ Cardinality(DOMAIN buffer) \in Nat
    BY <1>1, FS_CardinalityType, Zenon DEF Inv
<1>3. maxBufferedMessages \in Nat
    BY SessionAssumption, Zenon
<1>4. Cardinality(DOMAIN buffer) <= maxBufferedMessages
    BY Zenon DEF Inv
<1> DEFINE x == Cardinality(DOMAIN b)
           y == Cardinality(DOMAIN buffer)
<1> HIDE DEF x, y
<1>5. x <= maxBufferedMessages
  <2>1. x <= y /\ y <= maxBufferedMessages /\ x \in Nat /\ y \in Nat
    BY <1>1, <1>2, <1>4, Zenon DEF x, y
  <2> QED
    BY <1>3, <2>1
<1> QED
    BY <1>1, <1>5, Zenon DEF x

(* bufferPacket: the limit, and nothing of another node's packet changes.   *)
LEMMA BufferPacketHeld ==
    ASSUME Inv, NEW ip, NEW m, NEW label
    PROVE  /\ IsFiniteSet(DOMAIN bufferPacket(ip, m, label))
           /\ Cardinality(DOMAIN bufferPacket(ip, m, label)) <= maxBufferedMessages
           /\ \A i \in DOMAIN bufferPacket(ip, m, label) :
                  i # ip => i \in DOMAIN buffer /\ bufferPacket(ip, m, label)[i] = buffer[i]
<1> DEFINE others == Remove(buffer, {ip})
           kept == IF Cardinality(DOMAIN others) >= maxBufferedMessages
                   THEN InTime(others) ELSE others
           e == [msg |-> m, label |-> label, time |-> now]
           b == bufferPacket(ip, m, label)
<1>1. /\ DOMAIN others = DOMAIN buffer \ {ip}
      /\ \A i \in DOMAIN others : others[i] = buffer[i]
    BY Zenon DEF Remove
<1>2. /\ DOMAIN InTime(others) \subseteq DOMAIN others
      /\ \A i \in DOMAIN InTime(others) : InTime(others)[i] = others[i]
    BY Zenon DEF InTime
<1>3. b = IF Cardinality(DOMAIN kept) >= maxBufferedMessages THEN kept
          ELSE Put(kept, ip, e)
    BY Zenon DEF bufferPacket
<1> HIDE DEF others
<1>4. /\ DOMAIN kept \subseteq DOMAIN buffer \ {ip}
      /\ \A i \in DOMAIN kept : kept[i] = buffer[i]
    BY <1>1, <1>2, Zenon
<1> HIDE DEF kept, b, e
<1>5. IsFiniteSet(DOMAIN kept) /\ Cardinality(DOMAIN kept) <= maxBufferedMessages
    BY <1>4, FewerHeld, Zenon
<1>6. CASE b = kept
    BY <1>4, <1>5, <1>6, Zenon DEF b
<1>7. CASE b = Put(kept, ip, e) /\ ~(Cardinality(DOMAIN kept) >= maxBufferedMessages)
  <2>1. DOMAIN b = DOMAIN kept \cup {ip} /\ \A i \in DOMAIN b : i # ip => b[i] = kept[i]
    BY <1>7, Zenon DEF Put
  <2>2. /\ IsFiniteSet(DOMAIN b)
        /\ Cardinality(DOMAIN b) = Cardinality(DOMAIN kept) + 1
    BY <1>4, <1>5, <2>1, FS_AddElement
  <2>3. Cardinality(DOMAIN b) <= maxBufferedMessages
    <3> DEFINE x == Cardinality(DOMAIN kept)
               y == Cardinality(DOMAIN b)
    <3>1. x \in Nat /\ maxBufferedMessages \in Nat
      BY <1>5, FS_CardinalityType, SessionAssumption, Zenon
    <3>2. y = x + 1 /\ ~(x >= maxBufferedMessages)
      BY <1>7, <2>2, Zenon
    <3> HIDE DEF x, y
    <3>3. y <= maxBufferedMessages
      BY <3>1, <3>2
    <3> QED
      BY <3>3, Zenon DEF y
  <2> QED
    BY <1>4, <2>1, <2>2, <2>3, Zenon DEF b
<1> QED
    BY <1>3, <1>6, <1>7, Zenon

-----------------------------------------------------------------------------
(* The steps keep the invariant. *)

(* While the clock stands still, sessions that were ranked before the step  *)
(* are ranked after it.                                                     *)
LEMMA SameTime ==
    ASSUME now' = now, \A i \in DOMAIN session' : SessionInv(session'[i])
    PROVE  (\A i \in DOMAIN session : SessionInv(session[i]))'
    BY Zenon DEF SessionInv, Ranked, Rankable, effectiveMetric

(* One session is put in the table. *)
LEMMA PutSession ==
    ASSUME Inv, NEW ip, NEW sess, SessionInv(sess), session' = Put(session, ip, sess)
    PROVE  \A i \in DOMAIN session' : SessionInv(session'[i])
    BY Zenon DEF Inv, Put

(* After incomingFromInsideIf for a user's packet. *)
LEMMA SendUserSessions ==
    ASSUME Inv, NEW ip \in Ips, NEW m \in Msgs, SendUser(ip, m)
    PROVE  \A i \in DOMAIN session' : SessionInv(session'[i])
<1>1. CASE UNCHANGED session
    BY <1>1, Zenon DEF Inv
<1>2. CASE ip \in DOMAIN session /\ ~UNCHANGED session
  <2> DEFINE sess == [session[ip] EXCEPT !.usage = now]
  <2>1. SessionInv(sess)
    <3>1. SessionInv(session[ip]) /\ now \in Int
      BY <1>2 DEF Inv
    <3> QED
      BY <3>1, SetFieldInv, Zenon
  <2> HIDE DEF sess
  <2>2. SessionInv(resetIfTimeout(sess))
    BY <2>1, SetFieldInv, Zenon
  <2>3. session' = Put(session, ip, sess) \/ session' = Put(session, ip, resetIfTimeout(sess))
    BY <1>2, Zenon DEF SendUser, sess
  <2> QED
    BY <2>1, <2>2, <2>3, PutSession, Zenon
<1> QED
    BY <1>1, <1>2, Zenon DEF SendUser

(* After incomingFromInsideIf for the pathfinder's packet. *)
LEMMA SendDhtSessions ==
    ASSUME Inv, NEW ip, NEW label \in Labels, SendDht(ip, label)
    PROVE  \A i \in DOMAIN session' : SessionInv(session'[i])
<1> DEFINE old == IF ip \in DOMAIN session THEN session[ip]
                  ELSE getSession(ip, 1, label, SM_SEND)
           sess == [old EXCEPT !.version = 1]
<1>1. SM_SEND \in 0 .. DEAD_LINK
    BY SessionAssumption DEF DEAD_LINK
<1>2. SessionInv(getSession(ip, 1, label, SM_SEND))
    BY <1>1, GetSessionInv, Zenon
<1>3. SessionInv(old)
    BY <1>2, Zenon DEF Inv
<1>4. session' = Put(session, ip, resetIfTimeout(sess))
    BY Zenon DEF SendDht
<1> HIDE DEF old
<1>5. SessionInv(sess)
    BY <1>3, SetFieldInv, Zenon
<1> HIDE DEF sess
<1>6. SessionInv(resetIfTimeout(sess))
    BY <1>5, SetFieldInv, Zenon
<1> QED
    BY <1>4, <1>6, PutSession, Zenon

(* After a handshake packet, accepted or refused. *)
LEMMA IncomingSetupSessions ==
    ASSUME Inv, NEW ip, NEW label \in Labels, incomingSetup(ip, label)
    PROVE  \A i \in DOMAIN session' : SessionInv(session'[i])
<1> DEFINE got == getSession(ip, 0, label, SM_INCOMING)
           sess == resetIfTimeout(got)
<1>1. SM_INCOMING \in 0 .. DEAD_LINK /\ now \in Nat
    BY SessionAssumption DEF DEAD_LINK, Inv
<1>2. SessionInv(got)
    BY <1>1, GetSessionInv, Zenon
<1>3. \/ session' = Put(session, ip, sess)
      \/ \E ca \in {"SETUP", "KEYED"} :
            session' = Put(session, ip,
                [sess EXCEPT !.ca = ca, !.paths = discoverPath(@, label, SM_INCOMING).paths])
    BY Zenon DEF incomingSetup
<1> HIDE DEF got
<1>4. SessionInv(sess)
    BY <1>2, SetFieldInv, Zenon
<1> HIDE DEF sess
<1>5. CASE session' = Put(session, ip, sess)
    BY <1>4, <1>5, PutSession, Zenon
<1>6. ASSUME NEW ca \in {"SETUP", "KEYED"},
             session' = Put(session, ip,
                [sess EXCEPT !.ca = ca, !.paths = discoverPath(@, label, SM_INCOMING).paths])
      PROVE  \A i \in DOMAIN session' : SessionInv(session'[i])
  <2> DEFINE new == [sess EXCEPT !.ca = ca,
                                 !.paths = discoverPath(@, label, SM_INCOMING).paths]
  <2>1. SessionInv(new)
    BY <1>1, <1>4, AcceptedInv, Zenon
  <2>2. session' = Put(session, ip, new)
    BY <1>6, Zenon
  <2> HIDE DEF new
  <2> QED
    BY <2>1, <2>2, PutSession, Zenon
<1> QED
    BY <1>3, <1>5, <1>6, Zenon

(* After a run message. *)
LEMMA IncomingRunSessions ==
    ASSUME Inv, NEW ip, NEW label \in Labels, incomingRun(ip, label)
    PROVE  \A i \in DOMAIN session' : SessionInv(session'[i])
<1> DEFINE new == [session[ip] EXCEPT !.ca = "KEYED",
                       !.paths = discoverPath(@, label, SM_INCOMING).paths]
<1>1. ip \in DOMAIN session /\ now \in Nat /\ SessionInv(session[ip])
    BY Zenon DEF Inv, incomingRun
<1>2. SessionInv(new)
    BY <1>1, AcceptedInv, Zenon
<1>3. session' = [session EXCEPT ![ip] = new]
    BY <1>1, Zenon DEF incomingRun
<1> HIDE DEF new
<1> QED
    BY <1>1, <1>2, <1>3, Zenon DEF Inv

(* After a NODE event. *)
LEMMA EventSessions ==
    ASSUME Inv, NEW ip, NEW label \in Labels \cup {0}, NEW metric \in Metrics,
           incomingFromEventIf(ip, label, metric)
    PROVE  \A i \in DOMAIN session' : SessionInv(session'[i])
<1> DEFINE sess == getSession(ip, 1, label, metric)
<1>1. metric \in 0 .. DEAD_LINK
    BY SessionAssumption, Zenon
<1>2. SessionInv(sess)
    BY <1>1, GetSessionInv, Zenon
<1>3. session' = Put(session, ip, sess) \/ session' = Put(session, ip, resetIfTimeout(sess))
    BY Zenon DEF incomingFromEventIf
<1> HIDE DEF sess
<1>4. SessionInv(resetIfTimeout(sess))
    BY <1>2, SetFieldInv, Zenon
<1> QED
    BY <1>2, <1>3, <1>4, PutSession, Zenon

(* After the periodic clean-up. *)
LEMMA PeriodicSessions ==
    ASSUME Inv, periodically
    PROVE  \A i \in DOMAIN session' : SessionInv(session'[i])
<1>1. ASSUME NEW i \in DOMAIN session'
      PROVE  /\ i \in DOMAIN session
             /\ session'[i] \in {session[i], [session[i] EXCEPT !.usage = Never],
                                 [session[i] EXCEPT !.search = now]}
    BY <1>1, Zenon DEF periodically
<1>2. Never \in Int /\ now \in Int
    BY SessionAssumption DEF Never, Inv
<1>3. ASSUME NEW i \in DOMAIN session'
      PROVE  SessionInv(session'[i])
  <2>1. SessionInv(session[i])
    BY <1>1, Zenon DEF Inv
  <2>2. /\ SessionInv([session[i] EXCEPT !.usage = Never])
        /\ SessionInv([session[i] EXCEPT !.search = now])
    BY <1>2, <2>1, SetFieldInv, Zenon
  <2> QED
    BY <1>1, <2>1, <2>2, Zenon
<1> QED
    BY <1>3, Zenon

(* The buffer after any step: the limit, and whatever is new in it has been *)
(* asked for.                                                               *)
Pursued ==
    \A ip \in DOMAIN buffer' :
        (ip \notin DOMAIN buffer \/ buffer'[ip] # buffer[ip]) => \E e \in did'.asked : e[2] = ip

LEMMA SendUserBuffer ==
    ASSUME Inv, NEW ip \in Ips, NEW m \in Msgs, SendUser(ip, m)
    PROVE  /\ IsFiniteSet(DOMAIN buffer')
           /\ Cardinality(DOMAIN buffer') <= maxBufferedMessages
           /\ Pursued
<1>1. CASE needsLookup(ip, m)
  <2>1. buffer' = bufferPacket(ip, m, 0) /\ did'.asked = {<<"SEARCH_REQ", ip>>}
    BY <1>1, Zenon DEF needsLookup, triggerSearch
  <2>2. \E e \in did'.asked : e[2] = ip
    BY <2>1
  <2> QED
    BY <2>1, <2>2, BufferPacketHeld DEF Pursued
<1>2. CASE UNCHANGED buffer
    BY <1>2, Zenon DEF Inv, Pursued
<1>3. CASE ~needsLookup(ip, m) /\ ~UNCHANGED buffer
  <2> DEFINE sess == [session[ip] EXCEPT !.usage = now]
             ready == resetIfTimeout(sess)
  <2>1. /\ sess.version # 0 /\ ~Dead(sess)
        /\ did' = [sent |-> {}, asked |-> unsetupSession(ip, ready)]
        /\ buffer' = bufferPacket(ip, m, ready.paths[1].label)
        /\ ip \in DOMAIN session
    BY <1>3, Zenon DEF SendUser
  <2>2. sess \in Session
    <3>1. SessionInv(session[ip]) /\ now \in Int
      BY <2>1 DEF Inv
    <3> QED
      BY <3>1, Zenon DEF SessionInv, Session
  <2> HIDE DEF sess
  <2>3. ready.version # 0 /\ ~Dead(ready)
    BY <2>1, <2>2, Zenon DEF resetIfTimeout, Session, Dead
  <2> HIDE DEF ready
  <2>4. did'.asked = {<<"UNSETUP_SESSION", ip>>}
    BY <2>1, <2>3, Zenon DEF unsetupSession
  <2>5. \E e \in did'.asked : e[2] = ip
    BY <2>4
  <2> QED
    BY <2>1, <2>5, BufferPacketHeld DEF Pursued
<1> QED
    BY <1>1, <1>2, <1>3, Zenon

(* No other step puts anything into the buffer. *)
LEMMA OthersBuffer ==
    ASSUME Inv, [Next]_vars,
           ~ \E ip \in Ips, m \in Msgs : SendUser(ip, m)
    PROVE  /\ IsFiniteSet(DOMAIN buffer')
           /\ Cardinality(DOMAIN buffer') <= maxBufferedMessages
           /\ Pursued
<1>1. /\ DOMAIN buffer' \subseteq DOMAIN buffer
      /\ \A ip \in DOMAIN buffer' : buffer'[ip] = buffer[ip]
  <2>1. CASE UNCHANGED buffer
    BY <2>1, Zenon
  <2>2. CASE periodically
    BY <2>2, Zenon DEF periodically, InTime
  <2>3. ASSUME NEW ip, NEW label, NEW metric, incomingFromEventIf(ip, label, metric)
        PROVE  <1>1!:
    BY <2>3, Zenon DEF incomingFromEventIf, Remove
  <2> QED
    BY <2>1, <2>2, <2>3, Zenon DEF Next, vars, SendDht, incomingSetup, incomingRun, CaTimeout, Tick
<1> QED
    BY <1>1, FewerHeld, Zenon DEF Pursued

(* The initial state is ranked and holds nothing. *)
LEMMA InitInv == Init => Inv
<1> SUFFICES ASSUME Init
             PROVE  Inv
    BY Zenon
<1>1. now \in Nat /\ DOMAIN session = {} /\ DOMAIN buffer = {}
    BY DEF Init
<1>2. IsFiniteSet({}) /\ Cardinality({}) = 0
    BY FS_EmptySet, Zenon
<1>3. maxBufferedMessages \in Nat
    BY SessionAssumption, Zenon
<1> QED
    BY <1>1, <1>2, <1>3 DEF Inv

(* Every step keeps the invariant. *)
LEMMA NextInv == Inv /\ [Next]_vars => Inv'
<1> SUFFICES ASSUME Inv, [Next]_vars
             PROVE  Inv'
    BY Zenon
<1>1. IsFiniteSet(DOMAIN buffer') /\ Cardinality(DOMAIN buffer') <= maxBufferedMessages
    BY SendUserBuffer, OthersBuffer, Zenon
<1>2. CASE Tick
  <2>1. now \in Nat /\ now' = now + 1 /\ session' = session
    BY <1>2, Zenon DEF Inv, Tick
  <2>2. ASSUME NEW i \in DOMAIN session
        PROVE  session[i] \in Session /\ Ranked(session[i].paths)'
    BY <2>1, <2>2, AgeingRanked, Zenon DEF Inv, SessionInv
  <2>3. (\A i \in DOMAIN session : SessionInv(session[i]))'
    BY <2>1, <2>2, Zenon DEF SessionInv
  <2> QED
    BY <1>1, <2>1, <2>3 DEF Inv
<1>3. CASE ~Tick
  <2>1. now' = now
    BY <1>3, Zenon DEF Next, vars, SendUser, SendDht, incomingSetup, incomingRun,
                incomingFromEventIf, CaTimeout, periodically
  <2>2. ASSUME NEW ip, CaTimeout(ip)
        PROVE  \A i \in DOMAIN session' : SessionInv(session'[i])
    <3> DEFINE new == [session[ip] EXCEPT !.ca = "STALE"]
    <3>1. ip \in DOMAIN session /\ SessionInv(session[ip])
      BY <2>2, Zenon DEF CaTimeout, Inv
    <3>2. SessionInv(new)
      BY <3>1, SetFieldInv, Zenon
    <3>3. session' = [session EXCEPT ![ip] = new]
      BY <2>2, Zenon DEF CaTimeout
    <3> HIDE DEF new
    <3> QED
      BY <3>1, <3>2, <3>3, Zenon DEF Inv
  <2>3. \A i \in DOMAIN session' : SessionInv(session'[i])
    <3>1. CASE UNCHANGED vars
      BY <3>1, Zenon DEF vars, Inv
    <3>2. CASE Next
      BY <1>3, <2>2, <3>2, SendUserSessions, SendDhtSessions, IncomingSetupSessions,
         IncomingRunSessions, EventSessions, PeriodicSessions, Zenon DEF Next
    <3> QED
      BY <3>1, <3>2, Zenon
  <2>4. (\A i \in DOMAIN session : SessionInv(session[i]))'
    BY <2>1, <2>3, SameTime, Zenon
  <2> QED
    BY <1>1, <2>1, <2>4, Zenon DEF Inv
<1> QED
    BY <1>2, <1>3, Zenon

-----------------------------------------------------------------------------
(* The theorems. *)

(* The sessions are ranked and the buffer is within its limit, always. *)
THEOREM Invariance == Spec => []Inv
    BY InitInv, NextInv, PTL DEF Spec

(* BestFirst: however paths are discovered, found dead and age, and however *)
(* many of them a session keeps, the first is the best, a label stands only *)
(* once, and a first path without a label is a dead one.                    *)
THEOREM PathsRanked == Spec => []BestFirst
<1>1. Inv => BestFirst
    BY Zenon DEF Inv, SessionInv, Ranked, Rankable, BestFirst
<1> QED
    BY <1>1, Invariance, PTL

(* HeldPacketsPursued: a packet enters the buffer only together with the    *)
(* search or the session setup that will release it, and the buffer keeps   *)
(* to its limit.                                                            *)
THEOREM PacketsPursued == Spec => HeldPacketsPursued
<1>1. Inv /\ [Next]_vars =>
         [/\ Cardinality(DOMAIN buffer') <= maxBufferedMessages
          /\ \A ip \in DOMAIN buffer' :
                (ip \notin DOMAIN buffer \/ buffer'[ip] # buffer[ip])
                    => \E e \in did'.asked : e[2] = ip]_vars
    BY SendUserBuffer, OthersBuffer, Zenon DEF Pursued
<1> QED
    BY <1>1, Invariance, PTL DEF Spec, HeldPacketsPursued

(* UserTrafficAfterSetup: no handler sends a user's packet into a session   *)
(* that was never set up.                                                   *)
THEOREM UserTrafficWaits == Spec => UserTrafficAfterSetup
<1> DEFINE Good == \A p \in did'.sent : (p.kind = "user" /\ p.start) =>
                       p.ip \in DOMAIN session /\ session[p.ip].ca = "STALE"
<1>1. ASSUME Next
      PROVE  Good
  <2>1. CASE did'.sent = {}
    BY <2>1, Zenon
  <2>2. ASSUME NEW ip, NEW m, SendUser(ip, m), did'.sent # {}
        PROVE  Good
    <3> DEFINE ready == resetIfTimeout([session[ip] EXCEPT !.usage = now])
    <3>1. RunState(ready) /\ did'.sent = readyToSend(ip, ready, "user")
      BY <2>2 DEF SendUser, needsLookup
    <3>2. resetIfTimeout(ready) = ready
      BY <3>1, Zenon DEF resetIfTimeout, RunState
    <3>3. did'.sent = {[ip |-> ip, kind |-> "user", start |-> FALSE]}
      BY <3>1, <3>2, Zenon DEF readyToSend
    <3> QED
      BY <3>3
  <2>3. ASSUME NEW ip, NEW label, SendDht(ip, label)
        PROVE  Good
    BY <2>3 DEF SendDht, readyToSend
  <2>4. ASSUME NEW ip, NEW label, NEW metric, incomingFromEventIf(ip, label, metric),
               did'.sent # {}
        PROVE  Good
    <3> DEFINE sess == getSession(ip, 1, label, metric)
    <3>1. RunState(sess) /\ did'.sent = readyToSend(ip, sess, "user")
      BY <2>4 DEF incomingFromEventIf, Nothing
    <3>2. ip \in DOMAIN session /\ sess.ca = session[ip].ca
      BY <3>1 DEF getSession, NewSession, RunState
    <3> HIDE DEF sess
    <3>3. ~RunState(resetIfTimeout(sess)) => sess.ca = "STALE"
      BY <3>1, Zenon DEF RunState, resetIfTimeout
    <3> DEFINE start == ~RunState(resetIfTimeout(sess))
    <3>4. did'.sent = {[ip |-> ip, kind |-> "user", start |-> start]}
      BY <3>1, Zenon DEF readyToSend
    <3> HIDE DEF start
    <3>5. \A p \in did'.sent : p.ip = ip /\ p.start = start
      BY <3>4
    <3>6. start => session[ip].ca = "STALE"
      BY <3>2, <3>3, Zenon DEF start
    <3> QED
      BY <3>2, <3>5, <3>6, Zenon
  <2>5. ASSUME NEW ip, NEW label, incomingSetup(ip, label) \/ incomingRun(ip, label) \/ CaTimeout(ip)
        PROVE  did'.sent = {}
    BY <2>5 DEF incomingSetup, incomingRun, CaTimeout, Nothing
  <2>6. periodically \/ Tick => did'.sent = {}
    BY DEF periodically, Tick, Nothing
  <2> HIDE DEF Good
  <2> QED
    BY <1>1, <2>1, <2>2, <2>3, <2>4, <2>5, <2>6, Zenon DEF Next
<1>2. [Next]_vars => [Good]_vars
    BY <1>1, Zenon
<1> QED
    BY <1>2, PTL DEF Spec, UserTrafficAfterSetup
=============================================================================
