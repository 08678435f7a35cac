---------------------------- MODULE SessionManager ----------------------------
(***************************************************************************)
(* net/SessionManager.c: end-to-end sessions with other nodes, the few     *)
(* paths each of them knows and ranks, the packets held back until a       *)
(* session can carry them, and the periodic clean-up.  Of a CryptoAuth     *)
(* session only this matters: it is not set up ("SETUP"), it can carry run *)
(* messages ("KEYED"; RECEIVED_KEY or ESTABLISHED), or it can and          *)
(* CryptoAuth_resetIfTimeout would reset it ("STALE").                     *)
(***************************************************************************)
EXTENDS Integers, FiniteSets

CONSTANTS
    Ips,                 \* other nodes
    Unknown,             \* those that write to nobody and no search finds
    Labels,              \* switch labels; 0 is none of them
    PATH_COUNT,          \* 3
    Msgs,                \* packets to send
    Kinds,               \* who sends them: "user" (no label, no version), "dht" (all known)
    Metrics,             \* metrics of the pathfinder's NODE events
    SM_INCOMING, SM_SEND, NO_INFO,      \* wire/Metric.h, on the scale of the clock
    sessionTimeout, sessionSearchAfter, bufferTimeout,
    maxBufferedMessages,
    MaxTime              \* bound on the clock

DEAD_LINK == NO_INFO + 1

ASSUME SessionAssumption ==
    /\ 0 \notin Labels /\ PATH_COUNT \in Nat \ {0}
    /\ Unknown \subseteq Ips /\ Kinds \subseteq {"user", "dht"}
    /\ Metrics \subseteq 0 .. DEAD_LINK
    /\ {SM_INCOMING, SM_SEND, NO_INFO} \subseteq Nat
    /\ SM_INCOMING < SM_SEND /\ SM_SEND < NO_INFO
    /\ \A t \in {sessionTimeout, sessionSearchAfter, bufferTimeout, maxBufferedMessages} : t \in Nat
    /\ MaxTime \in Nat

VARIABLES
    now,
    session,      \* ifaceMap: session[ip] for the ips that have one
    buffer,       \* bufMap: buffer[ip] for the ips that a packet waits for
    did           \* what the last handler sent to the switch and asked of the pathfinder

vars == <<now, session, buffer, did>>

Never == -NO_INFO          \* a time so long ago that any metric has run out
Nothing == [sent |-> {}, asked |-> {}]
EmptyPath == [label |-> 0, metric |-> 0, time |-> Never]

Init ==
    /\ now = 0
    /\ session = <<>>
    /\ buffer = <<>>
    /\ did = Nothing

Put(f, ip, v) == [i \in DOMAIN f \cup {ip} |-> IF i = ip THEN v ELSE f[i]]
Remove(f, ips) == [i \in DOMAIN f \ ips |-> f[i]]

-----------------------------------------------------------------------------
(* Paths: a metric grows by the time since the path was validated. *)

effectiveMetric(path) ==
    LET x == now - path.time + path.metric IN IF x > NO_INFO THEN NO_INFO ELSE x

(* The first of the paths with the worst metric, with the best. *)
worstPath(paths) ==
    CHOOSE i \in DOMAIN paths :
        \A j \in DOMAIN paths : /\ effectiveMetric(paths[j]) <= effectiveMetric(paths[i])
                                /\ effectiveMetric(paths[j]) = effectiveMetric(paths[i]) => i <= j

FirstBest(paths) ==
    CHOOSE i \in DOMAIN paths :
        \A j \in DOMAIN paths : /\ effectiveMetric(paths[j]) >= effectiveMetric(paths[i])
                                /\ effectiveMetric(paths[j]) = effectiveMetric(paths[i]) => i <= j

(* Mutant of rerankPaths: the paths stay as they are. *)
RerankNothing(paths) == paths

(* rerankPaths: the best one changes places with the first. *)
rerankPaths(paths) ==
    LET best == FirstBest(paths)
    IN  [paths EXCEPT ![1] = paths[best], ![best] = paths[1]]

pathForLabel(paths, label) == {i \in DOMAIN paths : paths[i].label = label}

(* discoverPath: the paths with this one, and whether it is now the first. *)
discoverPath(paths, label, metric) ==
    LET known == pathForLabel(paths, label)
        i == IF known # {} THEN CHOOSE k \in known : \A l \in known : k <= l
             ELSE worstPath(paths)
    IN  IF \/ label = 0
           \/ (known = {} \/ metric # DEAD_LINK) /\ effectiveMetric(paths[i]) <= metric
        THEN [paths |-> paths, better |-> FALSE]
        ELSE LET ranked == rerankPaths([paths EXCEPT ![i] =
                               [label |-> label, metric |-> metric, time |-> now]])
             IN  [paths |-> ranked, better |-> ranked[1].label = label]

NewSession(version, label, metric) ==
    [paths |-> [i \in 1 .. PATH_COUNT |->
                   IF i = 1 THEN [label |-> label, metric |-> metric, time |-> now] ELSE EmptyPath],
     version |-> version, ca |-> "SETUP", usage |-> Never, search |-> Never]

(* getSession: what the session of ip is afterwards. *)
getSession(ip, version, label, metric) ==
    IF ip \notin DOMAIN session
    THEN NewSession(version, label, IF label = 0 THEN DEAD_LINK ELSE metric)
    ELSE LET sess == session[ip]
             found == discoverPath(sess.paths, label, IF label = 0 THEN DEAD_LINK ELSE metric)
         IN  [sess EXCEPT !.paths = found.paths,
                          !.version = IF version # 0 /\ (found.better \/ sess.version = 0)
                                      THEN version ELSE sess.version]

resetIfTimeout(sess) == IF sess.ca = "STALE" THEN [sess EXCEPT !.ca = "SETUP"] ELSE sess

RunState(sess) == sess.ca # "SETUP"      \* CryptoAuth_getState >= RECEIVED_KEY

-----------------------------------------------------------------------------
(* Sending. *)

Dead(sess) == sess.paths[1].metric = DEAD_LINK

(* readyToSend, by what is left of the packet when the switch gets it: a    *)
(* handshake or a run message, to the packet's own label or the first path. *)
readyToSend(ip, sess, kind) ==
    {[ip |-> ip, kind |-> kind, start |-> ~RunState(resetIfTimeout(sess))]}

Overdue(b) == now - b.time >= bufferTimeout

InTime(b) == [ip \in {i \in DOMAIN b : ~Overdue(b[i])} |-> b[ip]]

(* bufferPacket: the packet takes the place of one to the same node; when   *)
(* the buffer is full, overdue packets make room.                           *)
bufferPacket(ip, m, label) ==
    LET others == Remove(buffer, {ip})
        kept == IF Cardinality(DOMAIN others) >= maxBufferedMessages THEN InTime(others) ELSE others
    IN  IF Cardinality(DOMAIN kept) >= maxBufferedMessages THEN kept
        ELSE Put(kept, ip, [msg |-> m, label |-> label, time |-> now])

unsetupSession(ip, sess) ==
    IF sess.version = 0 \/ Dead(sess) THEN {} ELSE {<<"UNSETUP_SESSION", ip>>}

triggerSearch(ip) == {<<"SEARCH_REQ", ip>>}

(* Mutant of needsLookup: no search. *)
LookupBuffersOnly(ip, m) ==
    /\ buffer' = bufferPacket(ip, m, 0)
    /\ did' = Nothing

needsLookup(ip, m) ==
    /\ buffer' = bufferPacket(ip, m, 0)
    /\ did' = [sent |-> {}, asked |-> triggerSearch(ip)]

(* incomingFromInsideIf for a packet of the TUN device or the IP tunnel:    *)
(* only its destination is known.                                           *)
SendUser(ip, m) ==
    /\ "user" \in Kinds /\ UNCHANGED now
    /\ \/ /\ ip \notin DOMAIN session
          /\ needsLookup(ip, m) /\ UNCHANGED session
       \/ /\ ip \in DOMAIN session
          /\ LET sess == [session[ip] EXCEPT !.usage = now]
                 ready == resetIfTimeout(sess)
             IN  \/ /\ sess.version = 0 \/ Dead(sess)
                    /\ session' = Put(session, ip, sess)
                    /\ needsLookup(ip, m)
                 \/ /\ sess.version # 0 /\ ~Dead(sess)
                    /\ session' = Put(session, ip, ready)
                    /\ IF RunState(ready)
                       THEN /\ did' = [sent |-> readyToSend(ip, ready, "user"),
                                       asked |-> {}]
                            /\ UNCHANGED buffer
                       ELSE /\ did' = [sent |-> {}, asked |-> unsetupSession(ip, ready)]
                            /\ buffer' = bufferPacket(ip, m, ready.paths[1].label)

(* incomingFromInsideIf for a packet of the pathfinder, which knows key,    *)
(* version and label.                                                       *)
SendDht(ip, label) ==
    /\ "dht" \in Kinds
    /\ LET old == IF ip \in DOMAIN session THEN session[ip]
                  ELSE getSession(ip, 1, label, SM_SEND)
           sess == resetIfTimeout([old EXCEPT !.version = 1])
       IN  /\ session' = Put(session, ip, sess)
           /\ did' = [sent |-> readyToSend(ip, sess, "dht"),
                      asked |-> IF ~RunState(sess) /\ sess.usage # Never
                                THEN unsetupSession(ip, sess) ELSE {}]
    /\ UNCHANGED <<now, buffer>>

-----------------------------------------------------------------------------
(* From the switch. *)

(* A handshake packet: the session and the path are there before            *)
(* CryptoAuth_decrypt has looked at it, and stay when it refuses it.        *)
incomingSetup(ip, label) ==
    /\ LET sess == resetIfTimeout(getSession(ip, 0, label, SM_INCOMING))
       IN  \/ session' = Put(session, ip, sess)
           \/ \E ca \in {"SETUP", "KEYED"} :
                 session' = Put(session, ip,
                     [sess EXCEPT !.ca = ca,
                                  !.paths = discoverPath(@, label, SM_INCOMING).paths])
    /\ did' = Nothing
    /\ UNCHANGED <<now, buffer>>

(* A run message that CryptoAuth_decrypt accepts, with the session's handle. *)
incomingRun(ip, label) ==
    /\ ip \in DOMAIN session
    /\ session' = [session EXCEPT ![ip].ca = "KEYED",
                                  ![ip].paths = discoverPath(@, label, SM_INCOMING).paths]
    /\ did' = Nothing
    /\ UNCHANGED <<now, buffer>>

-----------------------------------------------------------------------------
(* Mutant of incomingFromEventIf: the state is not looked at. *)
NodeReleasesPacket(ip, label, metric) ==
    /\ ip \in DOMAIN session \/ (ip \in DOMAIN buffer /\ metric # DEAD_LINK)
    /\ LET sess == getSession(ip, 1, label, metric)
       IN  /\ did' = [sent |-> IF ip \in DOMAIN buffer
                              THEN readyToSend(ip, sess, "user") ELSE {},
                      asked |-> {}]
           /\ session' = Put(session, ip, resetIfTimeout(sess))
           /\ buffer' = Remove(buffer, {ip})
    /\ UNCHANGED now

(* incomingFromEventIf with NODE: the pathfinder knows a path, or that one  *)
(* is dead.  A packet that waits for the node is sent if its session can    *)
(* carry it.                                                                *)
incomingFromEventIf(ip, label, metric) ==
    /\ ip \in DOMAIN session \/ (ip \in DOMAIN buffer /\ metric # DEAD_LINK)
    /\ LET sess == getSession(ip, 1, label, metric)
       IN  IF ip \in DOMAIN buffer /\ RunState(sess)
           THEN /\ did' = [sent |-> readyToSend(ip, sess, "user"), asked |-> {}]
                /\ session' = Put(session, ip, resetIfTimeout(sess))
                /\ buffer' = Remove(buffer, {ip})
           ELSE /\ did' = Nothing
                /\ session' = Put(session, ip, sess)
                /\ UNCHANGED buffer
    /\ UNCHANGED now

mostRecentValidatedPath(sess) ==
    CHOOSE t \in {sess.paths[i].time : i \in DOMAIN sess.paths} :
        \A i \in DOMAIN sess.paths : sess.paths[i].time <= t

TimedOut(sess) == now - mostRecentValidatedPath(sess) > sessionTimeout
Unused(sess) == now - sess.usage > sessionTimeout
SearchDue(sess) == now - sess.search >= sessionSearchAfter

(* periodically: checkTimedOutSessions, checkTimedOutBuffers.  A session    *)
(* that is not yet ESTABLISHED is reported as not set up; half are those of *)
(* them that have the key.                                                  *)
periodically ==
    LET live == {ip \in DOMAIN session : ~TimedOut(session[ip])}
        used == {ip \in live : ~Unused(session[ip])}
        searching == {ip \in used : SearchDue(session[ip])}
        carrying == {ip \in used \ searching : RunState(session[ip])}
    IN  /\ session' = [ip \in live |->
               IF ip \notin used THEN [session[ip] EXCEPT !.usage = Never]
               ELSE IF ip \in searching THEN [session[ip] EXCEPT !.search = now]
               ELSE session[ip]]
        /\ \E half \in SUBSET carrying :
               did' = [sent |-> {}, asked |-> UNION {triggerSearch(ip) : ip \in searching}
                   \cup UNION {unsetupSession(ip, session[ip]) :
                                   ip \in (used \ (searching \cup carrying)) \cup half}]
        /\ buffer' = InTime(buffer)
        /\ UNCHANGED now

CaTimeout(ip) ==
    /\ ip \in DOMAIN session /\ session[ip].ca = "KEYED"
    /\ session' = [session EXCEPT ![ip].ca = "STALE"]
    /\ did' = Nothing
    /\ UNCHANGED <<now, buffer>>

Tick ==
    /\ now < MaxTime
    /\ now' = now + 1
    /\ did' = Nothing
    /\ UNCHANGED <<session, buffer>>

Next ==
    \/ \E ip \in Ips, m \in Msgs : SendUser(ip, m)
    \/ \E ip \in Ips \ Unknown :
           \/ \E label \in Labels :
                 SendDht(ip, label) \/ incomingSetup(ip, label) \/ incomingRun(ip, label)
           \/ \E label \in Labels \cup {0}, metric \in Metrics : incomingFromEventIf(ip, label, metric)
           \/ CaTimeout(ip)
    \/ periodically \/ Tick

Spec == Init /\ [][Next]_vars

-----------------------------------------------------------------------------
(* Properties.                                                              *)

(* The first path is the best one at every moment, although metrics change  *)
(* with time and rerankPaths runs only when a path is discovered.  A label  *)
(* is one path of a session only, so that a dead link is not left in a      *)
(* second entry, and the first path has a label unless it is dead, which    *)
(* unsetupSession asserts before it names it to the pathfinder.             *)
BestFirst ==
    \A ip \in DOMAIN session :
        LET paths == session[ip].paths
        IN  /\ \A i \in 1 .. PATH_COUNT :
                   effectiveMetric(paths[1]) <= effectiveMetric(paths[i])
            /\ \A i, j \in 1 .. PATH_COUNT :
                   (paths[i].label = paths[j].label /\ i # j) => paths[i].label = 0
            /\ paths[1].label = 0 => paths[1].metric = DEAD_LINK

(* No packet is held back without asking the pathfinder for what is         *)
(* missing: whichever way a packet enters the buffer, a search or a session *)
(* setup has been requested with it.  And what is held keeps to the limit.  *)
HeldPacketsPursued ==
    [][/\ Cardinality(DOMAIN buffer') <= maxBufferedMessages
       /\ \A ip \in DOMAIN buffer' :
             (ip \notin DOMAIN buffer \/ buffer'[ip] # buffer[ip])
                 => \E e \in did'.asked : e[2] = ip]_vars

(* A user's packet is sent only into a session that had been set up,        *)
(* whichever way a held packet is released.  The one that still goes out    *)
(* with a handshake message finds the session timed out since: readyToSend  *)
(* resets it after incomingFromEventIf has looked at its state.             *)
UserTrafficAfterSetup ==
    [][\A p \in did'.sent : (p.kind = "user" /\ p.start) =>
           p.ip \in DOMAIN session /\ session[p.ip].ca = "STALE"]_vars
===============================================================================
