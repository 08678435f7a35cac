----------------------------- MODULE CryptoAuth -----------------------------
(***************************************************************************)
(* crypto/CryptoAuth.c: two sessions, one at each end of a link, over a    *)
(* datagram network that loses, duplicates and reorders packets.           *)
(*                                                                         *)
(* A public key is a pair: <<p, 0>> is the permanent key of party p and    *)
(* <<p, i>>, i > 0, the i-th temporary key p ever generated; Zero is the   *)
(* all-zero key that stands for "unknown".  The shared secret of two keys  *)
(* is the set of the two, as either private key with the other public key  *)
(* yields it.  A packet can be opened by whoever computes its secret.      *)
(*                                                                         *)
(* idle is nowSecs - timeOfLastPacket.  A packet that is dropped without a *)
(* change to the session is a stuttering step.                             *)
(***************************************************************************)
EXTENDS ReplayWindow

CONSTANTS
    Party,        \* the two ends
    LowKey,       \* the party with the numerically lower permanent key
    RequireAuth,  \* the parties whose session has requireAuth set
    Passwords,    \* the passwords in use
    SetupResetAfter,  \* setupResetAfterInactivitySeconds: 10 in the code
    ResetAfter,       \* resetAfterInactivitySeconds: 60 in the code
    NonceLimit,   \* nonce at which encrypt starts over: 0xfffffff0 in the code
    MaxNonce,     \* bound: above this nextNonce no key packet arrives
    MaxKeys,      \* bound: MaxKeys[p], temporary keys that p generates
    MaxIdle,      \* bound: a clock stops this long after the last packet
    Resetting     \* bound: the parties whose upper layers reset their session

NoPassword == "no password"

(* enum CryptoAuth_State, which are also the nonces of handshake packets. *)
INIT == 0
SENT_HELLO == 1
RECEIVED_HELLO == 2
SENT_KEY == 3
RECEIVED_KEY == 4

(* enum Nonce *)
HELLO == 0
REPEAT_HELLO == 1
KEY == 2
REPEAT_KEY == 3
FIRST_TRAFFIC_PACKET == 4

ASSUME CryptoAssumption ==
    /\ \E p, q \in Party : p # q /\ Party = {p, q}
    /\ LowKey \in Party
    /\ RequireAuth \subseteq Party /\ Resetting \subseteq Party
    /\ NoPassword \notin Passwords
    /\ NonceLimit \in Nat /\ NonceLimit > RECEIVED_KEY
    /\ MaxNonce \in Nat
    /\ MaxKeys \in [Party -> Nat]
    /\ SetupResetAfter \in Nat \ {0} /\ ResetAfter \in Nat /\ MaxIdle \in Nat
    /\ SetupResetAfter <= ResetAfter

VARIABLES
    session,    \* session[p]: struct CryptoAuth_Session_pvt at p
    keys,       \* keys[p]: how many temporary keys p has generated
    password,   \* password[p]: the password p's session was given by setAuth
    users,      \* users[p]: the passwords p's CryptoAuth accepts from the peer
    net,        \* every packet ever sent; any of them may arrive at any time
    delivered,  \* history: delivered[p], the run packets p's session accepted
    withdrawn   \* history: withdrawn[p][pw], herTemp of p's session when pw was
                \* last removed from users[p]

vars == <<session, keys, password, users, net, delivered, withdrawn>>

Peer(p) == CHOOSE q \in Party : q # p

Zero == <<>>
PermKey(p) == <<p, 0>>
getSharedSecret(ours, hers) == {ours, hers}

NewSession == [nextNonce |-> INIT, isInitiator |-> FALSE,
               ourTemp |-> Zero, herTemp |-> Zero,
               sharedSecret |-> {}, established |-> FALSE,
               bits |-> {}, base |-> 0, idle |-> 0]

Init ==
    /\ session = [p \in Party |-> NewSession]
    /\ keys = [p \in Party |-> 0]
    /\ password \in [Party -> Passwords \cup {NoPassword}]
    /\ users \in [Party -> SUBSET Passwords]
    /\ net = {}
    /\ delivered = [p \in Party |-> {}]
    /\ withdrawn = [p \in Party |-> [pw \in Passwords |-> Zero]]

-----------------------------------------------------------------------------
(* Resets and timeouts. *)

reset(s) == [NewSession EXCEPT !.idle = s.idle]

(* Mutant of resetIfTimeout: no timeout ever resets a session. *)
NeverTimesOut(s) == s

(* A session that sent a hello and heard nothing is left alone. *)
resetIfTimeout(s) ==
    IF \/ s.nextNonce = SENT_HELLO
       \/ s.idle < SetupResetAfter
       \/ s.idle < ResetAfter /\ s.established
    THEN s
    ELSE NewSession

(* The replay protector zeroed, as every accepted handshake packet leaves it. *)
Cleared(s) == [s EXCEPT !.bits = {}, !.base = 0]

-----------------------------------------------------------------------------
(* CryptoAuth_encrypt: the packet that goes out depends on nextNonce. *)

HandshakePacket(p, s, temp, hers) ==
    [from |-> p, nonce |-> s.nextNonce, auth |-> password[p], temp |-> temp,
     seal |-> getSharedSecret(PermKey(p), hers), slot |-> FALSE]

(* The nonce that encrypt derives from nextNonce is tagged with isInitiator. *)
RunPacket(p, s) ==
    [from |-> p, nonce |-> s.nextNonce, auth |-> NoPassword, temp |-> Zero,
     seal |-> s.sharedSecret, slot |-> s.isInitiator]

(* Mutant of NeedsKeyPair: the key packet reuses the pair of the hello. *)
PairForHelloOnly(s) == s.nextNonce = INIT

(* A temporary key pair is made up for a first hello and for a first key. *)
NeedsKeyPair(s) == s.nextNonce \in {INIT, RECEIVED_HELLO}
OurTemp(p, s) == IF NeedsKeyPair(s) THEN <<p, keys[p] + 1>> ELSE s.ourTemp

encryptHandshake(p, s) ==
    LET temp == OurTemp(p, s)
        isHello == s.nextNonce < RECEIVED_HELLO
        hers == IF isHello THEN PermKey(Peer(p)) ELSE s.herTemp
    IN  /\ s.nextNonce < RECEIVED_KEY
        /\ NeedsKeyPair(s) => keys[p] < MaxKeys[p]
        /\ keys' = [keys EXCEPT ![p] = IF NeedsKeyPair(s) THEN @ + 1 ELSE @]
        /\ session' = [session EXCEPT ![p] =
               [s EXCEPT !.ourTemp = temp,
                         !.isInitiator = @ \/ isHello,
                         !.nextNonce = IF isHello THEN SENT_HELLO ELSE SENT_KEY]]
        /\ net' = net \cup {HandshakePacket(p, s, temp, hers)}

encryptRun(p, s) ==
    LET t == IF s.nextNonce = RECEIVED_KEY
             THEN [s EXCEPT !.sharedSecret = getSharedSecret(s.ourTemp, s.herTemp)]
             ELSE s
    IN  /\ s.nextNonce >= RECEIVED_KEY
        /\ session' = [session EXCEPT ![p] = [t EXCEPT !.nextNonce = @ + 1]]
        /\ net' = net \cup {RunPacket(p, t)}
        /\ UNCHANGED keys

(* The session that encrypt works on, after its two checks. *)
Refreshed(s) ==
    LET t == resetIfTimeout(s)
    IN  IF t.nextNonce >= NonceLimit THEN reset(t) ELSE t

CryptoAuth_encrypt(p) ==
    /\ \/ encryptHandshake(p, Refreshed(session[p]))
       \/ encryptRun(p, Refreshed(session[p]))
    /\ UNCHANGED <<password, users, withdrawn, delivered>>

-----------------------------------------------------------------------------
(* CryptoAuth_decrypt: one action for each way a packet changes the session. *)

(* Mutant of Authorized: a user that was removed is still found. *)
RemovedAuthorized(p, m) == m.auth # NoPassword \/ p \notin RequireAuth

(* getAuth and the checks on its result.  A user restricted to the address of  *)
(* another node than the peer is not in users[p]: the packet is dropped as if  *)
(* there were none.                                                            *)
Authorized(p, m) ==
    \/ m.auth \in users[p]
    \/ m.auth = NoPassword /\ p \notin RequireAuth

(* A hello with a temporary key other than the one known starts over, except   *)
(* that after a hello of our own the party with the lower permanent key stands *)
(* firm.  (In INIT there is nothing to reset: reset is the identity.)          *)
IsNewHello(p, m) ==
    /\ m.nonce \in {HELLO, REPEAT_HELLO}
    /\ m.temp # session[p].herTemp
    /\ session[p].nextNonce = SENT_HELLO => LowKey = Peer(p)

(* Mutant of NewHello: isInitiator survives the reset. *)
NewHelloKeepsRole(p, m) ==
    session' = [session EXCEPT ![p] =
        [reset(@) EXCEPT !.herTemp = m.temp, !.nextNonce = RECEIVED_HELLO,
                         !.isInitiator = session[p].isInitiator]]

NewHello(p, m) ==
    session' = [session EXCEPT ![p] =
        [reset(@) EXCEPT !.herTemp = m.temp, !.nextNonce = RECEIVED_HELLO]]

(* A repeated hello with the key known: nextNonce stays. *)
IsRepeatHello(p, m) ==
    /\ m.nonce = REPEAT_HELLO
    /\ m.temp = session[p].herTemp
    /\ session[p].nextNonce \in {RECEIVED_HELLO, SENT_KEY}

RepeatHello(p, m) == session' = [session EXCEPT ![p] = Cleared(@)]

(* A key packet for our hello.  Until a run packet is accepted, one with       *)
(* nonce KEY may replace the temporary key that an earlier one brought.        *)
IsKey(p, m) ==
    LET s == session[p]
    IN  /\ m.nonce \in {KEY, REPEAT_KEY}
        /\ s.isInitiator /\ ~s.established
        /\ m.seal = getSharedSecret(s.ourTemp, PermKey(Peer(p)))
        /\ s.nextNonce >= RECEIVED_KEY => ((m.nonce = KEY) <=> (m.temp # s.herTemp))
        /\ s.nextNonce \notin {INIT, RECEIVED_HELLO, SENT_KEY}
        /\ s.nextNonce <= MaxNonce

(* Mutant of NewKey: the secret is not derived anew. *)
NewKeyKeepsSecret(p, m) ==
    session' = [session EXCEPT ![p] =
        [Cleared(@) EXCEPT
            !.herTemp = m.temp,
            !.nextNonce = IF @ > RECEIVED_KEY THEN @ + 1 ELSE RECEIVED_KEY]]

NewKey(p, m) ==
    LET s == session[p]
        sending == s.nextNonce > RECEIVED_KEY
        secret == getSharedSecret(s.ourTemp, m.temp)
    IN  session' = [session EXCEPT ![p] =
            [Cleared(s) EXCEPT
                !.herTemp = m.temp,
                !.sharedSecret = IF sending /\ m.nonce = KEY THEN secret ELSE @,
                !.nextNonce = IF sending THEN @ + 1 ELSE RECEIVED_KEY]]

decryptHandshake(p, m) ==
    /\ Authorized(p, m)
    /\ \/ IsNewHello(p, m) /\ NewHello(p, m)
       \/ IsRepeatHello(p, m) /\ RepeatHello(p, m)
       \/ IsKey(p, m) /\ NewKey(p, m)
    /\ UNCHANGED delivered

(* decrypt succeeds with the right secret and the other end's nonce tag. *)
Opens(s, m, secret) == m.seal = secret /\ m.slot # s.isInitiator

(* ReplayProtector_checkNonce: its result and the session it leaves, but for   *)
(* what it counts.                                                             *)
Slid(s, nonce) == Slide(Window(s.bits, s.base, 0), nonce, {})

NonceIsNew(s, nonce) ==
    nonce >= s.base /\ nonce - Slid(s, nonce).base \notin Slid(s, nonce).bits

Filed(s, nonce) ==
    IF nonce < s.base THEN s
    ELSE [s EXCEPT !.base = Slid(s, nonce).base,
                   !.bits = Slid(s, nonce).bits \cup {nonce - Slid(s, nonce).base}]

(* The first run packet that opens establishes the session.  The replay        *)
(* protector is moved past the packet even when it does not open.              *)
IsFinalStep(p, m) ==
    /\ m.nonce >= FIRST_TRAFFIC_PACKET
    /\ ~session[p].established /\ session[p].nextNonce >= SENT_KEY

(* Mutant of FinalStep: the base is set to the nonce, not past it. *)
FinalStepForgetsNonce(p, m) ==
    LET s == session[p]
        secret == getSharedSecret(s.ourTemp, s.herTemp)
        ok == Opens(s, m, secret) /\ NonceIsNew(s, m.nonce)
        t == [s EXCEPT !.base = m.nonce, !.bits = {}]
    IN  /\ session' = [session EXCEPT ![p] =
               IF ok THEN [t EXCEPT !.sharedSecret = secret, !.established = TRUE,
                                    !.nextNonce = @ + 3, !.idle = 0]
               ELSE t]
        /\ delivered' = [delivered EXCEPT ![p] = IF ok THEN @ \cup {m} ELSE @]

FinalStep(p, m) ==
    LET s == session[p]
        secret == getSharedSecret(s.ourTemp, s.herTemp)
        ok == Opens(s, m, secret) /\ NonceIsNew(s, m.nonce)
        t == [s EXCEPT !.base = m.nonce + 1, !.bits = {}]
    IN  /\ session' = [session EXCEPT ![p] =
               IF ok THEN [t EXCEPT !.sharedSecret = secret, !.established = TRUE,
                                    !.nextNonce = @ + 3, !.idle = 0]
               ELSE t]
        /\ delivered' = [delivered EXCEPT ![p] = IF ok THEN @ \cup {m} ELSE @]

(* Run mode. *)
IsRun(p, m) ==
    /\ m.nonce >= FIRST_TRAFFIC_PACKET
    /\ session[p].established /\ Opens(session[p], m, session[p].sharedSecret)

Run(p, m) ==
    LET s == session[p]
        ok == NonceIsNew(s, m.nonce)
    IN  /\ session' = [session EXCEPT ![p] =
               [Filed(s, m.nonce) EXCEPT !.idle = IF ok THEN 0 ELSE @]]
        /\ delivered' = [delivered EXCEPT ![p] = IF ok THEN @ \cup {m} ELSE @]

(* The packets that are not dropped on sight. *)
Handles(p, m) ==
    /\ m.from # p
    /\ \/ Authorized(p, m) /\ (IsNewHello(p, m) \/ IsRepeatHello(p, m) \/ IsKey(p, m))
       \/ IsFinalStep(p, m) \/ IsRun(p, m)

CryptoAuth_decrypt(p, m) ==
    /\ m.from # p
    /\ \/ decryptHandshake(p, m)
       \/ IsFinalStep(p, m) /\ FinalStep(p, m)
       \/ IsRun(p, m) /\ Run(p, m)
    /\ UNCHANGED <<keys, password, users, withdrawn>>

-----------------------------------------------------------------------------
(* What the layers above do to a session. *)

CryptoAuth_reset(p) ==
    /\ session' = [session EXCEPT ![p] = reset(@)]
    /\ UNCHANGED <<keys, password, users, withdrawn, net, delivered>>

CryptoAuth_resetIfTimeout(p) ==
    /\ session' = [session EXCEPT ![p] = resetIfTimeout(@)]
    /\ UNCHANGED <<keys, password, users, withdrawn, net, delivered>>

(* The session is freed and made again, as when a node restarts or a peer or   *)
(* end-to-end session is forgotten and comes back.                             *)
CryptoAuth_newSession(p) ==
    /\ session' = [session EXCEPT ![p] = NewSession]
    /\ UNCHANGED <<keys, password, users, withdrawn, net, delivered>>

CryptoAuth_setAuth(p, pw) ==
    /\ pw # password[p]
    /\ password' = [password EXCEPT ![p] = pw]
    /\ session' = [session EXCEPT ![p] = reset(@)]
    /\ UNCHANGED <<keys, users, withdrawn, net, delivered>>

CryptoAuth_addUser(p, pw) ==
    /\ users' = [users EXCEPT ![p] = @ \cup {pw}]
    /\ UNCHANGED <<session, keys, password, net, delivered, withdrawn>>

CryptoAuth_removeUsers(p, pw) ==
    /\ pw \in users[p]
    /\ users' = [users EXCEPT ![p] = @ \ {pw}]
    /\ withdrawn' = [withdrawn EXCEPT ![p][pw] = session[p].herTemp]
    /\ UNCHANGED <<session, keys, password, net, delivered>>

(* Time passes at p without a run packet being accepted. *)
Tick(p) ==
    /\ session[p].idle < MaxIdle
    /\ session' = [session EXCEPT ![p].idle = @ + 1]
    /\ UNCHANGED <<keys, password, users, withdrawn, net, delivered>>

Next ==
    \E p \in Party :
        \/ CryptoAuth_encrypt(p)
        \/ \E m \in net : CryptoAuth_decrypt(p, m) /\ UNCHANGED net
        \/ CryptoAuth_resetIfTimeout(p)
        \/ p \in Resetting /\ (CryptoAuth_reset(p) \/ CryptoAuth_newSession(p))
        \/ \E pw \in Passwords \cup {NoPassword} : CryptoAuth_setAuth(p, pw)
        \/ \E pw \in Passwords : CryptoAuth_addUser(p, pw) \/ CryptoAuth_removeUsers(p, pw)
        \/ Tick(p)

Spec == Init /\ [][Next]_vars

-----------------------------------------------------------------------------
(* The secret with which the next run packet is sealed or opened. *)
SecretOf(s) ==
    IF s.nextNonce > RECEIVED_KEY THEN s.sharedSecret
    ELSE getSharedSecret(s.ourTemp, s.herTemp)

(* The assertions of CryptoAuth.c that no unit test can reach by itself: the   *)
(* peer's temporary key is known exactly from RECEIVED_HELLO on, both keys are *)
(* known from SENT_KEY on, and a session that sends or receives run packets    *)
(* does so under its current pair of temporary keys.                           *)
KeysKnown ==
    \A p \in Party :
        LET s == session[p]
        IN  /\ s.nextNonce < RECEIVED_HELLO <=> s.herTemp = Zero
            /\ s.nextNonce >= SENT_KEY => s.ourTemp # Zero
            /\ s.nextNonce > RECEIVED_KEY =>
                   s.sharedSecret = getSharedSecret(s.ourTemp, s.herTemp)
            /\ s.established => s.nextNonce > RECEIVED_KEY

(* No nonce is used twice with a secret, by either end, through any sequence   *)
(* of repeated, delayed and crossed handshakes, timeouts, resets and nonce     *)
(* wraps: the run packet that encrypt would seal next differs from every run   *)
(* packet that either end ever sealed with that secret.  encrypt starts over   *)
(* at the limit, so that no packet has a nonce at or above it, although key    *)
(* packets and the final step move nextNonce past it.                          *)
NonceNeverReused ==
    \A p \in Party, m \in net :
        LET s == session[p]
        IN  /\ m.nonce < NonceLimit
            /\ s.nextNonce >= RECEIVED_KEY /\ m.nonce = s.nextNonce
                /\ m.seal = SecretOf(s) => m.slot # s.isInitiator

(* Ends that share a pair of temporary keys agree on who initiated, so that    *)
(* each opens what the other seals and never what it sealed itself.            *)
OppositeRoles ==
    \A p \in Party :
        LET s == session[p]
            t == session[Peer(p)]
        IN  s.nextNonce >= SENT_KEY /\ t.nextNonce >= SENT_KEY
                /\ s.ourTemp = t.herTemp /\ s.herTemp = t.ourTemp
                => s.isInitiator # t.isInitiator

(* What CryptoAuth_decrypt does with a run packet now. *)
Accepts(p, m) ==
    LET s == session[p]
    IN  s.nextNonce >= SENT_KEY /\ Opens(s, m, SecretOf(s)) /\ NonceIsNew(s, m.nonce)

(* A run packet that was accepted is never accepted again, not even after the  *)
(* session was reset or set up anew: resetting the replay protector is safe    *)
(* because a new temporary key goes with it.                                   *)
DeliveredOnce == \A p \in Party : \A m \in delivered[p] : ~Accepts(p, m)

(* A party that requires authentication holds the temporary key of a peer that *)
(* sent it with the password of a user; and if that user is gone, the key is   *)
(* the one it held when the user was removed: no packet that was under way,    *)
(* delayed or repeated sets up a session on a password withdrawn.  It holds of *)
(* the end that begins as well.                                                *)
AuthDemanded ==
    \A p \in RequireAuth :
        LET hers == session[p].herTemp
        IN  hers # Zero =>
                \E m \in net :
                    /\ m.from # p /\ m.temp = hers /\ m.auth \in Passwords
                    /\ m.auth \in users[p] \/ hers = withdrawn[p][m.auth]
=============================================================================
