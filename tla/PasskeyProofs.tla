--------------------------- MODULE PasskeyProofs ---------------------------
(***************************************************************************)
(* Proofs about Passkeys: beside any number of ceremonies, in any number   *)
(* of tabs, the invariant of AuthProofs still holds, and what a ceremony   *)
(* holds on to stays true of the tables.                                   *)
(***************************************************************************)
EXTENDS Passkeys, AuthProofs

LoginPcs == {"key", "owner", "list", "count", "issue"}

MakingPcs == {"finishAuth", "insert"}

\* What ceremony q holds, given the rows K of authenticators and the authenticators D.
Holds(q, K, D) ==
    /\ q.pc # "idle" => q.browser \in Browsers
    /\ q.pc # "respond" => q.set = None
    /\ q.pc \in {"loginOptions", "prompt", "registerOptions", "create", "finishAuth"} =>
         q.asked \in SessionData
    /\ q.pc \in {"registerOptions", "create"} => q.asked.user \in UserIds
    /\ q.pc \in LoginPcs \cup MakingPcs =>
         q.key \in PasskeyIds /\ D[q.key].user \in UserIds
    /\ q.pc \in MakingPcs => K[q.key].state = "absent"
    /\ q.pc = "finishAuth" => q.asked.user = D[q.key].user
    /\ q.pc = "insert" => q.cookie.user = D[q.key].user
    /\ q.pc \in {"insert", "startList", "delete", "rename"} => q.cookie \in Token
    /\ q.pc = "count" => q.again
    /\ q.again => q.pc \in LoginPcs /\ q.read <= q.count
    /\ q.late # {} => \/ q.pc = "key" /\ K[q.key].state = "deleted"
                      \/ q.pc = "respond" /\ q.set \in {None, Delete}

\* Rows and authenticators: an authenticator names the owner of its row, and two
\* ceremonies never register one passkey.
KeysInv ==
    /\ \A k \in told : keys[k].state = "deleted"
    /\ \A k \in PasskeyIds : device[k].user = None => keys[k].state = "absent"
    /\ \A k \in PasskeyIds : keys[k].state = "live" => keys[k].user = device[k].user
    /\ \A c, d \in Ceremonies :
         c # d /\ tab[c].pc \in MakingPcs /\ tab[d].pc \in MakingPcs => tab[c].key # tab[d].key

PasskeyInvariant ==
    /\ Invariant
    /\ PasskeyTypeOK
    /\ KeysInv
    /\ \A c \in Ceremonies :
         /\ Holds(tab[c], keys, device)
         /\ tab[c].set \notin {None, Delete} => TokenInv(tab[c].set, users)

\* How a step may change rows and authenticators, as other ceremonies see it.
KeepsKeys ==
    /\ \A k \in PasskeyIds : keys[k].state = "deleted" => keys'[k].state = "deleted"
    /\ \A k \in PasskeyIds : device[k].user # None => device'[k].user = device[k].user

ChallengesTyped ==
    /\ authChallenge \in [Browsers -> SessionData \cup {None}]
    /\ regChallenge \in [Browsers -> SessionData \cup {None}]
    /\ given \subseteq Challenges

TabPcs == AtClient \cup DOMAIN KeyErrorReply \cup {"list", "count"}

TabReplies == {None, "expired", "refused", "panic", "home", "toLogin", "registered",
               "serverError", "ok"}
-----------------------------------------------------------------------------
LEMMA QuietTyped ==
    /\ Quiet \in Tab
    /\ Quiet.pc = "idle" /\ Quiet.set = None /\ Quiet.again = FALSE /\ Quiet.late = {}
BY DEF Quiet, Tab, AtClient

LEMMA ChallengesSame ==
    ASSUME PasskeyInvariant, UNCHANGED challengeVars
    PROVE  ChallengesTyped'
BY DEF PasskeyInvariant, PasskeyTypeOK, ChallengesTyped, challengeVars

\* Another ceremony's hold survives.
LEMMA HoldKept ==
    ASSUME PasskeyInvariant, KeepsKeys, NEW d \in Ceremonies,
           tab[d].pc \in MakingPcs => keys'[tab[d].key].state = "absent"
    PROVE  Holds(tab[d], keys', device')
<1>1. Holds(tab[d], keys, device)
  BY DEF PasskeyInvariant
<1>2. None \notin UserIds
  BY NoneAssumption
<1>3. tab[d].pc = "key" => "key" \in LoginPcs
  BY DEF LoginPcs
<1>4. tab[d].pc \in {"finishAuth", "insert"} => tab[d].pc \in MakingPcs
  BY DEF MakingPcs
<1> QED
  BY <1>1, <1>2, <1>3, <1>4 DEF Holds, KeepsKeys

\* Ceremony c goes on as p; the users and the requests stay as they are.
LEMMA TabMoves ==
    ASSUME PasskeyInvariant, NEW c \in Ceremonies, NEW p \in Tab, tab' = [tab EXCEPT ![c] = p],
           Invariant', UNCHANGED users, KeepsKeys,
           keys' \in [PasskeyIds -> Authenticator], device' \in [PasskeyIds -> Device],
           ChallengesTyped', told' \subseteq PasskeyIds,
           \A k \in told' : keys'[k].state = "deleted",
           \A k \in PasskeyIds : device'[k].user = None => keys'[k].state = "absent",
           \A k \in PasskeyIds : keys'[k].state = "live" => keys'[k].user = device'[k].user,
           \A d \in Ceremonies \ {c} : tab[d].pc \in MakingPcs =>
             /\ keys'[tab[d].key].state = "absent"
             /\ p.pc \in MakingPcs => p.key # tab[d].key,
           Holds(p, keys', device'),
           p.set \notin {None, Delete} => TokenInv(p.set, users)
    PROVE  PasskeyInvariant'
<1>1. tab \in [Ceremonies -> Tab]
  BY DEF PasskeyInvariant, PasskeyTypeOK
<1>2. tab'[c] = p /\ \A d \in Ceremonies \ {c} : tab'[d] = tab[d]
  BY <1>1
<1>3. PasskeyTypeOK'
  BY <1>1 DEF PasskeyTypeOK, ChallengesTyped
<1>4. \A d \in Ceremonies : Holds(tab'[d], keys', device')
  BY <1>2, HoldKept
<1>5. \A d \in Ceremonies : tab'[d].set \notin {None, Delete} => TokenInv(tab'[d].set, users')
  BY <1>2 DEF PasskeyInvariant
<1>6. \A d, e \in Ceremonies :
        d # e /\ tab'[d].pc \in MakingPcs /\ tab'[e].pc \in MakingPcs => tab'[d].key # tab'[e].key
  BY <1>2 DEF PasskeyInvariant, KeysInv
<1>7. KeysInv'
  BY <1>6 DEF KeysInv
<1> QED
  BY <1>3, <1>4, <1>5, <1>7 DEF PasskeyInvariant

\* The same, when only the ceremony changes.
LEMMA LocalMoves ==
    ASSUME PasskeyInvariant, NEW c \in Ceremonies, NEW p \in Tab, tab' = [tab EXCEPT ![c] = p],
           UNCHANGED <<vars, keyVars>>, ChallengesTyped', Holds(p, keys, device),
           p.pc \in MakingPcs => tab[c].pc \in MakingPcs /\ p.key = tab[c].key,
           p.set \notin {None, Delete} => TokenInv(p.set, users)
    PROVE  PasskeyInvariant'
<1>1. UNCHANGED <<users, keys, device, told>>
  BY DEF vars, keyVars
<1>2. Invariant'
  BY StepPreserves DEF PasskeyInvariant, Preserved
<1>3. KeepsKeys
  BY <1>1 DEF KeepsKeys
<1>4. \A d \in Ceremonies \ {c} : tab[d].pc \in MakingPcs =>
        /\ keys'[tab[d].key].state = "absent"
        /\ p.pc \in MakingPcs => p.key # tab[d].key
  BY <1>1 DEF PasskeyInvariant, Holds, KeysInv
<1>5. /\ keys' \in [PasskeyIds -> Authenticator] /\ device' \in [PasskeyIds -> Device]
      /\ told' \subseteq PasskeyIds
  BY <1>1 DEF PasskeyInvariant, PasskeyTypeOK
<1>6. /\ \A k \in told' : keys'[k].state = "deleted"
      /\ \A k \in PasskeyIds : device'[k].user = None => keys'[k].state = "absent"
      /\ \A k \in PasskeyIds : keys'[k].state = "live" => keys'[k].user = device'[k].user
  BY <1>1 DEF PasskeyInvariant, KeysInv
<1>7. Holds(p, keys', device')
  BY <1>1
<1> QED
  BY <1>1, <1>2, <1>3, <1>4, <1>5, <1>6, <1>7, TabMoves

AtPc(q, pc) == [q EXCEPT !.pc = pc]

Same(p, q) ==
    /\ p.browser = q.browser /\ p.cookie = q.cookie /\ p.key = q.key /\ p.asked = q.asked
    /\ p.got = q.got /\ p.count = q.count /\ p.read = q.read /\ p.again = q.again
    /\ p.late = q.late /\ p.set = q.set

LEMMA ProceedFields ==
    ASSUME NEW q \in Tab, NEW pc \in TabPcs
    PROVE  AtPc(q, pc) \in Tab /\ AtPc(q, pc).pc = pc /\ Same(AtPc(q, pc), q)
<1>1. AtPc(q, pc) \in Tab
  BY DEF Tab, TabPcs, AtPc
<1> QED
  BY <1>1 DEF Tab, AtPc, Same

\* A handler goes on at pc with nothing else changed.
LEMMA ProceedMoves ==
    ASSUME PasskeyInvariant, NEW c \in Ceremonies, NEW pc \in TabPcs \ {"respond"},
           tab[c].pc # "respond", tab[c].pc # "idle",
           Proceed(c, pc, tab[c]), UNCHANGED <<vars, keyVars>>, ChallengesTyped',
           Holds(AtPc(tab[c], pc), keys, device), pc \in MakingPcs => tab[c].pc \in MakingPcs
    PROVE  PasskeyInvariant'
<1> DEFINE p == AtPc(tab[c], pc)
<1>1. tab[c] \in Tab /\ tab[c].set = None
  BY DEF PasskeyInvariant, PasskeyTypeOK, Holds
<1>2. p \in Tab /\ p.pc = pc /\ Same(p, tab[c])
  BY <1>1, ProceedFields
<1>3. tab' = [tab EXCEPT ![c] = p]
  BY DEF Proceed, AtPc
<1>4. Holds(p, keys, device)
  OBVIOUS
<1> HIDE DEF p
<1>5. p.set = None /\ p.key = tab[c].key
  BY <1>1, <1>2 DEF Same
<1> QED
  BY <1>2, <1>3, <1>4, <1>5, LocalMoves

Replied(q, reply, set) ==
    AtPc([Quiet EXCEPT !.browser = q.browser, !.late = q.late, !.reply = reply, !.set = set],
         "respond")

LEMMA AnswerFields ==
    ASSUME NEW q \in Tab, NEW reply \in TabReplies, NEW set \in Token \cup {None, Delete}
    PROVE  /\ Replied(q, reply, set) \in Tab
           /\ Replied(q, reply, set).pc = "respond"
           /\ Replied(q, reply, set).browser = q.browser
           /\ Replied(q, reply, set).late = q.late
           /\ Replied(q, reply, set).set = set
           /\ Replied(q, reply, set).again = FALSE
<1> DEFINE w == [Quiet EXCEPT !.browser = q.browser]
           x == [w EXCEPT !.late = q.late]
           y == [x EXCEPT !.reply = reply]
           z == [y EXCEPT !.set = set]
           p == Replied(q, reply, set)
<1>1. p = AtPc(z, "respond")
  <2>1. [Quiet EXCEPT !.browser = q.browser, !.late = q.late, !.reply = reply, !.set = set] = z
    BY QuietTyped DEF Tab
  <2> QED
    BY <2>1 DEF Replied
<1>2. w \in Tab /\ w.browser = q.browser /\ w.again = FALSE
  BY QuietTyped DEF Tab
<1> HIDE DEF w
<1>3. x \in Tab /\ x.browser = q.browser /\ x.again = FALSE /\ x.late = q.late
  BY <1>2 DEF Tab
<1> HIDE DEF x
<1>4. y \in Tab /\ y.browser = q.browser /\ y.again = FALSE /\ y.late = q.late
  BY <1>3 DEF Tab, TabReplies
<1> HIDE DEF y
<1>5. z \in Tab /\ z.browser = q.browser /\ z.again = FALSE /\ z.late = q.late /\ z.set = set
  BY <1>4 DEF Tab
<1> HIDE DEF z, p
<1>6. "respond" \in TabPcs
  BY DEF TabPcs, AtClient
<1>7. AtPc(z, "respond") \in Tab /\ AtPc(z, "respond").pc = "respond" /\ Same(AtPc(z, "respond"), z)
  BY <1>5, <1>6, ProceedFields
<1> QED
  BY <1>1, <1>5, <1>7 DEF p, Same

\* What an answer holds, whatever it is given to.
LEMMA AnswerHolds ==
    ASSUME PasskeyInvariant, NEW c \in Ceremonies, tab[c].pc # "idle", NEW reply \in TabReplies,
           NEW set \in Token \cup {None, Delete}, Answer(c, reply, set),
           set \in {None, Delete} \/ tab[c].late = {}
    PROVE  \E p \in Tab : /\ tab' = [tab EXCEPT ![c] = p]
                          /\ p.pc = "respond" /\ p.set = set
                          /\ \A K, D : Holds(p, K, D)
<1>1. PICK q \in Tab : tab[c] = q
  BY DEF PasskeyInvariant, PasskeyTypeOK
<1> DEFINE p == Replied(q, reply, set)
<1>2. /\ p \in Tab /\ p.pc = "respond" /\ p.browser = q.browser /\ p.late = q.late
      /\ p.set = set /\ p.again = FALSE
  BY <1>1, AnswerFields
<1>3. tab' = [tab EXCEPT ![c] = p]
  BY <1>1 DEF Answer, Proceed, Replied, AtPc
<1> HIDE DEF p
<1>4. q.browser \in Browsers
  BY <1>1 DEF PasskeyInvariant, Holds
<1>5. \A K, D : Holds(p, K, D)
  BY <1>1, <1>2, <1>4 DEF Holds, LoginPcs, MakingPcs
<1> QED
  BY <1>2, <1>3, <1>5

\* An answer by a handler that has changed nothing.
LEMMA AnswerMoves ==
    ASSUME PasskeyInvariant, NEW c \in Ceremonies, tab[c].pc # "idle", NEW reply \in TabReplies,
           NEW set \in Token \cup {None, Delete}, Answer(c, reply, set),
           UNCHANGED <<vars, keyVars>>, ChallengesTyped',
           set \notin {None, Delete} => tab[c].late = {} /\ TokenInv(set, users)
    PROVE  PasskeyInvariant'
<1>1. PICK p \in Tab : /\ tab' = [tab EXCEPT ![c] = p]
                       /\ p.pc = "respond" /\ p.set = set
                       /\ \A K, D : Holds(p, K, D)
  BY AnswerHolds
<1>2. p.pc \notin MakingPcs
  BY <1>1 DEF MakingPcs
<1> QED
  BY <1>1, <1>2, LocalMoves
-----------------------------------------------------------------------------
(***************************************************************************)
(* Login.                                                                  *)
(***************************************************************************)

LEMMA LoginStartStep ==
    ASSUME PasskeyInvariant, NEW c \in Ceremonies, NEW b \in Browsers, LoginStart(c, b)
    PROVE  PasskeyInvariant'
<1>1. PICK x \in Challenges :
        /\ given' = given \cup {x}
        /\ Proceed(c, "loginOptions",
                   [Quiet EXCEPT !.browser = b, !.asked = [challenge |-> x, user |-> None]])
  BY DEF LoginStart
<1> DEFINE w == [Quiet EXCEPT !.browser = b]
           v == [w EXCEPT !.asked = [challenge |-> x, user |-> None]]
           p == AtPc(v, "loginOptions")
<1>2. [Quiet EXCEPT !.browser = b, !.asked = [challenge |-> x, user |-> None]] = v
  BY QuietTyped DEF Tab
<1>3. tab' = [tab EXCEPT ![c] = p]
  BY <1>1, <1>2 DEF Proceed, AtPc
<1>4. w \in Tab /\ w.browser = b /\ w.set = None /\ w.again = FALSE /\ w.late = {}
  BY QuietTyped DEF Tab
<1> HIDE DEF w
<1>5. /\ v \in Tab /\ v.browser = b /\ v.set = None /\ v.again = FALSE /\ v.late = {}
      /\ v.asked \in SessionData
  BY <1>4 DEF Tab, SessionData
<1> HIDE DEF v
<1>6. p \in Tab /\ p.pc = "loginOptions" /\ Same(p, v)
  BY <1>5, ProceedFields DEF TabPcs, AtClient
<1> HIDE DEF p
<1>7. Holds(p, keys, device)
  BY <1>5, <1>6 DEF Holds, Same, LoginPcs, MakingPcs
<1>8. UNCHANGED <<vars, keyVars>> /\ ChallengesTyped'
  BY <1>1 DEF LoginStart, PasskeyInvariant, PasskeyTypeOK, ChallengesTyped
<1>9. p.set = None
  BY <1>5, <1>6 DEF Same
<1> QED
  BY <1>3, <1>6, <1>7, <1>8, <1>9, LocalMoves DEF MakingPcs

LEMMA OptionsArriveStep ==
    ASSUME PasskeyInvariant, NEW c \in Ceremonies,
           LoginOptionsArrive(c) \/ RegisterOptionsArrive(c)
    PROVE  PasskeyInvariant'
<1>1. PICK q \in Tab : tab[c] = q /\ Holds(q, keys, device)
  BY DEF PasskeyInvariant, PasskeyTypeOK
<1>2. q.pc \in {"loginOptions", "registerOptions"} /\ q.asked \in SessionData
  BY <1>1 DEF LoginOptionsArrive, RegisterOptionsArrive, In, Holds
<1>3. UNCHANGED <<vars, keyVars>> /\ ChallengesTyped'
  BY <1>1, <1>2 DEF LoginOptionsArrive, RegisterOptionsArrive, PasskeyInvariant, PasskeyTypeOK,
    ChallengesTyped
<1>4. CASE LoginOptionsArrive(c)
  <2> DEFINE p == AtPc(q, "prompt")
  <2>1. p.pc = "prompt" /\ Same(p, q) /\ "prompt" \in TabPcs
    BY ProceedFields DEF TabPcs, AtClient
  <2> HIDE DEF p
  <2>2. Holds(p, keys, device)
    BY <1>1, <1>2, <1>4, <2>1 DEF Holds, Same, LoginPcs, MakingPcs, LoginOptionsArrive, In
  <2> QED
    BY <1>1, <1>2, <1>3, <1>4, <2>1, <2>2, ProceedMoves DEF LoginOptionsArrive, MakingPcs, p
<1>5. CASE RegisterOptionsArrive(c)
  <2> DEFINE p == AtPc(q, "create")
  <2>1. p.pc = "create" /\ Same(p, q) /\ "create" \in TabPcs
    BY ProceedFields DEF TabPcs, AtClient
  <2> HIDE DEF p
  <2>2. Holds(p, keys, device)
    BY <1>1, <1>2, <1>5, <2>1 DEF Holds, Same, LoginPcs, MakingPcs, RegisterOptionsArrive, In
  <2> QED
    BY <1>1, <1>2, <1>3, <1>5, <2>1, <2>2, ProceedMoves DEF RegisterOptionsArrive, MakingPcs, p
<1> QED
  BY <1>4, <1>5

\* What TabMoves wants of a step that leaves the rows and the owners alone.
LEMMA DeviceCounts ==
    ASSUME PasskeyInvariant, NEW c \in Ceremonies, NEW p \in Tab, tab' = [tab EXCEPT ![c] = p],
           NEW k \in PasskeyIds, NEW n \in Nat, device' = [device EXCEPT ![k].count = n],
           UNCHANGED <<vars, keys, told, challengeVars>>, p.pc \notin MakingPcs,
           Holds(p, keys, device'), p.set = None
    PROVE  PasskeyInvariant'
<1>1. UNCHANGED <<users, keys, told>> /\ ChallengesTyped'
  BY ChallengesSame DEF vars
<1>2. Invariant'
  BY StepPreserves DEF PasskeyInvariant, Preserved
<1>3. device \in [PasskeyIds -> Device] /\ keys \in [PasskeyIds -> Authenticator] /\ told \subseteq PasskeyIds
  BY DEF PasskeyInvariant, PasskeyTypeOK
<1>4. device' \in [PasskeyIds -> Device] /\ \A j \in PasskeyIds : device'[j].user = device[j].user
  BY <1>3 DEF Device
<1>5. KeepsKeys
  BY <1>1, <1>4 DEF KeepsKeys
<1>6. /\ \A j \in told' : keys'[j].state = "deleted"
      /\ \A j \in PasskeyIds : device'[j].user = None => keys'[j].state = "absent"
      /\ \A j \in PasskeyIds : keys'[j].state = "live" => keys'[j].user = device'[j].user
  BY <1>1, <1>4 DEF PasskeyInvariant, KeysInv
<1>7. \A d \in Ceremonies \ {c} : tab[d].pc \in MakingPcs =>
        /\ keys'[tab[d].key].state = "absent"
        /\ p.pc \in MakingPcs => p.key # tab[d].key
  BY <1>1 DEF PasskeyInvariant, Holds
<1>8. Holds(p, keys', device')
  BY <1>1
<1>9. keys' \in [PasskeyIds -> Authenticator] /\ told' \subseteq PasskeyIds
  BY <1>1, <1>3
<1> QED
  BY <1>1, <1>2, <1>4, <1>5, <1>6, <1>7, <1>8, <1>9, TabMoves

LEMMA SignStep ==
    ASSUME PasskeyInvariant, NEW c \in Ceremonies, Sign(c)
    PROVE  PasskeyInvariant'
<1>1. PICK q \in Tab : tab[c] = q /\ Holds(q, keys, device) /\ q.pc = "prompt"
  BY DEF PasskeyInvariant, PasskeyTypeOK, Sign, In
<1> DEFINE count(k) == IF k \in Counting THEN device[k].count + 1 ELSE 0
           got == authChallenge[q.browser]
<1>2. PICK k \in PasskeyIds :
        /\ device[k].user # None
        /\ device' = [device EXCEPT ![k].count = count(k)]
        /\ IF got = None THEN Answer(c, "expired", None)
           ELSE Proceed(c, "key", [q EXCEPT !.key = k, !.count = count(k), !.late = told \cap {k},
                                            !.got = got])
  BY <1>1 DEF Sign
<1>3. UNCHANGED <<vars, keys, told, challengeVars>>
  BY DEF Sign
<1>4. q.browser \in Browsers /\ q.set = None /\ got \in SessionData \cup {None}
  BY <1>1 DEF Holds, PasskeyInvariant, PasskeyTypeOK
<1>5. device[k] \in Device /\ device \in [PasskeyIds -> Device]
  BY DEF PasskeyInvariant, PasskeyTypeOK
<1>6. PICK n \in Nat : n = count(k)
  BY <1>5 DEF Device
<1>7. device'[k].user \in UserIds
  BY <1>2, <1>5 DEF Device
<1>8. CASE got = None
  <2>1. tab[c].pc # "idle" /\ "expired" \in TabReplies
    BY <1>1 DEF TabReplies
  <2>2. PICK p \in Tab : /\ tab' = [tab EXCEPT ![c] = p]
                         /\ p.pc = "respond" /\ p.set = None
                         /\ \A K, D : Holds(p, K, D)
    BY <1>2, <1>8, <2>1, AnswerHolds
  <2> QED
    BY <1>2, <1>3, <1>6, <2>2, DeviceCounts DEF MakingPcs
<1>9. CASE got # None
  <2> DEFINE late == told \cap {k}
             w == [q EXCEPT !.key = k]
             v == [w EXCEPT !.count = n]
             x == [v EXCEPT !.late = late]
             y == [x EXCEPT !.got = got]
             p == AtPc(y, "key")
  <2>1. [q EXCEPT !.key = k, !.count = count(k), !.late = told \cap {k}, !.got = got] = y
    BY <1>6 DEF Tab
  <2>2. tab' = [tab EXCEPT ![c] = p]
    BY <1>2, <1>9, <2>1 DEF Proceed, AtPc
  <2>3. w \in Tab /\ w.key = k /\ w.browser = q.browser /\ w.set = None /\ w.again = q.again
        /\ w.read = q.read
    BY <1>4 DEF Tab
  <2> HIDE DEF w
  <2>4. v \in Tab /\ v.key = k /\ v.browser = q.browser /\ v.set = None /\ v.again = q.again
        /\ v.read = q.read /\ v.count = n
    BY <2>3 DEF Tab
  <2> HIDE DEF v
  <2>5. x \in Tab /\ x.key = k /\ x.browser = q.browser /\ x.set = None /\ x.again = q.again
        /\ x.read = q.read /\ x.count = n /\ x.late = late
    BY <2>4 DEF Tab
  <2> HIDE DEF x
  <2>6. y \in Tab /\ y.key = k /\ y.browser = q.browser /\ y.set = None /\ y.again = q.again
        /\ y.late = late
    BY <1>4, <2>5 DEF Tab
  <2> HIDE DEF y
  <2>7. p \in Tab /\ p.pc = "key" /\ Same(p, y)
    BY <2>6, ProceedFields DEF TabPcs, KeyErrorReply
  <2> HIDE DEF p
  <2>8. /\ p.browser \in Browsers /\ p.set = None /\ p.again = FALSE
        /\ p.key = k /\ (p.late # {} => keys[k].state = "deleted")
    BY <1>1, <1>4, <2>6, <2>7 DEF Same, Holds, LoginPcs, PasskeyInvariant, KeysInv
  <2>9. Holds(p, keys, device')
    BY <1>7, <2>7, <2>8 DEF Holds, LoginPcs, MakingPcs
  <2> QED
    BY <1>2, <1>3, <1>6, <2>2, <2>7, <2>8, <2>9, DeviceCounts DEF MakingPcs
<1> QED
  BY <1>8, <1>9

\* A handler goes from one statement to the next, the passkey still being there.
LEMMA AdvanceMoves ==
    ASSUME PasskeyInvariant, NEW c \in Ceremonies, NEW from, NEW to,
           <<from, to>> \in {<<"key", "owner">>, <<"owner", "list">>, <<"list", "count">>,
                             <<"startAuth", "startList">>, <<"deleteAuth", "delete">>,
                             <<"renameAuth", "rename">>},
           tab[c].pc = from, Proceed(c, to, tab[c]), UNCHANGED <<vars, keyVars, challengeVars>>,
           from = "key" => tab[c].key \in Registered,
           from = "list" => tab[c].again,
           from \in {"startAuth", "deleteAuth", "renameAuth"} => tab[c].cookie \in Token
    PROVE  PasskeyInvariant'
<1>1. PICK q \in Tab : tab[c] = q /\ Holds(q, keys, device)
  BY DEF PasskeyInvariant, PasskeyTypeOK
<1> DEFINE p == AtPc(q, to)
<1>2. to \in TabPcs \ {"respond"} /\ from \notin {"respond", "idle"} /\ to \notin MakingPcs
  BY DEF TabPcs, AtClient, KeyErrorReply, MakingPcs
<1>3. p.pc = to /\ Same(p, q)
  BY <1>2, ProceedFields
<1> HIDE DEF p
<1>4. q.late = {}
  BY <1>1 DEF Holds, Registered
<1>5. Holds(p, keys, device)
  BY <1>1, <1>3, <1>4 DEF Holds, Same, LoginPcs, MakingPcs
<1> QED
  BY <1>1, <1>2, <1>5, ChallengesSame, ProceedMoves DEF p

LEMMA AnswerStep ==
    ASSUME PasskeyInvariant, NEW c \in Ceremonies, tab[c].pc # "idle",
           NEW reply \in TabReplies, NEW set \in {None, Delete}, Answer(c, reply, set),
           UNCHANGED <<vars, keyVars, challengeVars>>
    PROVE  PasskeyInvariant'
<1>1. set \in Token \cup {None, Delete} /\ set \in {None, Delete}
  OBVIOUS
<1>2. UNCHANGED <<vars, keyVars>> /\ ChallengesTyped'
  BY ChallengesSame
<1> QED
  BY <1>1, <1>2, AnswerMoves

LEMMA FindStep ==
    ASSUME PasskeyInvariant, NEW c \in Ceremonies, FindKey(c) \/ FindOwner(c)
    PROVE  PasskeyInvariant'
<1>1. /\ "refused" \in TabReplies /\ "panic" \in TabReplies
      /\ tab[c].pc \in {"key", "owner"} /\ UNCHANGED <<vars, keyVars, challengeVars>>
  BY DEF TabReplies, FindKey, FindOwner, In
<1>2. CASE Answer(c, "refused", None) \/ Answer(c, "panic", None)
  BY <1>1, <1>2, AnswerStep
<1>3. CASE /\ tab[c].pc = "key" /\ tab[c].key \in Registered /\ Proceed(c, "owner", tab[c])
  BY <1>1, <1>3, AdvanceMoves
<1>4. CASE /\ tab[c].pc = "owner" /\ Proceed(c, "list", tab[c])
  BY <1>1, <1>4, AdvanceMoves
<1> QED
  BY <1>2, <1>3, <1>4 DEF FindKey, FindOwner, In

\* The library keeps the larger count.
LEMMA SignCountGrows ==
    ASSUME NEW stored \in Nat, NEW n \in Nat
    PROVE  SignCount(stored, n) \in Nat /\ stored <= SignCount(stored, n)
BY DEF SignCount

LEMMA ListKeysStep ==
    ASSUME PasskeyInvariant, NEW c \in Ceremonies, ListKeys(c)
    PROVE  PasskeyInvariant'
<1>1. PICK q \in Tab : tab[c] = q /\ Holds(q, keys, device) /\ q.pc = "list"
  BY DEF PasskeyInvariant, PasskeyTypeOK, ListKeys, In
<1>2. UNCHANGED <<vars, keyVars, challengeVars>>
  BY DEF ListKeys
<1>3. CASE Answer(c, "refused", None)
  <2>1. tab[c].pc # "idle" /\ "refused" \in TabReplies
    BY <1>1 DEF TabReplies
  <2> QED
    BY <1>2, <1>3, <2>1, AnswerStep
<1>4. CASE q.again /\ Proceed(c, "count", q)
  BY <1>1, <1>2, <1>4, AdvanceMoves
<1>5. CASE Proceed(c, "key", [q EXCEPT !.again = TRUE, !.read = keys[q.key].counter,
                                       !.count = SignCount(keys[q.key].counter, q.count)])
  <2>1. PICK stored \in Nat, n \in Nat :
          stored = keys[q.key].counter /\ n = SignCount(stored, q.count) /\ stored <= n
    <3>1. q.key \in PasskeyIds /\ q.count \in Nat
      BY <1>1 DEF Holds, LoginPcs, Tab
    <3>2. keys[q.key].counter \in Nat
      BY <3>1 DEF PasskeyInvariant, PasskeyTypeOK, Authenticator
    <3> QED
      BY <3>1, <3>2, SignCountGrows
  <2> DEFINE w == [q EXCEPT !.again = TRUE]
             v == [w EXCEPT !.read = stored]
             x == [v EXCEPT !.count = n]
             p == AtPc(x, "key")
  <2>2. [q EXCEPT !.again = TRUE, !.read = stored, !.count = n] = x
    BY DEF Tab
  <2>3. tab' = [tab EXCEPT ![c] = p]
    BY <1>5, <2>1, <2>2 DEF Proceed, AtPc
  <2>4. w \in Tab /\ w.browser = q.browser /\ w.key = q.key /\ w.set = q.set /\ w.late = q.late
    BY DEF Tab
  <2> HIDE DEF w
  <2>5. v \in Tab /\ v.browser = q.browser /\ v.key = q.key /\ v.set = q.set /\ v.late = q.late
        /\ v.read = stored
    BY <2>4 DEF Tab
  <2> HIDE DEF v
  <2>6. x \in Tab /\ x.browser = q.browser /\ x.key = q.key /\ x.set = q.set /\ x.late = q.late
        /\ x.read = stored /\ x.count = n
    BY <2>5 DEF Tab
  <2> HIDE DEF x
  <2>7. p \in Tab /\ p.pc = "key" /\ Same(p, x)
    BY <2>6, ProceedFields DEF TabPcs, KeyErrorReply
  <2> HIDE DEF p
  <2>8. q.late = {} /\ q.set = None /\ q.browser \in Browsers /\ q.key \in PasskeyIds
        /\ device[q.key].user \in UserIds
    BY <1>1 DEF Holds, LoginPcs
  <2>9. Holds(p, keys, device)
    BY <2>1, <2>6, <2>7, <2>8 DEF Holds, Same, LoginPcs, MakingPcs
  <2>10. p.set = None
    BY <2>6, <2>7, <2>8 DEF Same
  <2>11. UNCHANGED <<vars, keyVars>> /\ ChallengesTyped'
    BY <1>2, ChallengesSame
  <2> QED
    BY <2>3, <2>7, <2>9, <2>10, <2>11, LocalMoves DEF MakingPcs
<1> QED
  BY <1>1, <1>3, <1>4, <1>5 DEF ListKeys, ListedCount

LEMMA IssueStep ==
    ASSUME PasskeyInvariant, NEW c \in Ceremonies, Issue(c)
    PROVE  PasskeyInvariant'
<1>1. PICK q \in Tab : tab[c] = q /\ Holds(q, keys, device) /\ q.pc = "issue"
  BY DEF PasskeyInvariant, PasskeyTypeOK, Issue, In
<1>2. UNCHANGED <<vars, keyVars, challengeVars>>
  BY DEF Issue
<1>3. PICK u \in UserIds : u = device[q.key].user
  BY <1>1 DEF Holds, LoginPcs
<1>4. q.late = {} /\ tab[c].pc # "idle" /\ "panic" \in TabReplies /\ "home" \in TabReplies
  BY <1>1 DEF Holds, TabReplies
<1>5. CASE u \in Live
  <2> DEFINE t == IssuedFor(u, users[u], users[u].password, "passkey")
  <2>1. users[u] \in Row /\ users[u].state = "live" /\ users[u].version \in Nat
    BY <1>5 DEF Live, PasskeyInvariant, Invariant, TypeOK, Row
  <2>3. t \in Token
    BY <2>1 DEF IssuedFor, Token, Row
  <2>4. TokenInv(t, users)
    BY <2>1 DEF IssuedFor, TokenInv, Remembers, StillHas
  <2>5. Answer(c, "home", t)
    BY <1>1, <1>3, <1>5 DEF Issue
  <2>6. UNCHANGED <<vars, keyVars>> /\ ChallengesTyped'
    BY <1>2, ChallengesSame
  <2> HIDE DEF t
  <2> QED
    BY <1>1, <1>4, <2>3, <2>4, <2>5, <2>6, AnswerMoves
<1>6. CASE u \notin Live
  BY <1>1, <1>2, <1>3, <1>4, <1>6, AnswerStep DEF Issue
<1> QED
  BY <1>5, <1>6

\* The count of one row is written: neither its state nor its user changes.
LEMMA StoreCounterStep ==
    ASSUME PasskeyInvariant, NEW c \in Ceremonies, StoreCounter(c)
    PROVE  PasskeyInvariant'
<1>1. PICK q \in Tab : tab[c] = q /\ Holds(q, keys, device) /\ q.pc = "count"
  BY DEF PasskeyInvariant, PasskeyTypeOK, StoreCounter, In
<1> DEFINE p == AtPc(q, "issue")
<1>2. /\ UNCHANGED <<users, device, told>> /\ ChallengesTyped' /\ Invariant'
      /\ tab' = [tab EXCEPT ![c] = p]
  BY <1>1, StepPreserves, ChallengesSame
  DEF StoreCounter, Proceed, AtPc, vars, PasskeyInvariant, Preserved
<1>3. p \in Tab /\ p.pc = "issue" /\ Same(p, q)
  BY ProceedFields DEF TabPcs, KeyErrorReply
<1> HIDE DEF p
<1>4. q.key \in PasskeyIds /\ q.count \in Nat /\ q.late = {} /\ q.set = None
  BY <1>1 DEF Holds, LoginPcs, Tab
<1>5. /\ keys \in [PasskeyIds -> Authenticator] /\ device \in [PasskeyIds -> Device]
      /\ told \subseteq PasskeyIds
  BY DEF PasskeyInvariant, PasskeyTypeOK
<1>6. keys' = keys \/ keys' = [keys EXCEPT ![q.key].counter = q.count]
  BY <1>1 DEF StoreCounter
<1>7. /\ keys' \in [PasskeyIds -> Authenticator]
      /\ \A k \in PasskeyIds : keys'[k].state = keys[k].state /\ keys'[k].user = keys[k].user
  BY <1>4, <1>5, <1>6 DEF Authenticator
<1>8. KeepsKeys
  BY <1>2, <1>7 DEF KeepsKeys
<1>9. /\ \A k \in told' : keys'[k].state = "deleted"
      /\ \A k \in PasskeyIds : device'[k].user = None => keys'[k].state = "absent"
      /\ \A k \in PasskeyIds : keys'[k].state = "live" => keys'[k].user = device'[k].user
  BY <1>2, <1>5, <1>7 DEF PasskeyInvariant, KeysInv
<1>10. \A d \in Ceremonies \ {c} : tab[d].pc \in MakingPcs =>
         /\ keys'[tab[d].key].state = "absent"
         /\ p.pc \in MakingPcs => p.key # tab[d].key
  BY <1>3, <1>7 DEF PasskeyInvariant, Holds, MakingPcs
<1>11. Holds(p, keys', device')
  BY <1>1, <1>2, <1>3, <1>4 DEF Holds, Same, LoginPcs, MakingPcs
<1>12. /\ device' \in [PasskeyIds -> Device] /\ told' \subseteq PasskeyIds /\ p.set = None
  BY <1>2, <1>3, <1>4, <1>5 DEF Same
<1> QED
  BY <1>2, <1>3, <1>7, <1>8, <1>9, <1>10, <1>11, <1>12, TabMoves
-----------------------------------------------------------------------------
(***************************************************************************)
(* Registration, deletion and renaming.                                    *)
(***************************************************************************)

LEMMA AskMoves ==
    ASSUME PasskeyInvariant, NEW c \in Ceremonies, NEW b \in Browsers,
           NEW pc \in {"startAuth", "deleteAuth", "renameAuth"}, NEW form \in Tab,
           form.set = None, form.again = FALSE, form.late = {}, Ask(c, b, pc, form)
    PROVE  PasskeyInvariant'
<1>1. PICK token \in Token \cup {None} : token = session[b]
  BY DEF PasskeyInvariant, Invariant, TypeOK
<1> DEFINE w == [form EXCEPT !.browser = b]
           v == [w EXCEPT !.cookie = token]
           p == AtPc(v, pc)
<1>2. [form EXCEPT !.browser = b, !.cookie = token] = v
  BY DEF Tab
<1>3. tab' = [tab EXCEPT ![c] = p]
  BY <1>1, <1>2 DEF Ask, Proceed, AtPc
<1>4. w \in Tab /\ w.browser = b /\ w.set = None /\ w.again = FALSE /\ w.late = {}
  BY DEF Tab
<1> HIDE DEF w
<1>5. v \in Tab /\ v.browser = b /\ v.set = None /\ v.again = FALSE /\ v.late = {}
  BY <1>4 DEF Tab
<1> HIDE DEF v
<1>6. pc \in TabPcs
  BY DEF TabPcs, KeyErrorReply
<1>7. p \in Tab /\ p.pc = pc /\ Same(p, v)
  BY <1>5, <1>6, ProceedFields
<1> HIDE DEF p
<1>8. Holds(p, keys, device) /\ p.set = None
  BY <1>5, <1>7 DEF Holds, Same, LoginPcs, MakingPcs
<1>9. UNCHANGED <<vars, keyVars>> /\ ChallengesTyped'
  BY ChallengesSame DEF Ask
<1> QED
  BY <1>3, <1>7, <1>8, <1>9, LocalMoves DEF MakingPcs

LEMMA AskSteps ==
    ASSUME PasskeyInvariant, NEW c \in Ceremonies, NEW b \in Browsers,
           RegisterStart(c, b) \/ DeleteSubmit(c, b) \/ RenameSubmit(c, b)
    PROVE  PasskeyInvariant'
<1>1. CASE RegisterStart(c, b)
  BY <1>1, QuietTyped, AskMoves DEF RegisterStart
<1>2. ASSUME NEW k \in PasskeyIds, NEW pc \in {"deleteAuth", "renameAuth"},
             Ask(c, b, pc, [Quiet EXCEPT !.key = k])
      PROVE  PasskeyInvariant'
  <2> DEFINE form == [Quiet EXCEPT !.key = k]
  <2>1. form \in Tab /\ form.set = None /\ form.again = FALSE /\ form.late = {}
    BY QuietTyped DEF Tab
  <2> HIDE DEF form
  <2>2. Ask(c, b, pc, form)
    BY <1>2 DEF form
  <2> QED
    BY <2>1, <2>2, AskMoves
<1> QED
  BY <1>1, <1>2 DEF DeleteSubmit, RenameSubmit

LEMMA KeyRejectStep ==
    ASSUME PasskeyInvariant, NEW c \in Ceremonies, KeyReject(c)
    PROVE  PasskeyInvariant'
<1>1. /\ tab[c].pc # "idle" /\ UNCHANGED <<vars, keyVars, challengeVars>>
      /\ "toLogin" \in TabReplies
  BY DEF KeyReject, TabReplies
<1>2. Answer(c, "toLogin", None) \/ Answer(c, "toLogin", Delete)
  BY DEF KeyReject
<1> QED
  BY <1>1, <1>2, AnswerStep

\* Whoever is admitted has a token.
LEMMA AdmittedToken ==
    ASSUME PasskeyInvariant, NEW c \in Ceremonies, NEW pc, Admitted(c, pc)
    PROVE  tab[c].cookie \in Token /\ tab[c].cookie.user \in UserIds
<1>1. tab[c].cookie \in Token
  BY DEF PasskeyInvariant, PasskeyTypeOK, Tab, Admitted
<1> QED
  BY <1>1 DEF Token

LEMMA AdmitStep ==
    ASSUME PasskeyInvariant, NEW c \in Ceremonies, StartAdmit(c) \/ DeleteAdmit(c) \/ RenameAdmit(c)
    PROVE  PasskeyInvariant'
<1>1. UNCHANGED <<vars, keyVars, challengeVars>> /\ tab[c].cookie \in Token
  BY AdmittedToken DEF StartAdmit, DeleteAdmit, RenameAdmit
<1> QED
  BY <1>1, AdvanceMoves DEF StartAdmit, DeleteAdmit, RenameAdmit, Admitted, In

LEMMA StartListStep ==
    ASSUME PasskeyInvariant, NEW c \in Ceremonies, StartList(c)
    PROVE  PasskeyInvariant'
<1>1. PICK q \in Tab : tab[c] = q /\ Holds(q, keys, device) /\ q.pc = "startList"
  BY DEF PasskeyInvariant, PasskeyTypeOK, StartList, In
<1>2. PICK u \in UserIds : u = q.cookie.user
  BY <1>1 DEF Holds, Token
<1>3. PICK x \in Challenges :
        /\ given' = given \cup {x}
        /\ Proceed(c, "registerOptions",
                   [q EXCEPT !.asked = [challenge |-> x, user |-> u], !.cookie = None])
  BY <1>1, <1>2 DEF StartList
<1> DEFINE w == [q EXCEPT !.asked = [challenge |-> x, user |-> u]]
           v == [w EXCEPT !.cookie = None]
           p == AtPc(v, "registerOptions")
<1>4. [q EXCEPT !.asked = [challenge |-> x, user |-> u], !.cookie = None] = v
  BY DEF Tab
<1>5. tab' = [tab EXCEPT ![c] = p]
  BY <1>3, <1>4 DEF Proceed, AtPc
<1>6. /\ q.browser \in Browsers /\ q.set = None /\ q.late = {} /\ ~q.again
  BY <1>1 DEF Holds, LoginPcs
<1>7. /\ w \in Tab /\ w.browser = q.browser /\ w.set = None /\ w.again = q.again /\ w.late = {}
      /\ w.asked \in SessionData /\ w.asked.user = u
  BY <1>6 DEF Tab, SessionData
<1> HIDE DEF w
<1>8. /\ v \in Tab /\ v.browser = q.browser /\ v.set = None /\ v.again = q.again /\ v.late = {}
      /\ v.asked \in SessionData /\ v.asked.user = u
  BY <1>7 DEF Tab
<1> HIDE DEF v
<1>9. p \in Tab /\ p.pc = "registerOptions" /\ Same(p, v)
  BY <1>8, ProceedFields DEF TabPcs, AtClient
<1> HIDE DEF p
<1>10. Holds(p, keys, device) /\ p.set = None
  BY <1>6, <1>8, <1>9 DEF Holds, Same, LoginPcs, MakingPcs
<1>11. UNCHANGED <<vars, keyVars>> /\ ChallengesTyped'
  BY <1>3 DEF StartList, PasskeyInvariant, PasskeyTypeOK, ChallengesTyped
<1> QED
  BY <1>5, <1>9, <1>10, <1>11, LocalMoves DEF MakingPcs

\* A new credential: no row has it, and no other ceremony is registering it.
LEMMA CreateStep ==
    ASSUME PasskeyInvariant, NEW c \in Ceremonies, Create(c)
    PROVE  PasskeyInvariant'
<1>1. PICK q \in Tab : tab[c] = q /\ Holds(q, keys, device) /\ q.pc = "create"
  BY DEF PasskeyInvariant, PasskeyTypeOK, Create, In
<1>2. /\ q.browser \in Browsers /\ q.set = None /\ q.late = {} /\ ~q.again
      /\ q.asked \in SessionData /\ q.asked.user \in UserIds
  BY <1>1 DEF Holds, LoginPcs
<1>3. PICK token \in Token \cup {None}, got \in SessionData \cup {None} :
        token = session[q.browser] /\ got = regChallenge[q.browser]
  BY <1>2 DEF PasskeyInvariant, Invariant, TypeOK, PasskeyTypeOK
<1>4. PICK k \in PasskeyIds :
        /\ device[k].user = None
        /\ device' = [device EXCEPT ![k].user = q.asked.user]
        /\ Proceed(c, "finishAuth", [q EXCEPT !.key = k, !.cookie = token, !.got = got])
  BY <1>1, <1>3 DEF Create
<1> DEFINE w == [q EXCEPT !.key = k]
           v == [w EXCEPT !.cookie = token]
           x == [v EXCEPT !.got = got]
           p == AtPc(x, "finishAuth")
<1>5. [q EXCEPT !.key = k, !.cookie = token, !.got = got] = x
  BY DEF Tab
<1>6. tab' = [tab EXCEPT ![c] = p]
  BY <1>4, <1>5 DEF Proceed, AtPc
<1>7. /\ w \in Tab /\ w.browser = q.browser /\ w.set = None /\ w.again = q.again /\ w.late = {}
      /\ w.asked = q.asked /\ w.key = k
  BY <1>2 DEF Tab
<1> HIDE DEF w
<1>8. /\ v \in Tab /\ v.browser = q.browser /\ v.set = None /\ v.again = q.again /\ v.late = {}
      /\ v.asked = q.asked /\ v.key = k
  BY <1>7 DEF Tab
<1> HIDE DEF v
<1>9. /\ x \in Tab /\ x.browser = q.browser /\ x.set = None /\ x.again = q.again /\ x.late = {}
      /\ x.asked = q.asked /\ x.key = k
  BY <1>8 DEF Tab
<1> HIDE DEF x
<1>10. p \in Tab /\ p.pc = "finishAuth" /\ Same(p, x)
  BY <1>9, ProceedFields DEF TabPcs, KeyErrorReply
<1> HIDE DEF p
<1>11. /\ UNCHANGED <<users, keys, told>> /\ ChallengesTyped' /\ Invariant'
  BY StepPreserves, ChallengesSame DEF Create, vars, PasskeyInvariant, Preserved
<1>12. /\ keys \in [PasskeyIds -> Authenticator] /\ device \in [PasskeyIds -> Device]
       /\ told \subseteq PasskeyIds /\ None \notin UserIds
  BY NoneAssumption DEF PasskeyInvariant, PasskeyTypeOK
<1>13. /\ device' \in [PasskeyIds -> Device] /\ device'[k].user = q.asked.user
       /\ \A j \in PasskeyIds \ {k} : device'[j] = device[j]
  BY <1>2, <1>4, <1>12 DEF Device
<1>14. keys[k].state = "absent"
  BY <1>4 DEF PasskeyInvariant, KeysInv
<1>15. KeepsKeys
  BY <1>4, <1>11, <1>13 DEF KeepsKeys
<1>16. /\ \A j \in told' : keys'[j].state = "deleted"
       /\ \A j \in PasskeyIds : device'[j].user = None => keys'[j].state = "absent"
       /\ \A j \in PasskeyIds : keys'[j].state = "live" => keys'[j].user = device'[j].user
  BY <1>2, <1>11, <1>12, <1>13, <1>14 DEF PasskeyInvariant, KeysInv
<1>17. p.key = k /\ p.set = None
  BY <1>9, <1>10 DEF Same
<1>18. \A d \in Ceremonies \ {c} : tab[d].pc \in MakingPcs =>
         /\ keys'[tab[d].key].state = "absent"
         /\ p.pc \in MakingPcs => p.key # tab[d].key
  BY <1>4, <1>11, <1>12, <1>17 DEF PasskeyInvariant, Holds
<1>19. Holds(p, keys', device')
  BY <1>2, <1>9, <1>10, <1>11, <1>13, <1>14 DEF Holds, Same, LoginPcs, MakingPcs
<1>20. keys' \in [PasskeyIds -> Authenticator] /\ told' \subseteq PasskeyIds
  BY <1>11, <1>12
<1> QED
  BY <1>6, <1>10, <1>11, <1>13, <1>15, <1>16, <1>17, <1>18, <1>19, <1>20, TabMoves

LEMMA FinishAdmitStep ==
    ASSUME PasskeyInvariant, NEW c \in Ceremonies, FinishAdmit(c)
    PROVE  PasskeyInvariant'
<1>1. PICK q \in Tab : tab[c] = q /\ Holds(q, keys, device) /\ q.pc = "finishAuth"
  BY DEF PasskeyInvariant, PasskeyTypeOK, FinishAdmit, Admitted, In
<1>2. UNCHANGED <<vars, keyVars, challengeVars>> /\ q.cookie \in Token
  BY <1>1, AdmittedToken DEF FinishAdmit
<1>3. CASE Answer(c, "expired", None) \/ Answer(c, "refused", None)
  <2>1. tab[c].pc # "idle" /\ "expired" \in TabReplies /\ "refused" \in TabReplies
    BY <1>1 DEF TabReplies
  <2> QED
    BY <1>2, <1>3, <2>1, AnswerStep
<1>4. CASE q.got = q.asked /\ q.got.user = q.cookie.user /\ Proceed(c, "insert", q)
  <2> DEFINE p == AtPc(q, "insert")
  <2>1. p.pc = "insert" /\ Same(p, q)
    BY ProceedFields DEF TabPcs, KeyErrorReply
  <2> HIDE DEF p
  <2>2. Holds(p, keys, device)
    BY <1>1, <1>2, <1>4, <2>1 DEF Holds, Same, LoginPcs, MakingPcs
  <2>3. "insert" \in TabPcs \ {"respond"} /\ q.pc \in MakingPcs
    BY <1>1 DEF TabPcs, KeyErrorReply, MakingPcs
  <2>4. UNCHANGED <<vars, keyVars>> /\ ChallengesTyped'
    BY <1>2, ChallengesSame
  <2> QED
    BY <1>1, <1>4, <2>2, <2>3, <2>4, ProceedMoves DEF p
<1> QED
  BY <1>1, <1>3, <1>4 DEF FinishAdmit

LEMMA InsertStep ==
    ASSUME PasskeyInvariant, NEW c \in Ceremonies, Insert(c)
    PROVE  PasskeyInvariant'
<1>1. PICK q \in Tab : tab[c] = q /\ Holds(q, keys, device) /\ q.pc = "insert"
  BY DEF PasskeyInvariant, PasskeyTypeOK, Insert, In
<1>2. /\ tab[c].pc # "idle" /\ "registered" \in TabReplies /\ "serverError" \in TabReplies
      /\ tab[c].late = {} /\ None \in Token \cup {None, Delete}
  BY <1>1 DEF TabReplies, Holds
<1>3. CASE Answer(c, "serverError", None) /\ UNCHANGED keys
  <2>1. UNCHANGED <<vars, keyVars, challengeVars>>
    BY <1>3 DEF Insert, keyVars
  <2> QED
    BY <1>2, <1>3, <2>1, AnswerStep
<1>4. CASE /\ keys' = [keys EXCEPT ![q.key] = [state |-> "live", user |-> q.cookie.user,
                                               counter |-> device[q.key].count]]
           /\ Answer(c, "registered", None)
  <2>1. PICK p \in Tab : /\ tab' = [tab EXCEPT ![c] = p]
                         /\ p.pc = "respond" /\ p.set = None
                         /\ \A K, D : Holds(p, K, D)
    BY <1>2, <1>4, AnswerHolds
  <2>2. /\ q.key \in PasskeyIds /\ q.cookie.user \in UserIds
        /\ q.cookie.user = device[q.key].user /\ keys[q.key].state = "absent"
    BY <1>1 DEF Holds, MakingPcs, Token
  <2>3. /\ UNCHANGED <<users, device, told>> /\ ChallengesTyped' /\ Invariant'
    BY StepPreserves, ChallengesSame DEF Insert, vars, PasskeyInvariant, Preserved
  <2>4. /\ keys \in [PasskeyIds -> Authenticator] /\ device \in [PasskeyIds -> Device]
        /\ told \subseteq PasskeyIds /\ None \notin UserIds
    BY NoneAssumption DEF PasskeyInvariant, PasskeyTypeOK
  <2>5. device[q.key].count \in Nat
    BY <2>2, <2>4 DEF Device
  <2>6. /\ keys' \in [PasskeyIds -> Authenticator]
        /\ keys'[q.key].state = "live" /\ keys'[q.key].user = device[q.key].user
        /\ \A k \in PasskeyIds \ {q.key} : keys'[k] = keys[k]
    BY <1>4, <2>2, <2>4, <2>5 DEF Authenticator
  <2>7. KeepsKeys
    BY <2>2, <2>3, <2>6 DEF KeepsKeys
  <2>8. /\ \A k \in told' : keys'[k].state = "deleted"
        /\ \A k \in PasskeyIds : device'[k].user = None => keys'[k].state = "absent"
        /\ \A k \in PasskeyIds : keys'[k].state = "live" => keys'[k].user = device'[k].user
    BY <2>2, <2>3, <2>4, <2>6 DEF PasskeyInvariant, KeysInv
  <2>9. p.pc \notin MakingPcs
    BY <2>1 DEF MakingPcs
  <2>10. \A d \in Ceremonies \ {c} : tab[d].pc \in MakingPcs => keys'[tab[d].key].state = "absent"
    <3> SUFFICES ASSUME NEW d \in Ceremonies \ {c}, tab[d].pc \in MakingPcs
                 PROVE  keys'[tab[d].key].state = "absent"
      OBVIOUS
    <3>1. tab[d].key # q.key
      BY <1>1 DEF PasskeyInvariant, KeysInv, MakingPcs
    <3>2. tab[d].key \in PasskeyIds /\ keys[tab[d].key].state = "absent"
      BY DEF PasskeyInvariant, Holds
    <3> QED
      BY <2>6, <3>1, <3>2
  <2>11. device' \in [PasskeyIds -> Device] /\ told' \subseteq PasskeyIds
    BY <2>3, <2>4
  <2> QED
    BY <2>1, <2>3, <2>6, <2>7, <2>8, <2>9, <2>10, <2>11, TabMoves
<1> QED
  BY <1>1, <1>3, <1>4 DEF Insert

LEMMA DeleteKeyStep ==
    ASSUME PasskeyInvariant, NEW c \in Ceremonies, DeleteKey(c)
    PROVE  PasskeyInvariant'
<1>1. tab[c].pc = "delete" /\ Answer(c, "ok", None) /\ told' = told \cup Owned(c)
  BY DEF DeleteKey, In
<1>2. "ok" \in TabReplies
  BY DEF TabReplies
<1>3. PICK p \in Tab : /\ tab' = [tab EXCEPT ![c] = p]
                       /\ p.pc = "respond" /\ p.set = None
                       /\ \A K, D : Holds(p, K, D)
  BY <1>1, <1>2, AnswerHolds
<1>4. /\ UNCHANGED <<users, device>> /\ ChallengesTyped' /\ Invariant'
  BY StepPreserves, ChallengesSame DEF DeleteKey, vars, PasskeyInvariant, Preserved
<1>5. /\ keys \in [PasskeyIds -> Authenticator] /\ device \in [PasskeyIds -> Device]
      /\ told \subseteq PasskeyIds
  BY DEF PasskeyInvariant, PasskeyTypeOK
<1>6. Owned(c) \subseteq PasskeyIds /\ \A k \in Owned(c) : keys[k].state = "live"
  BY DEF Owned, Registered
<1>7. \A k \in PasskeyIds :
        /\ k \in Owned(c) => keys'[k] = [keys[k] EXCEPT !.state = "deleted"]
        /\ k \notin Owned(c) => keys'[k] = keys[k]
  BY DEF DeleteKey
<1>8. \A k \in PasskeyIds :
        /\ keys'[k] \in Authenticator
        /\ k \in Owned(c) => keys'[k].state = "deleted"
        /\ k \notin Owned(c) => keys'[k] = keys[k]
  BY <1>5, <1>7 DEF Authenticator
<1>9. keys' \in [PasskeyIds -> Authenticator]
  BY <1>8 DEF DeleteKey
<1>10. KeepsKeys
  BY <1>4, <1>6, <1>8 DEF KeepsKeys
<1>11. /\ \A k \in told' : keys'[k].state = "deleted"
       /\ \A k \in PasskeyIds : device'[k].user = None => keys'[k].state = "absent"
       /\ \A k \in PasskeyIds : keys'[k].state = "live" => keys'[k].user = device'[k].user
  BY <1>1, <1>4, <1>5, <1>6, <1>8 DEF PasskeyInvariant, KeysInv
<1>12. p.pc \notin MakingPcs
  BY <1>3 DEF MakingPcs
<1>13. \A d \in Ceremonies \ {c} : tab[d].pc \in MakingPcs => keys'[tab[d].key].state = "absent"
  BY <1>6, <1>8 DEF PasskeyInvariant, Holds
<1>14. device' \in [PasskeyIds -> Device] /\ told' \subseteq PasskeyIds
  BY <1>1, <1>4, <1>5, <1>6
<1> QED
  BY <1>3, <1>4, <1>9, <1>10, <1>11, <1>12, <1>13, <1>14, TabMoves

LEMMA RenameKeyStep ==
    ASSUME PasskeyInvariant, NEW c \in Ceremonies, RenameKey(c)
    PROVE  PasskeyInvariant'
<1>1. /\ tab[c].pc # "idle" /\ Answer(c, "ok", None) /\ UNCHANGED <<vars, keyVars, challengeVars>>
      /\ "ok" \in TabReplies
  BY DEF RenameKey, In, TabReplies
<1> QED
  BY <1>1, AnswerStep

LEMMA KeyDbErrorStep ==
    ASSUME PasskeyInvariant, NEW c \in Ceremonies, KeyDbError(c)
    PROVE  PasskeyInvariant'
<1>1. PICK reply \in TabReplies : tab[c].pc # "idle" /\ Answer(c, reply, None)
  BY DEF KeyDbError, KeyErrorReply, TabReplies
<1>2. UNCHANGED <<vars, keyVars, challengeVars>>
  BY DEF KeyDbError
<1> QED
  BY <1>1, <1>2, AnswerStep
-----------------------------------------------------------------------------
(***************************************************************************)
(* Responses, time, the other handlers and restarts.                       *)
(***************************************************************************)

LEMMA QuietHolds ==
    ASSUME NEW K, NEW D
    PROVE  Holds(Quiet, K, D) /\ Quiet.pc \notin MakingPcs
BY QuietTyped DEF Holds, LoginPcs, MakingPcs

LEMMA GiveUpStep ==
    ASSUME PasskeyInvariant, NEW c \in Ceremonies, GiveUp(c)
    PROVE  PasskeyInvariant'
<1>1. tab' = [tab EXCEPT ![c] = Quiet] /\ UNCHANGED <<vars, keyVars>> /\ ChallengesTyped'
  BY ChallengesSame DEF GiveUp
<1> QED
  BY <1>1, QuietTyped, QuietHolds, LocalMoves

\* The session of the browser becomes what the answer carries.
LEMMA ArriveStep ==
    ASSUME PasskeyInvariant, NEW c \in Ceremonies, Arrive(c)
    PROVE  PasskeyInvariant'
<1>1. PICK q \in Tab : tab[c] = q /\ q.browser \in Browsers
  BY DEF PasskeyInvariant, PasskeyTypeOK, Arrive, In, Holds
<1>2. q.set \notin {None, Delete} => TokenInv(q.set, users)
  BY <1>1 DEF PasskeyInvariant
<1>3. After(session[q.browser], q.set) \in Token \cup {None}
  BY <1>1 DEF After, PasskeyInvariant, Invariant, TypeOK, Tab
<1>4. After(session[q.browser], q.set) # None => TokenInv(After(session[q.browser], q.set), users)
  BY <1>1, <1>2 DEF After, PasskeyInvariant, Invariant
<1>5. /\ UNCHANGED <<users, req, pending, issued, mailed, spent, keys, device, told, given>>
      /\ session' = [session EXCEPT ![q.browser] = After(session[q.browser], q.set)]
      /\ tab' = [tab EXCEPT ![c] = Quiet]
  BY <1>1 DEF Arrive, linkVars, keyVars
<1>6. Invariant'
  <2>1. TypeOK'
    BY <1>3, <1>5 DEF PasskeyInvariant, Invariant, TypeOK
  <2>2. \A b \in Browsers : session'[b] # None => TokenInv(session'[b], users')
    BY <1>4, <1>5 DEF PasskeyInvariant, Invariant, TypeOK
  <2> QED
    BY <1>5, <2>1, <2>2 DEF PasskeyInvariant, Invariant
<1>7. KeepsKeys
  BY <1>5 DEF KeepsKeys
<1>8. ChallengesTyped'
  BY <1>1 DEF Arrive, ChallengesTyped, PasskeyInvariant, PasskeyTypeOK
<1>9. /\ keys' \in [PasskeyIds -> Authenticator] /\ device' \in [PasskeyIds -> Device]
      /\ told' \subseteq PasskeyIds
  BY <1>5 DEF PasskeyInvariant, PasskeyTypeOK
<1>10. /\ \A k \in told' : keys'[k].state = "deleted"
       /\ \A k \in PasskeyIds : device'[k].user = None => keys'[k].state = "absent"
       /\ \A k \in PasskeyIds : keys'[k].state = "live" => keys'[k].user = device'[k].user
  BY <1>5 DEF PasskeyInvariant, KeysInv
<1>11. \A d \in Ceremonies \ {c} : tab[d].pc \in MakingPcs => keys'[tab[d].key].state = "absent"
  BY <1>5 DEF PasskeyInvariant, Holds
<1> QED
  BY <1>5, <1>6, <1>7, <1>8, <1>9, <1>10, <1>11, QuietTyped, QuietHolds, TabMoves

LEMMA CeremonyStep ==
    ASSUME PasskeyInvariant, NEW c \in Ceremonies, Ceremony(c)
    PROVE  PasskeyInvariant'
BY OptionsArriveStep, SignStep, FindStep, ListKeysStep, StoreCounterStep, IssueStep,
   KeyRejectStep, AdmitStep, StartListStep, CreateStep, FinishAdmitStep, InsertStep,
   DeleteKeyStep, RenameKeyStep, ArriveStep, GiveUpStep, KeyDbErrorStep DEF Ceremony

\* No ceremony moves: the table evolves, and rows of authenticators only disappear.
LEMMA OthersMove ==
    ASSUME PasskeyInvariant, Preserved, UNCHANGED <<device, told, tab>>, ChallengesTyped',
           keys' \in [PasskeyIds -> Authenticator],
           \A k \in PasskeyIds : \/ keys'[k] = keys[k]
                                 \/ keys[k].state = "live" /\ keys'[k].state = "deleted"
    PROVE  PasskeyInvariant'
<1>1. KeepsKeys
  BY DEF KeepsKeys
<1>2. /\ tab \in [Ceremonies -> Tab] /\ device \in [PasskeyIds -> Device] /\ told \subseteq PasskeyIds
      /\ users \in Table /\ users' \in Table /\ Evolves(users, users') /\ Invariant'
  BY DEF PasskeyInvariant, PasskeyTypeOK, Preserved, Invariant, TypeOK, Table
<1>3. PasskeyTypeOK'
  BY <1>2 DEF PasskeyTypeOK, ChallengesTyped
<1>4. \A d \in Ceremonies : tab[d].pc \in MakingPcs => keys'[tab[d].key].state = "absent"
  BY DEF PasskeyInvariant, Holds
<1>5. \A d \in Ceremonies : Holds(tab'[d], keys', device')
  BY <1>1, <1>4, HoldKept
<1>6. KeysInv'
  <2>1. \A k \in PasskeyIds : keys'[k].state = "live" => keys'[k] = keys[k]
    OBVIOUS
  <2> QED
    BY <1>2, <2>1 DEF PasskeyInvariant, KeysInv
<1>7. ASSUME NEW d \in Ceremonies, tab'[d].set \notin {None, Delete}
      PROVE  TokenInv(tab'[d].set, users')
  <2>1. PICK t \in Token : t = tab[d].set
    BY <1>2, <1>7 DEF Tab
  <2>2. TokenInv(t, users)
    BY <1>7, <2>1 DEF PasskeyInvariant
  <2> QED
    BY <1>2, <2>1, <2>2, TokenKept
<1> QED
  BY <1>2, <1>3, <1>5, <1>6, <1>7 DEF PasskeyInvariant

LEMMA OthersStep ==
    ASSUME PasskeyInvariant, Others
    PROVE  PasskeyInvariant'
<1>1. Preserved
  BY ServingStep DEF Others, PasskeyInvariant
<1>2. UNCHANGED <<device, told, tab>> /\ ChallengesTyped'
  BY ChallengesSame DEF Others
<1>3. keys \in [PasskeyIds -> Authenticator]
  BY DEF PasskeyInvariant, PasskeyTypeOK
<1>4. \A k \in PasskeyIds : [keys[k] EXCEPT !.state = "deleted"] \in Authenticator
  BY <1>3 DEF Authenticator
<1>5. \A k \in PasskeyIds : \/ keys'[k] = keys[k]
                            \/ /\ keys[k].state = "live"
                               /\ keys'[k] = [keys[k] EXCEPT !.state = "deleted"]
  BY DEF Others, KeysFollow, Registered
<1>6. keys' \in [PasskeyIds -> Authenticator]
  BY <1>3, <1>4 DEF Others, KeysFollow
<1>7. \A k \in PasskeyIds : \/ keys'[k] = keys[k]
                            \/ keys[k].state = "live" /\ keys'[k].state = "deleted"
  BY <1>3, <1>5 DEF Authenticator
<1> QED
  BY <1>1, <1>2, <1>6, <1>7, OthersMove

LEMMA SameKeys ==
    ASSUME PasskeyInvariant, UNCHANGED keys
    PROVE  /\ keys' \in [PasskeyIds -> Authenticator]
           /\ \A k \in PasskeyIds : keys'[k] = keys[k]
BY DEF PasskeyInvariant, PasskeyTypeOK

LEMMA ChallengeExpiresStep ==
    ASSUME PasskeyInvariant, NEW b \in Browsers, ChallengeExpires(b)
    PROVE  PasskeyInvariant'
<1>1. UNCHANGED <<vars, keys, device, told, tab>>
  BY DEF ChallengeExpires, keyVars
<1>2. Preserved
  BY <1>1, StepPreserves DEF PasskeyInvariant
<1>3. ChallengesTyped'
  BY DEF ChallengeExpires, ChallengesTyped, PasskeyInvariant, PasskeyTypeOK
<1> QED
  BY <1>1, <1>2, <1>3, SameKeys, OthersMove

\* For the other handlers a restart is a crash, or nothing if they were idle.
LEMMA RestartServes ==
    ASSUME PasskeyInvariant, Restart
    PROVE  Preserved
<1>1. UNCHANGED <<users, browserVars, linkVars>> /\ req' = [r \in Slots |-> Idle]
  BY DEF Restart
<1>2. CASE \E r \in Slots : req[r] # Idle
  BY <1>1, <1>2, CrashStep DEF Crash, PasskeyInvariant
<1>3. CASE \A r \in Slots : req[r] = Idle
  <2>1. req' = req
    BY <1>1, <1>3 DEF PasskeyInvariant, Invariant, TypeOK
  <2> QED
    BY <1>1, <2>1, StepPreserves DEF vars, browserVars, linkVars, PasskeyInvariant
<1> QED
  BY <1>2, <1>3

LEMMA RestartStep ==
    ASSUME PasskeyInvariant, Restart
    PROVE  PasskeyInvariant'
<1>1. /\ UNCHANGED <<users, keys, device, told>> /\ ChallengesTyped'
      /\ tab' = [c \in Ceremonies |-> IF tab[c].pc \in AtClient THEN tab[c] ELSE Quiet]
  BY ChallengesSame DEF Restart, keyVars
<1>2. Invariant'
  BY RestartServes DEF Preserved
<1>3. PasskeyTypeOK'
  BY <1>1, QuietTyped DEF PasskeyInvariant, PasskeyTypeOK, ChallengesTyped
<1>4. \A c \in Ceremonies : tab'[c] = tab[c] \/ tab'[c] = Quiet
  BY <1>1
<1>5. \A c \in Ceremonies : Holds(tab'[c], keys', device')
  BY <1>1, <1>4, QuietHolds DEF PasskeyInvariant
<1>6. KeysInv'
  BY <1>1, <1>4, QuietHolds DEF PasskeyInvariant, KeysInv
<1>7. \A c \in Ceremonies : tab'[c].set \notin {None, Delete} => TokenInv(tab'[c].set, users')
  BY <1>1, <1>4, QuietTyped DEF PasskeyInvariant
<1> QED
  BY <1>2, <1>3, <1>5, <1>6, <1>7 DEF PasskeyInvariant
-----------------------------------------------------------------------------
(***************************************************************************)
(* The theorems.                                                           *)
(***************************************************************************)

LEMMA PasskeyInitInvariant == PasskeyInit => PasskeyInvariant
<1> SUFFICES ASSUME PasskeyInit PROVE PasskeyInvariant
  OBVIOUS
<1>1. Invariant
  BY InitInvariant DEF PasskeyInit
<1>2. /\ None \notin UserIds
      /\ DOMAIN InitialKeys \subseteq PasskeyIds
      /\ \A k \in DOMAIN InitialKeys : InitialKeys[k] \in UserIds
  BY NoneAssumption, InitialAssumption, PasskeyAssumption
<1>3. \A k \in PasskeyIds :
        /\ keys[k] \in Authenticator /\ device[k] \in Device
        /\ keys[k].user = device[k].user
        /\ keys[k].state \in {"live", "absent"}
        /\ keys[k].state = "live" => device[k].user \in UserIds
  BY <1>2 DEF PasskeyInit, Authenticator, Device
<1>4. \A c \in Ceremonies : tab[c] = Quiet
  BY DEF PasskeyInit
<1>5. PasskeyTypeOK
  BY <1>3, <1>4, QuietTyped DEF PasskeyInit, PasskeyTypeOK
<1>6. KeysInv
  BY <1>2, <1>3, <1>4, QuietHolds DEF PasskeyInit, KeysInv
<1> QED
  BY <1>1, <1>4, <1>5, <1>6, QuietTyped, QuietHolds DEF PasskeyInvariant

LEMMA PasskeyStep ==
    ASSUME PasskeyInvariant, [PasskeyNext]_allVars
    PROVE  PasskeyInvariant'
<1>1. CASE UNCHANGED allVars
  <2>1. UNCHANGED <<vars, keys, device, told, tab, challengeVars>>
    BY <1>1 DEF allVars, keyVars
  <2>2. Preserved
    BY <2>1, StepPreserves DEF PasskeyInvariant
  <2> QED
    BY <2>1, <2>2, SameKeys, ChallengesSame, OthersMove
<1>2. CASE PasskeyNext
  BY <1>2, LoginStartStep, AskSteps, CeremonyStep, ChallengeExpiresStep, OthersStep, RestartStep
  DEF PasskeyNext
<1> QED
  BY <1>1, <1>2

LEMMA PasskeyInvariantHolds == PasskeySpec => []PasskeyInvariant
<1>1. PasskeyInvariant /\ [PasskeyNext]_allVars => PasskeyInvariant'
  BY PasskeyStep
<1> QED
  BY <1>1, PasskeyInitInvariant, PTL DEF PasskeySpec

\* Rows, authenticators, challenges and ceremonies have their types.
THEOREM PasskeyTypesCorrect == PasskeySpec => []PasskeyTypeOK
<1>1. PasskeyInvariant => PasskeyTypeOK
  BY DEF PasskeyInvariant
<1> QED
  BY <1>1, PasskeyInvariantHolds, PTL

\* After DeletePasskey has answered, PasskeyLoginFinish gives no session to an
\* assertion of that passkey, for userHandler finds no row of it any more.
THEOREM DeletedPasskeysRefused == PasskeySpec => []DeletedPasskeyRefused
<1>1. PasskeyInvariant => DeletedPasskeyRefused
  BY NoneAssumption DEF PasskeyInvariant, Holds, DeletedPasskeyRefused
<1> QED
  BY <1>1, PasskeyInvariantHolds, PTL

\* PasskeyRegistrationFinish stores a passkey for the user its authenticator names,
\* in whatever order two registrations, logins and the cookies of a browser come.
THEOREM PasskeysBelongToTheirHolders == PasskeySpec => []RegisteredForItsHolder
<1>1. PasskeyInvariant => RegisteredForItsHolder
  BY DEF PasskeyInvariant, KeysInv, RegisteredForItsHolder, Registered
<1> QED
  BY <1>1, PasskeyInvariantHolds, PTL

\* What AuthProofs shows of sessions had by a password alone, and of administrators,
\* stays true beside the handlers of passkeys.
THEOREM SessionsAmongPasskeys == PasskeySpec => [](SessionProvesPassword /\ AdminRemains)
<1>1. ASSUME Invariant, NEW t \in SessionTokens, SessionCurrent(t), t.via # "code"
      PROVE  users[t.user].password = t.proof
  BY <1>1, SessionTokensInv DEF TokenInv, StillHas, SessionCurrent, Live
<1>2. PasskeyInvariant => SessionProvesPassword /\ AdminRemains
  BY <1>1 DEF PasskeyInvariant, Invariant, SessionProvesPassword, AdminInv, Admins, AdminRemains,
    Live
<1> QED
  BY <1>2, PasskeyInvariantHolds, PTL

\* Only the other handlers write the users.
LEMMA CeremoniesLeaveUsers ==
    ASSUME NEW c \in Ceremonies, Ceremony(c)
    PROVE  users' = users
BY DEF Ceremony, LoginOptionsArrive, Sign, FindKey, FindOwner, ListKeys, StoreCounter, Issue,
   KeyReject, StartAdmit, StartList, RegisterOptionsArrive, Create, FinishAdmit, Insert,
   DeleteAdmit, DeleteKey, RenameAdmit, RenameKey, Arrive, GiveUp, KeyDbError, vars

LEMMA OthersWrite ==
    ASSUME [PasskeyNext]_allVars, users' # users
    PROVE  Others
BY CeremoniesLeaveUsers
   DEF PasskeyNext, LoginStart, RegisterStart, DeleteSubmit, RenameSubmit, Ask,
       ChallengeExpires, Restart, allVars, vars

\* ChangePassword and ResetPasswordSubmit sign out the sessions that a passkey has
\* earned, and the ones that PasskeyLoginFinish has not answered with yet.
THEOREM PasswordChangesSignOutPasskeys == PasskeySpec => PasswordChangeSignsOutPasskeys
<1>1. ASSUME PasskeyInvariant, [PasskeyNext]_allVars, NEW u \in Live,
             users'[u].password # users[u].password, NEW t \in AllSessionTokens', t.user = u
      PROVE  ~(SessionCurrent(t)')
  <2>1. u \in UserIds /\ users[u].state = "live" /\ Others
    BY <1>1, OthersWrite DEF Live
  <2>2. Preserved
    BY <1>1, <2>1, ServingStep DEF Others, PasskeyInvariant
  <2>3. t \in SessionTokens \/ \E c \in Ceremonies : t = tab[c].set /\ t \notin {None, Delete}
    BY <1>1, <2>1, <2>2 DEF AllSessionTokens, Preserved, KeepsPasswords, Others
  <2>4. t \in Token /\ TokenInv(t, users)
    <3>1. CASE t \in SessionTokens
      BY <1>1, <3>1, SessionTokensInv DEF PasskeyInvariant
    <3>2. CASE \E c \in Ceremonies : t = tab[c].set /\ t \notin {None, Delete}
      BY <1>1, <3>2 DEF PasskeyInvariant, PasskeyTypeOK, Tab
    <3> QED
      BY <2>3, <3>1, <3>2
  <2>5. t.version \in Nat /\ users[u].version \in Nat /\ users'[u].version \in Nat
    BY <1>1, <2>1, <2>2, <2>4 DEF Preserved, PasskeyInvariant, Invariant, TypeOK, Row, Token
  <2> QED
    BY <1>1, <2>1, <2>2, <2>4, <2>5
    DEF Preserved, Evolves, TokenInv, Remembers, SessionCurrent, Live
<1>2. PasskeyInvariant /\ [PasskeyNext]_allVars =>
        [\A u \in Live : users'[u].password # users[u].password =>
           \A t \in AllSessionTokens' : t.user = u => ~SessionCurrent(t)']_allVars
  BY <1>1
<1> QED
  BY <1>2, PasskeyInvariantHolds, PTL DEF PasskeySpec, PasswordChangeSignsOutPasskeys

\* At "count" a ceremony goes on by nothing but StoreCounter.
LEMMA CountMoves ==
    ASSUME PasskeyInvariant, [PasskeyNext]_allVars, NEW c \in Ceremonies, tab[c].pc = "count",
           tab'[c].pc = "issue", keys' # keys
    PROVE  StoreCounter(c)
<1>1. tab \in [Ceremonies -> Tab]
  BY DEF PasskeyInvariant, PasskeyTypeOK
<1>2. ~(UNCHANGED tab)
  OBVIOUS
<1>3. ASSUME NEW d \in Ceremonies, Ceremony(d)
      PROVE  d = c
  BY <1>1, <1>3 DEF Ceremony, LoginOptionsArrive, Sign, FindKey, FindOwner, ListKeys,
     StoreCounter, Issue, KeyReject, StartAdmit, StartList, RegisterOptionsArrive, Create,
     FinishAdmit, Insert, DeleteAdmit, DeleteKey, RenameAdmit, RenameKey, Arrive, GiveUp,
     KeyDbError, Proceed, Answer
<1>4. ASSUME Ceremony(c)
      PROVE  StoreCounter(c)
  BY <1>4 DEF Ceremony, LoginOptionsArrive, Sign, FindKey, FindOwner, ListKeys,
     Issue, KeyReject, StartAdmit, StartList, RegisterOptionsArrive, Create,
     FinishAdmit, Insert, DeleteAdmit, DeleteKey, RenameAdmit, RenameKey, Arrive, GiveUp,
     KeyDbError, Admitted, In, KeyErrorReply
<1>5. ~(\E d \in Ceremonies, b \in Browsers :
          LoginStart(d, b) \/ RegisterStart(d, b) \/ DeleteSubmit(d, b) \/ RenameSubmit(d, b))
  BY DEF LoginStart, RegisterStart, DeleteSubmit, RenameSubmit, Ask, keyVars
<1>6. ~(\E b \in Browsers : ChallengeExpires(b)) /\ ~Others /\ ~Restart /\ ~(UNCHANGED allVars)
  BY <1>2 DEF ChallengeExpires, Others, Restart, keyVars, allVars
<1> QED
  BY <1>3, <1>4, <1>5, <1>6 DEF PasskeyNext

\* UpdateAuthenticatorCounter writes a count no less than the one its login compared
\* with: where it sets the counter back, another login has written since.
THEOREM CountersSetBackOnlyByOverlap == PasskeySpec => CounterSetBackOnlyByOverlap
<1>1. ASSUME PasskeyInvariant, [PasskeyNext]_allVars, NEW c \in Ceremonies, In(c, "count"),
             tab'[c].pc = "issue", keys'[tab[c].key].counter < keys[tab[c].key].counter
      PROVE  tab[c].read # keys[tab[c].key].counter
  <2>1. PICK q \in Tab : q = tab[c] /\ Holds(q, keys, device) /\ q.pc = "count"
    BY <1>1 DEF PasskeyInvariant, PasskeyTypeOK, In
  <2>2. q.read <= q.count /\ q.key \in PasskeyIds /\ q.read \in Nat /\ q.count \in Nat
    BY <2>1 DEF Holds, LoginPcs, Tab
  <2>3. /\ keys \in [PasskeyIds -> Authenticator] /\ keys[q.key].counter \in Nat
    BY <1>1, <2>2 DEF PasskeyInvariant, PasskeyTypeOK, Authenticator
  <2>4. keys' # keys
    BY <1>1, <2>1, <2>3
  <2>5. StoreCounter(c)
    BY <1>1, <2>1, <2>4, CountMoves
  <2>6. keys' = [keys EXCEPT ![q.key].counter = q.count]
    BY <2>1, <2>4, <2>5 DEF StoreCounter
  <2>7. keys'[q.key].counter = q.count
    BY <2>2, <2>3, <2>6 DEF Authenticator
  <2> QED
    BY <1>1, <2>1, <2>2, <2>3, <2>7
<1>2. PasskeyInvariant /\ [PasskeyNext]_allVars =>
        [\A c \in Ceremonies :
           In(c, "count") /\ tab'[c].pc = "issue"
             /\ keys'[tab[c].key].counter < keys[tab[c].key].counter
               => tab[c].read # keys[tab[c].key].counter]_allVars
  BY <1>1
<1> QED
  BY <1>2, PasskeyInvariantHolds, PTL DEF PasskeySpec, CounterSetBackOnlyByOverlap
=============================================================================
