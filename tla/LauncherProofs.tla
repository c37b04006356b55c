--------------------------- MODULE LauncherProofs ---------------------------
(***************************************************************************)
(* Proofs about Launcher: what the kiosk shows when nobody is signed in,   *)
(* and that the connecting screen belongs to a session.                    *)
(***************************************************************************)
EXTENDS Launcher, TLAPS, FiniteSetTheorems, WellFoundedInduction

-----------------------------------------------------------------------------
(* Bags. *)

LEMMA BagOfSet ==
    ASSUME NEW S
    PROVE  IsABag(SetToBag(S)) /\ BagToSet(SetToBag(S)) = S
  BY DEF IsABag, SetToBag, BagToSet

LEMMA BagAdd ==
    ASSUME NEW A, NEW B, IsABag(A), IsABag(B)
    PROVE  IsABag(A (+) B) /\ BagToSet(A (+) B) = BagToSet(A) \cup BagToSet(B)
  BY DEF IsABag, BagToSet, (+)

LEMMA BagTake ==
    ASSUME NEW A, NEW B, IsABag(A), IsABag(B)
    PROVE  IsABag(A (-) B) /\ BagToSet(A (-) B) \subseteq BagToSet(A)
  BY DEF IsABag, BagToSet, (-)

LEMMA EmptyIsBag == IsABag(EmptyBag) /\ BagToSet(EmptyBag) = {}
  BY BagOfSet DEF EmptyBag

-----------------------------------------------------------------------------
(* Types. *)

Actions == ControllerActions \cup AgentActions

\* The object within a handler.
Working ==
    [token: BOOLEAN, view: {"login", "dashboard", "session", "offline"},
     busy: BOOLEAN, listed: BOOLEAN, expired: BOOLEAN, sessionActive: BOOLEAN,
     cards: Cards, active: Connection \cup {None}, timers: SUBSET {"poll", "idle"},
     stray: BOOLEAN, out: SUBSET Request, cleared: BOOLEAN]

LEMMA InCards ==
    ASSUME NEW f
    PROVE  f \in Cards <=> DOMAIN f \subseteq Connection /\ f \in [DOMAIN f -> Card]
  BY DEF Cards

LEMMA InStatuses ==
    ASSUME NEW f
    PROVE  f \in Statuses <=> DOMAIN f \subseteq Session /\ f \in [DOMAIN f -> Report]
  BY DEF Statuses

LEMMA NoCardsType == <<>> \in Cards /\ DOMAIN <<>> = {}
  <1>1. DOMAIN <<>> = {} /\ <<>> \in [{} -> Card]
    OBVIOUS
  <1>. QED  BY <1>1 DEF Cards

LEMMA UIWorks == UI \subseteq Working
  BY DEF UI, Working

LEMMA PutWorks ==
    ASSUME NEW u \in Working, NEW c \in Connection, NEW card \in Card
    PROVE  /\ Put(u, c, card) \in Working
           /\ DOMAIN Put(u, c, card).cards = DOMAIN u.cards \cup {c}
           /\ Put(u, c, card) = [u EXCEPT !.cards = Put(u, c, card).cards]
  <1>. DEFINE f == [k \in DOMAIN u.cards \cup {c} |-> IF k = c THEN card ELSE u.cards[k]]
  <1>1. u.cards \in Cards
    BY DEF Working
  <1>2. f \in Cards
    BY <1>1, InCards
  <1>3. Put(u, c, card) = [u EXCEPT !.cards = f]
    BY DEF Put, Working
  <1>. HIDE DEF f
  <1>4. [u EXCEPT !.cards = f] \in Working /\ [u EXCEPT !.cards = f].cards = f
    BY <1>2 DEF Working
  <1>5. DOMAIN f = DOMAIN u.cards \cup {c}
    BY DEF f
  <1>. QED  BY <1>3, <1>4, <1>5

LEMMA DropWorks ==
    ASSUME NEW u \in Working, NEW c
    PROVE  /\ Drop(u, c) \in Working
           /\ DOMAIN Drop(u, c).cards = DOMAIN u.cards \ {c}
           /\ Drop(u, c) = [u EXCEPT !.cards = Drop(u, c).cards]
  <1>. DEFINE f == [k \in DOMAIN u.cards \ {c} |-> u.cards[k]]
  <1>1. u.cards \in Cards
    BY DEF Working
  <1>2. f \in Cards
    BY <1>1, InCards
  <1>3. Drop(u, c) = [u EXCEPT !.cards = f]
    BY DEF Drop, Working
  <1>. HIDE DEF f
  <1>4. [u EXCEPT !.cards = f] \in Working /\ [u EXCEPT !.cards = f].cards = f
    BY <1>2 DEF Working
  <1>5. DOMAIN f = DOMAIN u.cards \ {c}
    BY DEF f
  <1>. QED  BY <1>3, <1>4, <1>5

LEMMA ValueType ==
    ASSUME NEW u \in Working, NEW c PROVE Value(u, c) \in Card
  <1>1. u.cards \in Cards
    BY DEF Working
  <1>. QED  BY <1>1, InCards DEF Value, Card

LEMMA SendWorks ==
    ASSUME NEW u \in Working, NEW a \in Actions, NEW c \in Connection \cup {None},
           NEW s \in Id \cup {None}
    PROVE  /\ Send(u, a, c, s) \in Working
           /\ Send(u, a, c, s) = [u EXCEPT !.out = Send(u, a, c, s).out]
           /\ \A r \in Send(u, a, c, s).out \ u.out : r.action = a /\ r.connection = c
  <1>. DEFINE q == [action |-> a, connection |-> c, session |-> s,
                    token |-> (u.token /\ a \in ControllerActions), late |-> FALSE, deaf |-> FALSE]
  <1>0. (u.token /\ a \in ControllerActions) \in BOOLEAN
    OBVIOUS
  <1>1. q \in Request
    BY <1>0 DEF Request, Actions
  <1>2. Send(u, a, c, s) = [u EXCEPT !.out = u.out \cup {q}]
    BY DEF Send, Working
  <1>3. q.action = a /\ q.connection = c
    OBVIOUS
  <1>. HIDE DEF q
  <1>4. u.out \cup {q} \in SUBSET Request
    BY <1>1 DEF Working
  <1>5. /\ [u EXCEPT !.out = u.out \cup {q}] \in Working
        /\ [u EXCEPT !.out = u.out \cup {q}].out = u.out \cup {q}
    BY <1>4 DEF Working
  <1>. QED  BY <1>2, <1>3, <1>5

-----------------------------------------------------------------------------
(* What every handler keeps. *)

\* Nobody is signed in and no late reply has been applied.
Away(u) == ~u.token /\ ~u.stray

Screen(u) == u.view = "session" => u.active \in DOMAIN u.cards \/ u.expired

\* The kiosk is locked: nothing to see, no polling, and no request but a sign-in
\* or a cancel whose answer nobody reads.
Locked(u) ==
    Away(u) =>
        /\ u.view \in {"login", "offline"}
        /\ NoCards(u) /\ ~u.listed
        /\ "poll" \notin u.timers
        /\ \A r \in u.out : r.action \in {"login", "cancel"}

\* From the object as it was at o only clearLocalSession leads to Away.
After(u, o) == u.cleared \/ ((o.token => u.token) /\ (o.stray => u.stray))

\* A ticket is for a connection, and so is a launch.
ForConnection(R) == \A r \in R : r.action \in {"ticket", "launch"} => r.connection \in Connection

Base(u, o) == u \in Working /\ Locked(u) /\ After(u, o) /\ ForConnection(u.out)

Good(u, o) == Base(u, o) /\ Screen(u)

LEMMA SendBase ==
    ASSUME NEW u, NEW o, Base(u, o), NEW a \in Actions, NEW c \in Connection \cup {None},
           NEW s \in Id \cup {None}, Away(u) => a \in {"login", "cancel"},
           a \in {"ticket", "launch"} => c \in Connection
    PROVE  Base(Send(u, a, c, s), o) /\ (Screen(u) => Screen(Send(u, a, c, s)))
  <1>. DEFINE v == Send(u, a, c, s)
  <1>1. /\ v \in Working /\ v = [u EXCEPT !.out = v.out] /\ u \in Working
        /\ \A r \in v.out \ u.out : r.action = a /\ r.connection = c
    BY SendWorks DEF Base
  <1>. HIDE DEF v
  <1>2. /\ v.token = u.token /\ v.stray = u.stray /\ v.view = u.view /\ v.cards = u.cards
        /\ v.listed = u.listed /\ v.timers = u.timers /\ v.cleared = u.cleared
        /\ v.active = u.active /\ v.expired = u.expired
    BY <1>1 DEF Working
  <1>3. Locked(v)
    BY <1>1, <1>2 DEF Base, Locked, Away, NoCards
  <1>4. After(v, o) /\ ForConnection(v.out) /\ (Screen(u) => Screen(v))
    BY <1>1, <1>2 DEF Base, After, ForConnection, Screen
  <1>. QED  BY <1>1, <1>3, <1>4 DEF Base, v

\* Flags and the screen.
LEMMA BusyBase ==
    ASSUME NEW u, NEW o, Base(u, o), NEW b \in BOOLEAN
    PROVE  /\ Base([u EXCEPT !.busy = b], o) /\ (Screen(u) => Screen([u EXCEPT !.busy = b]))
           /\ [u EXCEPT !.busy = b].token = u.token /\ [u EXCEPT !.busy = b].stray = u.stray
  <1>. DEFINE v == [u EXCEPT !.busy = b]
  <1>1. /\ v \in Working /\ v.token = u.token /\ v.stray = u.stray /\ v.view = u.view
        /\ v.cards = u.cards
        /\ v.listed = u.listed /\ v.timers = u.timers /\ v.cleared = u.cleared
        /\ v.active = u.active /\ v.expired = u.expired /\ v.out = u.out
    BY DEF Base, Working
  <1>. HIDE DEF v
  <1>2. Base(v, o) /\ (Screen(u) => Screen(v))
    BY <1>1 DEF Base, Locked, Away, NoCards, After, ForConnection, Screen
  <1>. QED  BY <1>1, <1>2 DEF v

LEMMA ShowBase ==
    ASSUME NEW u, NEW o, Base(u, o), NEW view \in {"login", "dashboard", "offline"},
           view = "dashboard" => ~Away(u)
    PROVE  /\ Good(Show(u, view), o)
           /\ Show(u, view).token = u.token /\ Show(u, view).stray = u.stray
  <1>. DEFINE v == Show(u, view)
  <1>1. /\ v \in Working /\ v.token = u.token /\ v.stray = u.stray /\ v.view = view
        /\ v.cards = u.cards
        /\ v.listed = u.listed /\ v.timers = u.timers /\ v.cleared = u.cleared
        /\ v.out = u.out
    BY DEF Base, Working, Show
  <1>. HIDE DEF v
  <1>2. Good(v, o)
    BY <1>1 DEF Good, Base, Locked, Away, NoCards, After, ForConnection, Screen
  <1>. QED  BY <1>1, <1>2 DEF v

LEMMA ArmBase ==
    ASSUME NEW u, NEW o, Base(u, o)
    PROVE  /\ Base(ArmIdleLock(u), o)
           /\ Screen(u) => Screen(ArmIdleLock(u))
  <1>1. CASE u.token /\ ~u.sessionActive /\ u.view # "session"
    <2>. DEFINE v == [u EXCEPT !.timers = @ \cup {"idle"}]
    <2>1. /\ v \in Working /\ v.token = u.token /\ v.view = u.view /\ v.cards = u.cards
          /\ v.stray = u.stray /\ v.cleared = u.cleared /\ v.out = u.out
      BY DEF Base, Working
    <2>2. ArmIdleLock(u) = v
      BY <1>1 DEF ArmIdleLock
    <2>. HIDE DEF v
    <2>3. Base(v, o) /\ Screen(v)
      BY <1>1, <2>1 DEF Base, Locked, Away, After, ForConnection, Screen
    <2>. QED  BY <2>2, <2>3
  <1>2. CASE ~(u.token /\ ~u.sessionActive /\ u.view # "session")
    BY <1>2 DEF ArmIdleLock
  <1>. QED  BY <1>1, <1>2

\* clearLocalSession locks the kiosk, whatever was on it.
LEMMA ClearGood ==
    ASSUME NEW u \in Working, NEW o, \A r \in u.out : r.action \in {"login", "cancel"}
    PROVE  Good(ClearLocalSession(u), o) /\ Away(ClearLocalSession(u))
  <1>. DEFINE v == ClearLocalSession(u)
  <1>1. v \in Working
    BY NoCardsType DEF Working, ClearLocalSession
  <1>2. /\ v.token = FALSE /\ v.stray = FALSE /\ v.view = "login" /\ v.cards = <<>>
        /\ v.listed = FALSE /\ v.timers = {} /\ v.cleared = TRUE /\ v.out = u.out
    BY DEF Working, ClearLocalSession
  <1>. HIDE DEF v
  <1>3. Locked(v) /\ After(v, o) /\ ForConnection(v.out) /\ Screen(v) /\ Away(v)
    BY <1>2, NoCardsType DEF Locked, Away, NoCards, After, ForConnection, Screen
  <1>. QED  BY <1>1, <1>3 DEF Good, Base, v

LEMMA FailGood ==
    ASSUME NEW u, NEW o, Base(u, o), NEW offline \in BOOLEAN
    PROVE  Good(Fail(u, offline), o)
  <1>. DEFINE v == [u EXCEPT !.busy = FALSE, !.sessionActive = ~NoCards(u)]
  <1>0. (~NoCards(u)) \in BOOLEAN
    OBVIOUS
  <1>1. /\ v \in Working /\ v.token = u.token /\ v.stray = u.stray /\ v.view = u.view
        /\ v.cards = u.cards
        /\ v.listed = u.listed /\ v.timers = u.timers /\ v.cleared = u.cleared
        /\ v.out = u.out
    BY <1>0 DEF Base, Working
  <1>2. Fail(u, offline) = IF offline THEN Show(v, "offline")
                           ELSE ArmIdleLock(Show(v, IF v.token THEN "dashboard" ELSE "login"))
    BY DEF Fail
  <1>. HIDE DEF v
  <1>3. Base(v, o)
    BY <1>1 DEF Base, Locked, Away, NoCards, After, ForConnection
  <1>4. Good(Show(v, "offline"), o)
    BY <1>3, ShowBase
  <1>5. Good(Show(v, IF v.token THEN "dashboard" ELSE "login"), o)
    <2>1. CASE v.token
      BY <1>3, <2>1, ShowBase DEF Away
    <2>2. CASE ~v.token
      BY <1>3, <2>2, ShowBase
    <2>. QED  BY <2>1, <2>2
  <1>6. Good(ArmIdleLock(Show(v, IF v.token THEN "dashboard" ELSE "login")), o)
    BY <1>5, ArmBase DEF Good
  <1>. QED  BY <1>2, <1>4, <1>6

LEMMA LoadGood ==
    ASSUME NEW u, NEW o, Good(u, o), ~Away(u)
    PROVE  Good(LoadConnections(u), o)
  <1>1. Base([u EXCEPT !.busy = TRUE], o) /\ Screen([u EXCEPT !.busy = TRUE])
        /\ ~Away([u EXCEPT !.busy = TRUE])
    BY BusyBase DEF Good, Away
  <1>2. "connections" \in Actions
    BY DEF Actions, ControllerActions
  <1>. QED  BY <1>1, <1>2, SendBase DEF LoadConnections, Good

\* New cards, while somebody is signed in or a late reply has been applied.
LEMMA CardsBase ==
    ASSUME NEW u, NEW o, Base(u, o), ~Away(u), NEW v, NEW f \in Cards, v = [u EXCEPT !.cards = f]
    PROVE  /\ Base(v, o) /\ ~Away(v)
           /\ v.view = u.view /\ v.active = u.active /\ v.expired = u.expired
           /\ v.cards = f /\ v.out = u.out
  <1>1. /\ v \in Working /\ v.token = u.token /\ v.stray = u.stray /\ v.view = u.view
        /\ v.active = u.active /\ v.expired = u.expired /\ v.cards = f
        /\ v.cleared = u.cleared /\ v.out = u.out
    BY DEF Base, Working
  <1>2. Base(v, o) /\ ~Away(v)
    BY <1>1 DEF Base, Locked, Away, After, ForConnection
  <1>. QED  BY <1>1, <1>2

LEMMA LaunchGood ==
    ASSUME NEW u, NEW o, Good(u, o), ~Away(u), u.view = "dashboard", NEW c \in Connection,
           NEW refused \in BOOLEAN
    PROVE  Good(LaunchOf(u, c, refused), o)
  <1>. DEFINE ended == c \in DOMAIN u.cards /\ u.cards[c].state \in {"error", "stopping"}
              told == IF ended /\ u.cards[c].id # None
                          THEN Send(u, "cancel", None, u.cards[c].id) ELSE u
              v == IF ended THEN Drop(told, c) ELSE told
              w == [v EXCEPT !.active = c, !.expired = FALSE, !.timers = @ \ {"idle"},
                             !.sessionActive = TRUE, !.busy = TRUE, !.view = "session"]
              x == Put(w, c, [id |-> None, state |-> "starting"])
  <1>1. Base(told, o) /\ ~Away(told) /\ told.view = "dashboard"
    <2>1. CASE ended /\ u.cards[c].id # None
      <3>1. u.cards[c].id \in Id \cup {None} /\ "cancel" \in Actions
        BY <2>1, InCards DEF Good, Base, Working, Card, Actions, AgentActions
      <3>2. told = Send(u, "cancel", None, u.cards[c].id)
        BY <2>1
      <3>3. Base(told, o) /\ told = [u EXCEPT !.out = told.out]
        BY <3>1, <3>2, SendBase, SendWorks DEF Good, Base
      <3>. HIDE DEF told
      <3>. QED  BY <3>3 DEF Good, Base, Working, Away
    <2>2. CASE ~(ended /\ u.cards[c].id # None)
      BY <2>2 DEF Good
    <2>. QED  BY <2>1, <2>2
  <1>. HIDE DEF told
  <1>2. Base(v, o) /\ ~Away(v) /\ v.view = "dashboard"
    <2>1. CASE ended
      <3>1. PICK f \in Cards : Drop(told, c) = [told EXCEPT !.cards = f]
        BY <1>1, DropWorks DEF Base, Working
      <3>2. Base(Drop(told, c), o) /\ ~Away(Drop(told, c)) /\ Drop(told, c).view = "dashboard"
        BY <1>1, <3>1, CardsBase
      <3>. QED  BY <2>1, <3>2
    <2>2. CASE ~ended
      BY <1>1, <2>2
    <2>. QED  BY <2>1, <2>2
  <1>3. LaunchOf(u, c, refused) =
           CASE c \in DOMAIN v.cards -> [v EXCEPT !.active = c]
             [] c \notin DOMAIN v.cards /\ refused -> Fail(v, FALSE)
             [] OTHER -> Send(x, "ticket", c, None)
    BY DEF LaunchOf, told
  <1>. HIDE DEF v, ended
  <1>4. Good([v EXCEPT !.active = c], o)
    <2>. DEFINE y == [v EXCEPT !.active = c]
    <2>1. /\ y \in Working /\ y.token = v.token /\ y.stray = v.stray /\ y.view = v.view
          /\ y.cleared = v.cleared /\ y.out = v.out
      BY <1>2 DEF Base, Working
    <2>. HIDE DEF y
    <2>2. Good(y, o)
      BY <1>2, <2>1 DEF Good, Base, Locked, Away, After, ForConnection, Screen
    <2>. QED  BY <2>2 DEF y
  <1>5. Good(Fail(v, FALSE), o)
    BY <1>2, FailGood
  <1>6. Good(Send(x, "ticket", c, None), o)
    <2>1. /\ w \in Working /\ w.token = v.token /\ w.stray = v.stray /\ w.cleared = v.cleared
          /\ w.out = v.out /\ w.active = c
      BY <1>2 DEF Base, Working
    <2>. HIDE DEF w
    <2>2. Base(w, o) /\ ~Away(w)
      BY <1>2, <2>1 DEF Base, Locked, Away, After, ForConnection
    <2>3. [id |-> None, state |-> "starting"] \in Card
      BY DEF Card
    <2>4. PICK f \in Cards : x = [w EXCEPT !.cards = f] /\ c \in DOMAIN f
      <3>1. x \in Working /\ x = [w EXCEPT !.cards = x.cards] /\ c \in DOMAIN x.cards
        BY <2>1, <2>3, PutWorks
      <3>2. x.cards \in Cards
        BY <3>1 DEF Working
      <3>. QED  BY <3>1, <3>2
    <2>. HIDE DEF x
    <2>5. Base(x, o) /\ ~Away(x) /\ x.active = c /\ x.cards = f
      BY <2>1, <2>2, <2>4, CardsBase
    <2>6. Screen(x) /\ "ticket" \in Actions
      BY <2>4, <2>5 DEF Screen, Actions, ControllerActions
    <2>. QED  BY <2>5, <2>6, SendBase DEF Good
  <1>. QED
    <2>1. CASE c \in DOMAIN v.cards
      BY <1>3, <1>4, <2>1
    <2>2. CASE c \notin DOMAIN v.cards /\ refused
      BY <1>3, <1>5, <2>2
    <2>3. CASE c \notin DOMAIN v.cards /\ ~refused
      BY <1>3, <1>6, <2>3
    <2>. QED  BY <2>1, <2>2, <2>3

LEMMA GrantedGood ==
    ASSUME NEW u, NEW o, Good(u, o), NEW r \in Request, r.action \in ControllerActions,
           Away(u) => r.action = "login", ForConnection({r})
    PROVE  Good(Granted(u, r), o)
  <1>1. CASE r.action = "login"
    <2>. DEFINE v == [u EXCEPT !.token = TRUE]
    <2>1. /\ v \in Working /\ v.token = TRUE /\ v.stray = u.stray /\ v.view = u.view
          /\ v.cards = u.cards /\ v.active = u.active /\ v.expired = u.expired
          /\ v.cleared = u.cleared /\ v.out = u.out
      BY DEF Good, Base, Working
    <2>2. Granted(u, r) = LoadConnections(v)
      BY <1>1 DEF Granted
    <2>. HIDE DEF v
    <2>3. Good(v, o) /\ ~Away(v)
      BY <2>1 DEF Good, Base, Locked, Away, After, ForConnection, Screen
    <2>. QED  BY <2>2, <2>3, LoadGood
  <1>2. CASE r.action = "connections"
    <2>. DEFINE v == [u EXCEPT !.listed = TRUE, !.busy = FALSE, !.view = "dashboard"]
    <2>1. /\ v \in Working /\ v.token = u.token /\ v.stray = u.stray /\ v.view = "dashboard"
          /\ v.cleared = u.cleared /\ v.out = u.out
      BY DEF Good, Base, Working
    <2>2. Granted(u, r) = ArmIdleLock(v)
      BY <1>2 DEF Granted
    <2>. HIDE DEF v
    <2>3. Base(v, o) /\ Screen(v)
      BY <1>2, <2>1 DEF Good, Base, Locked, Away, After, ForConnection, Screen
    <2>. QED  BY <2>2, <2>3, ArmBase DEF Good
  <1>3. CASE r.action = "ticket"
    <2>1. Granted(u, r) = Send(u, "launch", r.connection, None)
      BY <1>3 DEF Granted
    <2>2. r.connection \in Connection /\ "launch" \in Actions
      BY <1>3 DEF ForConnection, Actions, AgentActions
    <2>. QED  BY <1>3, <2>1, <2>2, SendBase DEF Good
  <1>. QED  BY <1>1, <1>2, <1>3 DEF ControllerActions

LEMMA DeniedGood ==
    ASSUME NEW u, NEW o, Good(u, o), NEW result \in Results, u.out = {}
    PROVE  Good(Denied(u, result), o)
  <1>1. Good(ClearLocalSession(u), o)
    BY ClearGood DEF Good, Base
  <1>2. Good(Fail(ClearLocalSession(u), FALSE), o)
    BY <1>1, FailGood DEF Good
  <1>3. Good(Fail(u, result = "offline"), o)
    BY FailGood DEF Good
  <1>. QED  BY <1>2, <1>3 DEF Denied

-----------------------------------------------------------------------------
(* pollAgent. *)

LEMMA LeastNat ==
    ASSUME NEW S \in SUBSET Nat, S # {}
    PROVE  \E n \in S : \A m \in S : n <= m
  <1>1. IsWellFoundedOn(OpToRel(<, Nat), Nat)
    BY NatLessThanWellFounded, Zenon
  <1>2. PICK n \in S : \A m \in S : ~(<<m, n>> \in OpToRel(<, Nat))
    BY <1>1, WFMin, Zenon
  <1>3. \A m \in S : ~(m < n)
    BY <1>2, Zenon DEF OpToRel
  <1>. QED  BY <1>3

LEMMA GreatestNat ==
    ASSUME NEW N \in Nat, NEW S \in SUBSET (1..N), S # {}
    PROVE  \E n \in S : \A m \in S : m <= n
  <1>. DEFINE T == {N - s : s \in S}
  <1>1. \A s \in S : N - s \in Nat /\ s \in Nat
    OBVIOUS
  <1>2. T \in SUBSET Nat /\ T # {}
    BY <1>1
  <1>3. PICK t \in T : \A r \in T : t <= r
    BY <1>2, LeastNat
  <1>4. PICK n \in S : t = N - n
    BY <1>3
  <1>5. \A m \in S : N - n <= N - m
    BY <1>3, <1>4
  <1>. QED  BY <1>1, <1>4, <1>5

\* The cards that a status leaves.
LEMMA UpdatedCards ==
    ASSUME NEW u \in Working, NEW status \in Statuses
    PROVE  Updated(u, status) \in Cards
  <1>. DEFINE Newest(k) == CHOOSE s \in Shown(u, status, k) :
                              \A t \in Shown(u, status, k) : t <= s
              Kept == {k \in DOMAIN u.cards : u.cards[k].id = None}
              Listed == UNION {KeyOf(u, status, s) : s \in DOMAIN status}
  <1>1. /\ DOMAIN u.cards \subseteq Connection /\ u.cards \in [DOMAIN u.cards -> Card]
        /\ DOMAIN status \subseteq Session /\ status \in [DOMAIN status -> Report]
    BY InCards, InStatuses DEF Working
  <1>2. \A s \in DOMAIN status : KeyOf(u, status, s) \subseteq Connection
    BY <1>1 DEF KeyOf, Report
  <1>3. Kept \cup Listed \subseteq Connection
    BY <1>1, <1>2
  <1>4. ASSUME NEW k \in Listed PROVE Newest(k) \in DOMAIN status
    <2>1. Shown(u, status, k) # {} /\ Shown(u, status, k) \subseteq DOMAIN status
      BY DEF Shown
    <2>2. Shown(u, status, k) \in SUBSET (1..MaxSessions) /\ MaxSessions \in Nat
      BY <1>1, <2>1, LauncherAssumption DEF Session
    <2>3. \E s \in Shown(u, status, k) : \A t \in Shown(u, status, k) : t <= s
      BY <2>1, <2>2, GreatestNat
    <2>. QED  BY <2>1, <2>3
  <1>. DEFINE f == [k \in Kept \cup Listed |->
                       IF k \in Listed THEN [id |-> Newest(k), state |-> status[Newest(k)].state]
                                       ELSE u.cards[k]]
  <1>5. Updated(u, status) = f
    BY DEF Updated
  <1>. HIDE DEF Newest, Listed
  <1>6. \A s \in Session : s \in Id
    BY LauncherAssumption DEF Session, Id
  <1>7. ASSUME NEW k \in Kept \cup Listed PROVE f[k] \in Card
    <2>1. CASE k \in Listed
      <3>1. Newest(k) \in Id /\ status[Newest(k)].state \in {"starting", "active", "error", "stopping"}
        BY <1>1, <1>4, <1>6, <2>1 DEF Report
      <3>. QED  BY <2>1, <3>1 DEF Card
    <2>2. CASE k \notin Listed
      BY <1>1, <2>2
    <2>. QED  BY <2>1, <2>2
  <1>8. DOMAIN f = Kept \cup Listed /\ f \in [DOMAIN f -> Card]
    BY <1>7
  <1>. QED  BY <1>3, <1>5, <1>8, InCards

LEMMA FailureShown ==
    ASSUME NEW u, NEW o, Good(u, o), ~Away(u), NEW status
    PROVE  /\ Good(ShowFailure(u, status), o) /\ ~Away(ShowFailure(u, status))
           /\ ShowFailure(u, status).out = u.out
           /\ ShowFailure(u, status).active = u.active
  <1>1. CASE \E s \in Shown(u, status, u.active) : status[s].state = "error"
    <2>. DEFINE v == [u EXCEPT !.busy = FALSE, !.view = "dashboard"]
    <2>1. /\ v \in Working /\ v.token = u.token /\ v.stray = u.stray /\ v.view = "dashboard"
          /\ v.cleared = u.cleared /\ v.out = u.out /\ v.active = u.active
      BY DEF Good, Base, Working
    <2>2. ShowFailure(u, status) = v
      BY <1>1 DEF ShowFailure
    <2>. HIDE DEF v
    <2>3. Good(v, o) /\ ~Away(v)
      BY <2>1 DEF Good, Base, Locked, Away, After, ForConnection, Screen
    <2>. QED  BY <2>1, <2>2, <2>3
  <1>2. CASE ~ \E s \in Shown(u, status, u.active) : status[s].state = "error"
    BY <1>2 DEF ShowFailure
  <1>. QED  BY <1>1, <1>2

LEMMA EndedLeft ==
    ASSUME NEW u, NEW o, Base(u, o), ~Away(u), u.view = "session" => u.active # None \/ u.expired
    PROVE  /\ Good(LeaveEnded(u), o) /\ ~Away(LeaveEnded(u))
           /\ LeaveEnded(u).out = u.out
  <1>1. CASE u.active \in DOMAIN u.cards \cup {None}
    BY <1>1 DEF LeaveEnded, Good, Screen
  <1>2. CASE u.active \notin DOMAIN u.cards \cup {None}
    <2>. DEFINE v == [u EXCEPT !.active = None, !.view = IF u.expired THEN @ ELSE "dashboard"]
    <2>1. /\ v \in Working /\ v.token = u.token /\ v.stray = u.stray
          /\ v.view = (IF u.expired THEN u.view ELSE "dashboard")
          /\ v.cleared = u.cleared /\ v.out = u.out /\ v.expired = u.expired
      BY DEF Base, Working
    <2>2. LeaveEnded(u) = v
      BY <1>2 DEF LeaveEnded
    <2>. HIDE DEF v
    <2>3. Good(v, o) /\ ~Away(v)
      BY <2>1 DEF Good, Base, Locked, Away, After, ForConnection, Screen
    <2>. QED  BY <2>1, <2>2, <2>3
  <1>. QED  BY <1>1, <1>2

LEMMA PollGood ==
    ASSUME NEW u, NEW o, Good(u, o), ~Away(u), u.out = {}, NEW status \in Statuses
    PROVE  Good(PollAgent(u, status), o)
  <1>. DEFINE f == Updated(u, status)
              v == [ShowFailure(u, status) EXCEPT !.cards = f]
              w == [LeaveEnded(v) EXCEPT !.sessionActive = ~NoCards(v)]
              idle == [w EXCEPT !.timers = @ \ {"poll"}]
  <1>0. None \notin Connection
    BY LauncherAssumption
  <1>1. f \in Cards
    BY UpdatedCards DEF Good, Base
  <1>2. /\ Good(ShowFailure(u, status), o) /\ ~Away(ShowFailure(u, status))
        /\ ShowFailure(u, status).out = {}
    BY FailureShown
  <1>. HIDE DEF f
  <1>3. /\ Base(v, o) /\ ~Away(v) /\ v.out = {}
        /\ v.view = ShowFailure(u, status).view
        /\ v.active = ShowFailure(u, status).active
        /\ v.expired = ShowFailure(u, status).expired
    BY <1>1, <1>2, CardsBase DEF Good
  <1>4. v.view = "session" => v.active # None \/ v.expired
    <2>1. DOMAIN ShowFailure(u, status).cards \subseteq Connection
      BY <1>2, InCards DEF Good, Base, Working
    <2>. QED  BY <1>0, <1>2, <1>3, <2>1 DEF Good, Screen
  <1>5. PollAgent(u, status) =
           CASE ~NoCards(w) -> w
             [] NoCards(w) /\ w.expired -> ClearLocalSession(idle)
             [] OTHER -> ArmIdleLock(Show(idle, "dashboard"))
    BY DEF PollAgent, f
  <1>. HIDE DEF v
  <1>6. Good(LeaveEnded(v), o) /\ ~Away(LeaveEnded(v)) /\ LeaveEnded(v).out = {}
    BY <1>3, <1>4, EndedLeft
  <1>7. Good(w, o) /\ ~Away(w) /\ w.out = {}
    <2>. DEFINE x == LeaveEnded(v)
    <2>0. (~NoCards(v)) \in BOOLEAN /\ w = [x EXCEPT !.sessionActive = ~NoCards(v)]
      OBVIOUS
    <2>. HIDE DEF x
    <2>1. /\ w \in Working /\ w.token = x.token /\ w.stray = x.stray /\ w.view = x.view
          /\ w.cleared = x.cleared /\ w.out = x.out /\ w.expired = x.expired
          /\ w.cards = x.cards /\ w.active = x.active
      BY <1>6, <2>0 DEF Good, Base, Working, x
    <2>. HIDE DEF w
    <2>. QED  BY <1>6, <2>1 DEF Good, Base, Locked, Away, After, ForConnection, Screen, x
  <1>. HIDE DEF w
  <1>8. Base(idle, o) /\ ~Away(idle) /\ idle.out = {}
    <2>1. /\ idle \in Working /\ idle.token = w.token /\ idle.stray = w.stray
          /\ idle.cleared = w.cleared /\ idle.out = w.out
      BY <1>7 DEF Good, Base, Working
    <2>. HIDE DEF idle
    <2>. QED  BY <1>7, <2>1 DEF Good, Base, Locked, Away, After, ForConnection
  <1>. HIDE DEF idle
  <1>9. Good(ClearLocalSession(idle), o)
    BY <1>8, ClearGood DEF Base
  <1>10. Good(ArmIdleLock(Show(idle, "dashboard")), o)
    <2>1. Good(Show(idle, "dashboard"), o)
      BY <1>8, ShowBase
    <2>. QED  BY <2>1, ArmBase DEF Good
  <1>. QED
    <2>1. CASE ~NoCards(w)
      BY <1>5, <1>7, <2>1
    <2>2. CASE NoCards(w) /\ w.expired
      BY <1>5, <1>9, <2>2
    <2>3. CASE NoCards(w) /\ ~w.expired
      BY <1>5, <1>10, <2>3
    <2>. QED  BY <2>1, <2>2, <2>3

LEMMA LaunchedGood ==
    ASSUME NEW u, NEW o, Good(u, o), ~Away(u), NEW c \in Connection, NEW s \in Id \cup {None}
    PROVE  Good(Launched(u, c, s), o)
  <1>. DEFINE card == [Value(u, c) EXCEPT !.id = s]
              v == Put(u, c, card)
              w == [v EXCEPT !.busy = FALSE, !.timers = @ \cup {"poll"}]
  <1>1. card \in Card
    BY ValueType DEF Good, Base, Card
  <1>2. Launched(u, c, s) = Send(w, "status", None, None)
    BY DEF Launched
  <1>. HIDE DEF card
  <1>3. PICK f \in Cards : v = [u EXCEPT !.cards = f] /\ DOMAIN u.cards \subseteq DOMAIN f
    <2>1. v \in Working /\ v = [u EXCEPT !.cards = v.cards] /\ DOMAIN u.cards \subseteq DOMAIN v.cards
      BY <1>1, PutWorks DEF Good, Base
    <2>2. v.cards \in Cards
      BY <2>1 DEF Working
    <2>. QED  BY <2>1, <2>2
  <1>. HIDE DEF v
  <1>4. Base(v, o) /\ ~Away(v) /\ Screen(v)
    BY <1>3, CardsBase DEF Good, Screen
  <1>5. Base(w, o) /\ ~Away(w) /\ Screen(w)
    <2>1. /\ w \in Working /\ w.token = v.token /\ w.stray = v.stray /\ w.view = v.view
          /\ w.cleared = v.cleared /\ w.out = v.out /\ w.expired = v.expired
          /\ w.cards = v.cards /\ w.active = v.active
      BY <1>4 DEF Base, Working
    <2>. HIDE DEF w
    <2>. QED  BY <1>4, <2>1 DEF Base, Locked, Away, After, ForConnection, Screen
  <1>. HIDE DEF w
  <1>6. "status" \in Actions
    BY DEF Actions, AgentActions
  <1>. QED  BY <1>2, <1>5, <1>6, SendBase DEF Good

LEMMA CompletedGood ==
    ASSUME NEW u, NEW o, Good(u, o), u.out = {}, NEW a \in Answer,
           a.request.action \in AgentActions, ForConnection({a.request}),
           Away(u) => a.request.action = "cancel"
    PROVE  Good(Completed(u, a), o)
  <1>1. CASE a.request.action = "status"
    <2>1. a.status \in Statuses /\ Completed(u, a) = PollAgent(u, a.status)
      BY <1>1 DEF Answer, Completed
    <2>. QED  BY <1>1, <2>1, PollGood
  <1>2. CASE a.request.action = "launch"
    <2>1. a.session \in Id \cup {None} /\ a.request.connection \in Connection
      BY <1>2 DEF Answer, ForConnection
    <2>2. Completed(u, a) = Launched(u, a.request.connection, a.session)
      BY <1>2 DEF Completed
    <2>. QED  BY <1>2, <2>1, <2>2, LaunchedGood
  <1>3. CASE a.request.action = "end"
    <2>1. Completed(u, a) = IF a.ok THEN Show(u, "dashboard") ELSE u
      BY <1>3 DEF Completed
    <2>2. Good(Show(u, "dashboard"), o)
      BY <1>3, ShowBase DEF Good
    <2>. QED  BY <2>1, <2>2
  <1>4. CASE a.request.action = "cancel"
    BY <1>4 DEF Completed
  <1>. QED  BY <1>1, <1>2, <1>3, <1>4 DEF AgentActions

-----------------------------------------------------------------------------
(* The requests and answers under way. *)

RequestsOK(R, away) ==
    /\ R \subseteq Request
    /\ ForConnection(R)
    /\ away => \A r \in R : r.late \/ r.action \in {"login", "cancel"}

AnswersOK(A, away) ==
    /\ A \subseteq Answer
    /\ \A a \in A : /\ a.request.action \in AgentActions
                    /\ ForConnection({a.request})
                    /\ away => a.request.late \/ a.request.action = "cancel"

\* While the kiosk is locked, what is under way was made by the user before, or
\* is a sign-in, or is a cancel.
Inv ==
    /\ TypeOK
    /\ Screen(ui) /\ Locked(ui)
    /\ RequestsOK(BagToSet(wire), Away(ui))
    /\ AnswersOK(BagToSet(answers), Away(ui))

LEMMA LateRequest ==
    ASSUME NEW q \in Request
    PROVE  /\ Late(q) \in Request
           /\ Late(q).action = q.action /\ Late(q).connection = q.connection
           /\ Late(q).late = (q.action # "cancel")
           /\ \E b \in BOOLEAN : q = [Late(q) EXCEPT !.late = b]
  <1>1. (q.action # "cancel") \in BOOLEAN
    OBVIOUS
  <1>2. /\ Late(q) \in Request /\ Late(q).action = q.action /\ Late(q).connection = q.connection
        /\ Late(q).late = (q.action # "cancel")
    BY <1>1 DEF Late, Request
  <1>3. q.late \in BOOLEAN /\ q = [Late(q) EXCEPT !.late = q.late]
    BY <1>1 DEF Late, Request
  <1>. QED  BY <1>2, <1>3

LEMMA LateRequests ==
    ASSUME NEW R, RequestsOK(R, FALSE)
    PROVE  RequestsOK({Late(q) : q \in R}, TRUE)
  <1>1. \A q \in R : q \in Request
    BY DEF RequestsOK
  <1>2. \A q \in R : /\ Late(q) \in Request
                     /\ Late(q).late \/ Late(q).action \in {"login", "cancel"}
                     /\ Late(q).action = q.action /\ Late(q).connection = q.connection
    BY <1>1, LateRequest
  <1>. QED  BY <1>2 DEF RequestsOK, ForConnection

LEMMA LateAnswers ==
    ASSUME NEW A, AnswersOK(A, FALSE)
    PROVE  AnswersOK({[a EXCEPT !.request = Late(@)] : a \in A}, TRUE)
  <1>1. ASSUME NEW a \in A
        PROVE  LET b == [a EXCEPT !.request = Late(@)]
               IN  /\ b \in Answer /\ b.request.action \in AgentActions /\ ForConnection({b.request})
                   /\ b.request.late \/ b.request.action = "cancel"
    <2>. DEFINE q == a.request
    <2>1. a \in Answer /\ q \in Request
      BY DEF AnswersOK, Answer
    <2>2. /\ Late(q) \in Request /\ Late(q).action = q.action /\ Late(q).connection = q.connection
          /\ Late(q).late = (q.action # "cancel")
      BY <2>1, LateRequest
    <2>3. [a EXCEPT !.request = Late(@)] \in Answer /\ [a EXCEPT !.request = Late(@)].request = Late(q)
      BY <2>1, <2>2 DEF Answer
    <2>. QED  BY <2>2, <2>3 DEF AnswersOK, ForConnection
  <1>. QED  BY <1>1 DEF AnswersOK

LEMMA AllLateBag ==
    ASSUME NEW B, IsABag(B), BagToSet(B) \subseteq Request
    PROVE  IsABag(AllLate(B)) /\ BagToSet(AllLate(B)) = {Late(q) : q \in BagToSet(B)}
  <1>. DEFINE L == {Late(q) : q \in BagToSet(B)}
              n(r) == Copies([r EXCEPT !.late = TRUE], B) + Copies([r EXCEPT !.late = FALSE], B)
  <1>1. \A e : Copies(e, B) \in Nat /\ (e \in BagToSet(B) => Copies(e, B) > 0)
    BY DEF Copies, IsABag, BagIn, BagToSet
  <1>2. ASSUME NEW r \in L PROVE n(r) \in Nat /\ n(r) > 0
    <2>1. PICK q \in BagToSet(B) : r = Late(q)
      OBVIOUS
    <2>2. q = [r EXCEPT !.late = TRUE] \/ q = [r EXCEPT !.late = FALSE]
      BY <2>1, LateRequest
    <2>. DEFINE x == Copies([r EXCEPT !.late = TRUE], B)
                y == Copies([r EXCEPT !.late = FALSE], B)
    <2>3. x \in Nat /\ y \in Nat /\ (x > 0 \/ y > 0) /\ n(r) = x + y
      BY <1>1, <2>2
    <2>. HIDE DEF x, y, n
    <2>. QED  BY <2>3
  <1>3. AllLate(B) = [r \in L |-> n(r)]
    BY DEF AllLate
  <1>. HIDE DEF n, L
  <1>4. IsABag(AllLate(B)) /\ BagToSet(AllLate(B)) = L
    BY <1>2, <1>3 DEF IsABag, BagToSet
  <1>. QED  BY <1>4 DEF L

LEMMA AllLateAnswersBag ==
    ASSUME NEW B, IsABag(B), BagToSet(B) \subseteq Answer
    PROVE  /\ IsABag(AllLateAnswers(B))
           /\ BagToSet(AllLateAnswers(B)) = {[a EXCEPT !.request = Late(@)] : a \in BagToSet(B)}
  <1>. DEFINE L == {[a EXCEPT !.request = Late(@)] : a \in BagToSet(B)}
              n(a) == Copies([a EXCEPT !.request.late = TRUE], B)
                          + Copies([a EXCEPT !.request.late = FALSE], B)
  <1>1. \A e : Copies(e, B) \in Nat /\ (e \in BagToSet(B) => Copies(e, B) > 0)
    BY DEF Copies, IsABag, BagIn, BagToSet
  <1>2. ASSUME NEW a \in L PROVE n(a) \in Nat /\ n(a) > 0
    <2>1. PICK b \in BagToSet(B) : a = [b EXCEPT !.request = Late(@)]
      OBVIOUS
    <2>2. b \in Answer /\ b.request \in Request
      BY DEF Answer
    <2>3. PICK l \in BOOLEAN : b.request = [Late(b.request) EXCEPT !.late = l]
      BY <2>2, LateRequest
    <2>4. a.request = Late(b.request) /\ b = [a EXCEPT !.request = b.request]
      BY <2>1, <2>2 DEF Answer
    <2>5. b = [a EXCEPT !.request.late = l]
      BY <2>3, <2>4
    <2>6. b = [a EXCEPT !.request.late = TRUE] \/ b = [a EXCEPT !.request.late = FALSE]
      BY <2>5
    <2>. DEFINE x == Copies([a EXCEPT !.request.late = TRUE], B)
                y == Copies([a EXCEPT !.request.late = FALSE], B)
    <2>7. x \in Nat /\ y \in Nat /\ (x > 0 \/ y > 0) /\ n(a) = x + y
      BY <1>1, <2>6
    <2>. HIDE DEF x, y, n
    <2>. QED  BY <2>7
  <1>3. AllLateAnswers(B) = [a \in L |-> n(a)]
    BY DEF AllLateAnswers
  <1>. HIDE DEF n, L
  <1>4. IsABag(AllLateAnswers(B)) /\ BagToSet(AllLateAnswers(B)) = L
    BY <1>2, <1>3 DEF IsABag, BagToSet
  <1>. QED  BY <1>4 DEF L

-----------------------------------------------------------------------------
(* Steps. *)

LEMMA UIType ==
    ASSUME TypeOK
    PROVE  /\ ui \in Working /\ ui.out = {} /\ ui.cleared = FALSE
           /\ ui.token \in BOOLEAN /\ ui.stray \in BOOLEAN
  BY UIWorks DEF TypeOK, UI

LEMMA Start ==
    ASSUME Inv
    PROVE  Good(ui, ui) /\ ui.out = {} /\ ui \in Working
  BY UIType DEF Inv, Good, Base, After, ForConnection

\* A handler that keeps the object good keeps the invariant.
LEMMA ReturnInv ==
    ASSUME Inv, NEW u, Good(u, ui), NEW left, NEW rest, Return(u, left, rest),
           IsABag(left), RequestsOK(BagToSet(left), Away(ui)),
           IsABag(rest), BagToSet(rest) \subseteq BagToSet(answers)
    PROVE  Inv'
  <1>1. /\ ui' = [u EXCEPT !.out = {}, !.cleared = FALSE]
        /\ wire' = (IF u.cleared THEN AllLate(left) ELSE left) (+) SetToBag(u.out)
        /\ answers' = (IF u.cleared THEN AllLateAnswers(rest) ELSE rest)
        /\ agent' = agent
    BY DEF Return
  <1>2. /\ ui' \in UI /\ ui'.token = u.token /\ ui'.stray = u.stray /\ ui'.view = u.view
        /\ ui'.cards = u.cards /\ ui'.listed = u.listed /\ ui'.timers = u.timers
        /\ ui'.active = u.active /\ ui'.expired = u.expired /\ ui'.out = {}
    BY <1>1 DEF Good, Base, Working, UI
  <1>3. Screen(ui') /\ Locked(ui') /\ (Away(ui') <=> Away(u))
    BY <1>2 DEF Good, Base, Screen, Locked, Away, NoCards
  <1>4. AnswersOK(BagToSet(rest), Away(ui)) /\ BagToSet(rest) \subseteq Answer
    BY DEF Inv, AnswersOK
  <1>5. Away(u) /\ ~u.cleared => Away(ui)
    BY DEF Good, Base, After, Away
  <1>6. /\ IsABag(IF u.cleared THEN AllLate(left) ELSE left)
        /\ RequestsOK(BagToSet(IF u.cleared THEN AllLate(left) ELSE left), Away(u))
    <2>1. CASE u.cleared
      <3>1. RequestsOK(BagToSet(left), FALSE) /\ BagToSet(left) \subseteq Request
        BY DEF RequestsOK
      <3>2. RequestsOK(BagToSet(AllLate(left)), TRUE) /\ IsABag(AllLate(left))
        BY <3>1, AllLateBag, LateRequests
      <3>. QED  BY <2>1, <3>2 DEF RequestsOK
    <2>2. CASE ~u.cleared
      BY <1>5, <2>2 DEF RequestsOK
    <2>. QED  BY <2>1, <2>2
  <1>7. RequestsOK(u.out, Away(u))
    BY DEF Good, Base, Working, Locked, RequestsOK
  <1>8. /\ IsABag(wire')
        /\ BagToSet(wire') = BagToSet(IF u.cleared THEN AllLate(left) ELSE left) \cup u.out
    BY <1>1, <1>6, BagAdd, BagOfSet
  <1>9. RequestsOK(BagToSet(wire'), Away(u))
    BY <1>6, <1>7, <1>8 DEF RequestsOK, ForConnection
  <1>10. IsABag(answers') /\ AnswersOK(BagToSet(answers'), Away(u))
    <2>1. CASE u.cleared
      <3>1. AnswersOK(BagToSet(rest), FALSE)
        BY <1>4 DEF AnswersOK
      <3>2. AnswersOK(BagToSet(AllLateAnswers(rest)), TRUE) /\ IsABag(AllLateAnswers(rest))
        BY <1>4, <3>1, AllLateAnswersBag, LateAnswers
      <3>. QED  BY <1>1, <2>1, <3>2 DEF AnswersOK
    <2>2. CASE ~u.cleared
      BY <1>1, <1>4, <1>5, <2>2 DEF AnswersOK
    <2>. QED  BY <2>1, <2>2
  <1>11. TypeOK'
    BY <1>1, <1>2, <1>8, <1>9, <1>10 DEF Inv, TypeOK, RequestsOK, AnswersOK
  <1>. QED  BY <1>3, <1>9, <1>10, <1>11 DEF Inv, RequestsOK, AnswersOK

LEMMA EventInv ==
    ASSUME Inv, NEW u, Good(u, ui), Event(u)
    PROVE  Inv'
  BY ReturnInv DEF Event, Inv, TypeOK

LEMMA UserSteps ==
    ASSUME Inv, \/ Login \/ Refresh \/ Retry \/ Logout \/ Input
                \/ \E c \in Connection, refused \in BOOLEAN : Launch(c, refused)
                \/ EndSession \/ PollTimer \/ SessionExpires
    PROVE  Inv'
  <1>0. Good(ui, ui) /\ Base(ui, ui) /\ Screen(ui) /\ ui.out = {} /\ ui \in Working /\ Locked(ui)
    BY Start DEF Good, Base
  <1>0a. {"login", "cancel", "end", "status"} \subseteq Actions
    BY DEF Actions, ControllerActions, AgentActions
  <1>1. CASE Login
    <2>1. Base([ui EXCEPT !.busy = TRUE], ui) /\ Screen([ui EXCEPT !.busy = TRUE])
      BY <1>0, BusyBase
    <2>2. Good(Send([ui EXCEPT !.busy = TRUE], "login", None, None), ui)
      BY <1>0a, <2>1, SendBase DEF Good
    <2>. QED  BY <1>1, <2>2, EventInv DEF Login
  <1>2. CASE Refresh
    BY <1>0, <1>2, LoadGood, EventInv DEF Refresh, Away
  <1>3. CASE Retry
    <2>1. CASE ui.token
      BY <1>0, <1>3, <2>1, LoadGood, EventInv DEF Retry, Away
    <2>2. CASE ~ui.token
      <3>1. Good(Show(ui, "login"), ui)
        BY <1>0, ShowBase
      <3>. QED  BY <1>3, <2>2, <3>1, EventInv DEF Retry
    <2>. QED  BY <2>1, <2>2
  <1>4. CASE Logout
    <2>. DEFINE asked == IF NoCards(ui) THEN ui ELSE Send(ui, "cancel", None, None)
    <2>1. asked \in Working /\ \A r \in asked.out : r.action \in {"login", "cancel"}
      BY <1>0, <1>0a, SendWorks
    <2>2. Event([ClearLocalSession(asked) EXCEPT !.busy = FALSE])
      BY <1>4 DEF Logout
    <2>. HIDE DEF asked
    <2>3. Good(ClearLocalSession(asked), ui)
      BY <2>1, ClearGood
    <2>4. Good([ClearLocalSession(asked) EXCEPT !.busy = FALSE], ui)
      BY <2>3, BusyBase DEF Good
    <2>. QED  BY <2>2, <2>4, EventInv
  <1>5. CASE Input
    <2>1. Good(ArmIdleLock(ui), ui)
      BY <1>0, ArmBase DEF Good
    <2>. QED  BY <1>5, <2>1, EventInv DEF Input
  <1>6. ASSUME NEW c \in Connection, NEW refused \in BOOLEAN, Launch(c, refused) PROVE Inv'
    <2>1. ui.view = "dashboard" /\ ~Away(ui) /\ Event(LaunchOf(ui, c, refused))
      BY <1>0, <1>6 DEF Launch, Locked
    <2>2. Good(LaunchOf(ui, c, refused), ui)
      BY <1>0, <2>1, LaunchGood
    <2>. QED  BY <2>1, <2>2, EventInv
  <1>7. CASE EndSession
    <2>. DEFINE card == Value(ui, ui.active)
    <2>1. /\ ui.view = "session" \/ card.state \in {"active", "stopping"}
          /\ Event(Send(ui, "end", None, card.id))
      BY <1>7 DEF EndSession
    <2>2. card.id \in Id \cup {None}
      BY <1>0, ValueType DEF Card
    <2>3. ~Away(ui)
      <3>1. SUFFICES ASSUME Away(ui) PROVE FALSE
        OBVIOUS
      <3>2. ui.view # "session" /\ DOMAIN ui.cards = {}
        BY <1>0, <3>1 DEF Locked, NoCards
      <3>3. card.state = "starting"
        BY <3>2 DEF Value
      <3>. QED  BY <2>1, <3>2, <3>3
    <2>. HIDE DEF card
    <2>4. Good(Send(ui, "end", None, card.id), ui)
      BY <1>0, <1>0a, <2>2, <2>3, SendBase DEF Good
    <2>. QED  BY <2>1, <2>4, EventInv
  <1>8. CASE PollTimer
    <2>1. "poll" \in ui.timers /\ Event(Send(ui, "status", None, None))
      BY <1>8 DEF PollTimer
    <2>2. ~Away(ui)
      BY <1>0, <2>1 DEF Locked
    <2>3. Good(Send(ui, "status", None, None), ui)
      BY <1>0, <1>0a, <2>2, SendBase DEF Good
    <2>. QED  BY <2>1, <2>3, EventInv
  <1>9. CASE SessionExpires
    <2>. DEFINE v == [ui EXCEPT !.expired = TRUE]
    <2>1. ui.token /\ Event(v)
      BY <1>9 DEF SessionExpires
    <2>2. /\ v \in Working /\ v.token = ui.token /\ v.stray = ui.stray /\ v.cleared = ui.cleared
          /\ v.out = ui.out /\ v.expired = TRUE
      BY <1>0 DEF Working
    <2>. HIDE DEF v
    <2>3. Good(v, ui)
      BY <1>0, <2>1, <2>2 DEF Good, Base, Locked, Away, After, ForConnection, Screen
    <2>. QED  BY <2>1, <2>3, EventInv
  <1>. QED  BY <1>1, <1>2, <1>3, <1>4, <1>5, <1>6, <1>7, <1>8, <1>9

\* A reply that is late is remembered before its handler runs.
LEMMA StrayGood ==
    ASSUME Inv, NEW late \in BOOLEAN
    PROVE  LET u == [ui EXCEPT !.stray = @ \/ late]
           IN  /\ Good(u, ui) /\ u.out = {} /\ u.token = ui.token
               /\ u.stray = (ui.stray \/ late)
  <1>. DEFINE u == [ui EXCEPT !.stray = @ \/ late]
  <1>0. Good(ui, ui) /\ ui.out = {} /\ ui \in Working /\ (ui.stray \/ late) \in BOOLEAN
    BY Start
  <1>1. /\ u \in Working /\ u.token = ui.token /\ u.view = ui.view /\ u.cards = ui.cards
        /\ u.listed = ui.listed /\ u.timers = ui.timers /\ u.cleared = ui.cleared
        /\ u.active = ui.active /\ u.expired = ui.expired /\ u.out = ui.out
        /\ u.stray = (ui.stray \/ late)
    BY <1>0 DEF Working
  <1>. HIDE DEF u
  <1>2. Good(u, ui)
    BY <1>0, <1>1 DEF Good, Base, Locked, Away, NoCards, After, ForConnection, Screen
  <1>. QED  BY <1>0, <1>1, <1>2 DEF u

LEMMA ControllerStep ==
    ASSUME Inv, NEW r \in BagToSet(wire), NEW result \in Results, ControllerReplies(r, result)
    PROVE  Inv'
  <1>. DEFINE u == [ui EXCEPT !.stray = @ \/ r.late]
  <1>1. /\ r.action \in ControllerActions /\ r \in Request /\ r.late \in BOOLEAN /\ ForConnection({r})
        /\ Away(ui) => r.late \/ r.action \in {"login", "cancel"}
    BY DEF ControllerReplies, Inv, RequestsOK, ForConnection, Request
  <1>2. Return(IF result = "ok" THEN Granted(u, r) ELSE Denied(u, result),
               wire (-) SetToBag({r}), answers)
    BY DEF ControllerReplies
  <1>3. Good(u, ui) /\ u.out = {} /\ u.token = ui.token /\ u.stray = (ui.stray \/ r.late)
    BY <1>1, StrayGood
  <1>. HIDE DEF u
  <1>4. Away(u) => r.action = "login"
    BY <1>1, <1>3 DEF Away, ControllerActions
  <1>5. Good(IF result = "ok" THEN Granted(u, r) ELSE Denied(u, result), ui)
    BY <1>1, <1>3, <1>4, GrantedGood, DeniedGood
  <1>6. /\ IsABag(wire (-) SetToBag({r})) /\ BagToSet(wire (-) SetToBag({r})) \subseteq BagToSet(wire)
        /\ IsABag(answers)
    BY BagTake, BagOfSet DEF Inv, TypeOK
  <1>7. RequestsOK(BagToSet(wire (-) SetToBag({r})), Away(ui))
    BY <1>6 DEF Inv, RequestsOK, ForConnection
  <1>. QED  BY <1>2, <1>5, <1>6, <1>7, ReturnInv

LEMMA AgentStep ==
    ASSUME Inv, NEW a \in BagToSet(answers), AgentReplies(a)
    PROVE  Inv'
  <1>. DEFINE u == [ui EXCEPT !.stray = @ \/ a.request.late]
  <1>1. /\ a \in Answer /\ a.request.action \in AgentActions /\ ForConnection({a.request})
        /\ a.request.late \in BOOLEAN
        /\ Away(ui) => a.request.late \/ a.request.action = "cancel"
    BY DEF Inv, AnswersOK, Answer, Request
  <1>2. Return(Completed(u, a), wire, answers (-) SetToBag({a}))
    BY DEF AgentReplies
  <1>3. Good(u, ui) /\ u.out = {} /\ u.token = ui.token /\ u.stray = (ui.stray \/ a.request.late)
    BY <1>1, StrayGood
  <1>. HIDE DEF u
  <1>4. Away(u) => a.request.action = "cancel"
    BY <1>1, <1>3 DEF Away
  <1>5. Good(Completed(u, a), ui)
    BY <1>1, <1>3, <1>4, CompletedGood
  <1>6. /\ IsABag(answers (-) SetToBag({a})) /\ BagToSet(answers (-) SetToBag({a})) \subseteq BagToSet(answers)
        /\ IsABag(wire) /\ RequestsOK(BagToSet(wire), Away(ui))
    BY BagTake, BagOfSet DEF Inv, TypeOK
  <1>. QED  BY <1>2, <1>5, <1>6, ReturnInv

LEMMA TimeoutStep ==
    ASSUME Inv, \/ \E r \in BagToSet(wire) : RequestTimesOut(r)
                \/ \E a \in BagToSet(answers) : AnswerTimesOut(a)
    PROVE  Inv'
  <1>1. Good(GiveUp, ui)
    BY Start, FailGood DEF GiveUp, Good
  <1>2. ASSUME NEW r \in BagToSet(wire), RequestTimesOut(r) PROVE Inv'
    <2>. DEFINE unread == {q \in {r} : q.action # "status"}
                D == {[q EXCEPT !.deaf = TRUE] : q \in unread}
                left == (wire (-) SetToBag({r})) (+) SetToBag(D)
    <2>1. Return(GiveUp, left, answers)
      BY <1>2, Zenon DEF RequestTimesOut
    <2>2. /\ IsABag(wire (-) SetToBag({r})) /\ BagToSet(wire (-) SetToBag({r})) \subseteq BagToSet(wire)
          /\ IsABag(answers) /\ RequestsOK(BagToSet(wire), Away(ui))
      BY BagTake, BagOfSet DEF Inv, TypeOK
    <2>3. RequestsOK(D, Away(ui))
      <3>. DEFINE q == [r EXCEPT !.deaf = TRUE]
      <3>1. r \in Request
        BY <2>2 DEF RequestsOK
      <3>2. /\ q \in Request /\ q.action = r.action /\ q.late = r.late
            /\ q.connection = r.connection
        BY <3>1 DEF Request
      <3>3. D \subseteq {q}
        OBVIOUS
      <3>. HIDE DEF q, D
      <3>. QED  BY <2>2, <3>2, <3>3 DEF RequestsOK, ForConnection
    <2>. HIDE DEF D
    <2>4. IsABag(left) /\ BagToSet(left) \subseteq BagToSet(wire) \cup D
      <3>. DEFINE kept == wire (-) SetToBag({r})
                  deaf == SetToBag(D)
      <3>1. IsABag(kept) /\ BagToSet(kept) \subseteq BagToSet(wire) /\ left = kept (+) deaf
        BY <2>2
      <3>2. IsABag(deaf) /\ BagToSet(deaf) = D
        BY BagOfSet
      <3>. HIDE DEF kept, deaf, left
      <3>3. IsABag(kept (+) deaf) /\ BagToSet(kept (+) deaf) = BagToSet(kept) \cup BagToSet(deaf)
        BY <3>1, <3>2, BagAdd
      <3>. QED  BY <3>1, <3>2, <3>3
    <2>5. RequestsOK(BagToSet(left), Away(ui))
      BY <2>2, <2>3, <2>4 DEF RequestsOK, ForConnection
    <2>. HIDE DEF left
    <2>. QED  BY <1>1, <2>1, <2>2, <2>4, <2>5, ReturnInv
  <1>3. ASSUME NEW a \in BagToSet(answers), AnswerTimesOut(a) PROVE Inv'
    <2>1. /\ IsABag(answers (-) SetToBag({a})) /\ BagToSet(answers (-) SetToBag({a})) \subseteq BagToSet(answers)
          /\ IsABag(wire) /\ RequestsOK(BagToSet(wire), Away(ui))
      BY BagTake, BagOfSet DEF Inv, TypeOK
    <2>. QED  BY <1>1, <1>3, <2>1, ReturnInv DEF AnswerTimesOut
  <1>. QED  BY <1>2, <1>3

-----------------------------------------------------------------------------
(* The agent. *)

LEMMA AgentTypes ==
    ASSUME TypeOK
    PROVE  /\ \A s \in Session : agent[s] \in AgentSession /\ Cancelled(agent[s]) \in AgentSession
           /\ Gone \in AgentSession
           /\ Status \in Statuses
           /\ NextSession \in Id
  <1>1. \A s \in Session : agent[s] \in AgentSession
    BY DEF TypeOK
  <1>2. Gone \in AgentSession
    BY DEF Gone, NoSession, AgentSession
  <1>3. \A s \in Session : Cancelled(agent[s]) \in AgentSession
    BY <1>1, <1>2 DEF Cancelled, AgentSession
  <1>4. Status \in Statuses
    <2>. DEFINE S == {t \in Session : InTable(t)}
    <2>1. Status \in [S -> Report] /\ DOMAIN Status = S
      BY <1>1 DEF Status, Report, InTable, AgentSession
    <2>. QED  BY <2>1, InStatuses
  <1>5. NextSession \in Id
    <2>1. /\ IsFiniteSet(Session) /\ Cardinality(Session) = MaxSessions /\ MaxSessions \in Nat
      BY LauncherAssumption, FS_Interval DEF Session
    <2>2. Session \ Unborn \in SUBSET Session
      OBVIOUS
    <2>3. Cardinality(Session \ Unborn) \in Nat /\ Cardinality(Session \ Unborn) <= MaxSessions
      BY <2>1, <2>2, FS_Subset, FS_CardinalityType
    <2>. QED  BY <2>1, <2>3 DEF NextSession, Id
  <1>. QED  BY <1>1, <1>2, <1>3, <1>4, <1>5

LEMMA ServedTypes ==
    ASSUME TypeOK, NEW r \in Request, r.action \in AgentActions
    PROVE  Served(r) \in [Session -> AgentSession]
  <1>1. CASE r.action = "status"
    BY <1>1 DEF Served, TypeOK
  <1>2. CASE r.action = "launch"
    <2>1. r.connection \in Connection \cup {None}
      BY DEF Request
    <2>2. Served(r) = [agent EXCEPT ![NextSession] =
                          [@ EXCEPT !.state = "redeeming", !.connection = r.connection]]
      BY <1>2 DEF Served
    <2>. QED  BY <2>1, <2>2 DEF TypeOK, AgentSession
  <1>3. CASE r.action \in {"cancel", "end"}
    BY <1>3, AgentTypes DEF Served
  <1>. QED  BY <1>1, <1>2, <1>3 DEF AgentActions

LEMMA ServeStep ==
    ASSUME Inv, NEW r \in BagToSet(wire), Serve(r)
    PROVE  Inv'
  <1>. DEFINE a == [request |-> r,
                    ok |-> r.action = "end" => InTable(r.session),
                    session |-> IF r.action = "launch" THEN NextSession ELSE None,
                    status |-> IF r.action = "status" THEN Status ELSE <<>>]
  <1>1. /\ r.action \in AgentActions /\ ui' = ui /\ agent' = Served(r)
        /\ wire' = wire (-) SetToBag({r})
        /\ answers' = IF r.deaf THEN answers ELSE answers (+) SetToBag({a})
    BY DEF Serve
  <1>2. /\ r \in Request /\ ForConnection({r}) /\ TypeOK
        /\ Away(ui) => r.late \/ r.action \in {"login", "cancel"}
    BY DEF Inv, RequestsOK, ForConnection
  <1>3. a \in Answer /\ a.request = r
    <2>1. (r.action = "end" => InTable(r.session)) \in BOOLEAN
      BY DEF InTable
    <2>2. (IF r.action = "launch" THEN NextSession ELSE None) \in Id \cup {None}
      BY <1>2, AgentTypes
    <2>3. (IF r.action = "status" THEN Status ELSE <<>>) \in Statuses
      <3>1. <<>> \in [{} -> Report]
        OBVIOUS
      <3>2. <<>> \in Statuses
        BY <3>1 DEF Statuses
      <3>. QED  BY <1>2, <3>2, AgentTypes
    <2>. QED  BY <1>2, <2>1, <2>2, <2>3 DEF Answer
  <1>. HIDE DEF a
  <1>4. AnswersOK({a}, Away(ui))
    BY <1>1, <1>2, <1>3 DEF AnswersOK, AgentActions
  <1>5. IsABag(answers') /\ BagToSet(answers') \subseteq BagToSet(answers) \cup {a}
    BY <1>1, <1>2, BagAdd, BagOfSet DEF TypeOK
  <1>6. AnswersOK(BagToSet(answers'), Away(ui))
    BY <1>4, <1>5 DEF Inv, AnswersOK
  <1>7. IsABag(wire') /\ BagToSet(wire') \subseteq BagToSet(wire)
    BY <1>1, <1>2, BagTake, BagOfSet DEF TypeOK
  <1>8. RequestsOK(BagToSet(wire'), Away(ui))
    BY <1>7 DEF Inv, RequestsOK, ForConnection
  <1>9. TypeOK'
    BY <1>1, <1>2, <1>5, <1>6, <1>7, <1>8, ServedTypes DEF TypeOK, RequestsOK, AnswersOK
  <1>. QED  BY <1>1, <1>6, <1>8, <1>9 DEF Inv

LEMMA SessionStep ==
    ASSUME Inv, NEW s \in Session, SessionStarts(s) \/ SessionFails(s) \/ SessionLeaves(s)
    PROVE  Inv'
  <1>0. TypeOK
    BY DEF Inv
  <1>1. UNCHANGED <<ui, wire, answers>>
    BY DEF SessionStarts, SessionFails, SessionLeaves
  <1>2. agent' \in [Session -> AgentSession]
    <2>1. CASE SessionStarts(s)
      <3>1. [agent[s] EXCEPT !.state = "active", !.known = TRUE] \in AgentSession
        BY <1>0, AgentTypes DEF AgentSession
      <3>. QED  BY <1>0, <2>1, <3>1, AgentTypes DEF SessionStarts
    <2>2. CASE SessionFails(s)
      BY <1>0, <2>2 DEF SessionFails, TypeOK, AgentSession
    <2>3. CASE SessionLeaves(s)
      BY <1>0, <2>3, AgentTypes DEF SessionLeaves, TypeOK
    <2>. QED  BY <2>1, <2>2, <2>3
  <1>. QED  BY <1>1, <1>2 DEF Inv, TypeOK

-----------------------------------------------------------------------------
(* The theorems. *)

LEMMA InitInv == Init => Inv
  <1>. SUFFICES ASSUME Init PROVE Inv
    OBVIOUS
  <1>1. ui \in UI
    BY NoCardsType DEF Init, UI
  <1>2. agent \in [Session -> AgentSession]
    BY DEF Init, NoSession, AgentSession
  <1>3. TypeOK
    BY <1>1, <1>2, EmptyIsBag DEF Init, TypeOK
  <1>4. /\ ui.view = "login" /\ ui.cards = <<>> /\ ui.listed = FALSE /\ ui.timers = {} /\ ui.out = {}
    BY DEF Init
  <1>5. Screen(ui) /\ Locked(ui)
    BY <1>4, NoCardsType DEF Screen, Locked, NoCards
  <1>. QED  BY <1>3, <1>5, EmptyIsBag DEF Init, Inv, RequestsOK, AnswersOK, ForConnection

LEMMA StepInv == Inv /\ [Next]_vars => Inv'
  <1>. SUFFICES ASSUME Inv, [Next]_vars PROVE Inv'
    OBVIOUS
  <1>1. CASE UNCHANGED vars
    BY <1>1 DEF vars, Inv, TypeOK
  <1>2. CASE Next
    BY <1>2, UserSteps, ControllerStep, AgentStep, TimeoutStep, ServeStep, SessionStep DEF Next
  <1>. QED  BY <1>1, <1>2

LEMMA Invariant == Spec => []Inv
  BY InitInv, StepInv, PTL DEF Spec

\* For any number of connections, sessions and requests under way, and replies in
\* any order: types, and the connecting screen belongs to a session that has a
\* card (launch, pollAgent, fail).
THEOREM ScreensHaveSessions == Spec => []LauncherInv
  <1>1. Inv => LauncherInv
    BY DEF Inv, LauncherInv, Screen, ScreenHasSession
  <1>. QED  BY <1>1, Invariant, PTL

\* While nobody is signed in the kiosk is locked, until a reply to a request of
\* the user before is applied (clearLocalSession, logout, pollAgent).
THEOREM SignOutLocks == Spec => []SignedOutIsLocked
  <1>1. Inv => SignedOutIsLocked
    BY DEF Inv, SignedOutIsLocked, Locked, Away
  <1>. QED  BY <1>1, Invariant, PTL
=============================================================================
