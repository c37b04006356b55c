------------------------------ MODULE Launcher ------------------------------
(***************************************************************************)
(* The launcher's Backend object (src/launcher/src/backend.cpp): what the  *)
(* kiosk shows, which timers run, which requests to the controller and to  *)
(* the agent are under way, and what their replies do when they arrive.    *)
(* Qt runs one handler at a time, so an action is a handler; every request *)
(* has a socket of its own, so replies arrive in any order, and nothing    *)
(* ties a reply to the user who was signed in when the request was made.   *)
(* The agent is reduced to the table of sessions it reports.  Minimising,  *)
(* the two questions and maintenance are left out.                         *)
(***************************************************************************)
EXTENDS Naturals, FiniteSets, Bags

CONSTANTS
    Connection,   \* the remote systems on the dashboard
    MaxSessions,  \* bound: sessions the agent starts
    MaxWire,      \* bound: requests under way when the next one is made
    None          \* no connection, no session

ASSUME LauncherAssumption ==
    /\ None \notin Connection /\ None \notin Nat
    /\ MaxSessions \in Nat /\ MaxWire \in Nat

VARIABLES
    ui,       \* the members of Backend
    wire,     \* requests that have not been served (a bag)
    answers,  \* answers of the agent on their way (a bag)
    agent     \* Manager.sessions of the agent

vars == <<ui, wire, answers, agent>>

Session == 1..MaxSessions

\* The ids of sessions and the one after the last.
Id == 1..MaxSessions + 1

\* SessionInfo.  "starting" stands for every state the code does not ask for.
Card == [id: Id \cup {None}, state: {"starting", "active", "error", "stopping"}]

Cards == UNION {[K -> Card] : K \in SUBSET Connection}

ControllerActions == {"login", "connections", "ticket"}
AgentActions == {"status", "launch", "cancel", "end"}

\* A request.  A cancel without a session is for all of them.
\* token: it is for the controller and carries the token of a signed-in user.
\* late: the user it was made for has been signed out since.
\* deaf: its timeout has passed, nobody waits for the answer.
Request ==
    [action: ControllerActions \cup AgentActions,
     connection: Connection \cup {None}, session: Id \cup {None},
     token: BOOLEAN, late: BOOLEAN, deaf: BOOLEAN]

UI == [token: BOOLEAN, view: {"login", "dashboard", "session", "offline"},
       busy: BOOLEAN, listed: BOOLEAN, expired: BOOLEAN, sessionActive: BOOLEAN,
       cards: Cards,
       active: Connection \cup {None}, timers: SUBSET {"poll", "idle"},
       stray: BOOLEAN,           \* a late reply has been applied
       out: {{}}, cleared: {FALSE}]

\* What status reports of the sessions in the agent's table.
Report == [state: {"starting", "active", "error", "stopping"},
           connection: Connection \cup {None}]

Statuses == UNION {[S -> Report] : S \in SUBSET Session}

Answer == [request: Request, ok: BOOLEAN, session: Id \cup {None},
           status: Statuses]

AgentSession ==
    [state: {"unborn", "redeeming", "active", "error", "stopping", "gone"},
     connection: Connection \cup {None}, known: BOOLEAN]

TypeOK ==
    /\ ui \in UI
    /\ IsABag(wire) /\ BagToSet(wire) \subseteq Request
    /\ IsABag(answers)
    /\ BagToSet(answers) \subseteq Answer
    /\ agent \in [Session -> AgentSession]

NoSession == [state |-> "unborn", connection |-> None, known |-> FALSE]

Init ==
    /\ ui = [token |-> FALSE, view |-> "login", busy |-> FALSE, listed |-> FALSE,
             expired |-> FALSE, sessionActive |-> FALSE, cards |-> <<>>,
             active |-> None, timers |-> {}, stray |-> FALSE,
             out |-> {}, cleared |-> FALSE]
    /\ wire = EmptyBag
    /\ answers = EmptyBag
    /\ agent = [s \in Session |-> NoSession]

-----------------------------------------------------------------------------
(* What a handler does to the object.  Within a handler, out collects the  *)
(* requests it makes, and cleared says that it has signed the user out.     *)

NoCards(u) == DOMAIN u.cards = {}

Put(u, c, card) ==
    [u EXCEPT !.cards = [k \in DOMAIN @ \cup {c} |-> IF k = c THEN card ELSE @[k]]]

Drop(u, c) ==
    [u EXCEPT !.cards = [k \in DOMAIN @ \ {c} |-> @[k]]]

\* m_sessions.value(c), which is an empty SessionInfo where there is none.
Value(u, c) ==
    IF c \in DOMAIN u.cards THEN u.cards[c] ELSE [id |-> None, state |-> "starting"]

Show(u, view) == [u EXCEPT !.view = view]

Send(u, action, connection, session) ==
    [u EXCEPT !.out = @ \cup {[action |-> action, connection |-> connection,
                               session |-> session,
                               token |-> u.token /\ action \in ControllerActions,
                               late |-> FALSE, deaf |-> FALSE]}]

ArmIdleLock(u) ==
    IF u.token /\ ~u.sessionActive /\ u.view # "session"
        THEN [u EXCEPT !.timers = @ \cup {"idle"}]
        ELSE u

\* A clearLocalSession that does not stop m_poll.
ClearLocalSessionKeepsPolling(u) ==
    [u EXCEPT !.token = FALSE, !.expired = FALSE, !.listed = FALSE,
              !.timers = @ \ {"idle"}, !.cards = <<>>, !.sessionActive = FALSE,
              !.active = None, !.view = "login", !.stray = FALSE, !.cleared = TRUE]

ClearLocalSession(u) ==
    [u EXCEPT !.token = FALSE, !.expired = FALSE, !.listed = FALSE,
              !.timers = {}, !.cards = <<>>, !.sessionActive = FALSE,
              !.active = None, !.view = "login",
              !.stray = FALSE, !.cleared = TRUE]

Fail(u, offline) ==
    LET v == [u EXCEPT !.busy = FALSE, !.sessionActive = ~NoCards(u)]
    IN  IF offline
            THEN Show(v, "offline")
            ELSE ArmIdleLock(Show(v, IF v.token THEN "dashboard" ELSE "login"))

LoadConnections(u) == Send([u EXCEPT !.busy = TRUE], "connections", None, None)

\* launch up to the request for a ticket; refused: access is restricted now.
LaunchOf(u, c, refused) ==
    LET ended == c \in DOMAIN u.cards /\ u.cards[c].state \in {"error", "stopping"}
        told  == IF ended /\ u.cards[c].id # None
                     THEN Send(u, "cancel", None, u.cards[c].id)
                     ELSE u
        v     == IF ended THEN Drop(told, c) ELSE told
    IN  CASE c \in DOMAIN v.cards -> [v EXCEPT !.active = c]
          [] c \notin DOMAIN v.cards /\ refused -> Fail(v, FALSE)
          [] OTHER ->
                 Send(Put([v EXCEPT !.active = c, !.expired = FALSE,
                                    !.timers = @ \ {"idle"},
                                    !.sessionActive = TRUE, !.busy = TRUE,
                                    !.view = "session"],
                          c, [id |-> None, state |-> "starting"]),
                      "ticket", c, None)

-----------------------------------------------------------------------------
(* Steps. *)

\* The answer to a cancel is ignored.
Late(r) == [r EXCEPT !.late = r.action # "cancel"]

Copies(e, B) == IF BagIn(e, B) THEN B[e] ELSE 0

\* The bags of requests and of answers with every one late: of two that differ
\* in that only, both.
AllLate(B) ==
    [r \in {Late(q) : q \in BagToSet(B)} |->
        Copies([r EXCEPT !.late = TRUE], B) + Copies([r EXCEPT !.late = FALSE], B)]

AllLateAnswers(B) ==
    [a \in {[b EXCEPT !.request = Late(@)] : b \in BagToSet(B)} |->
        Copies([a EXCEPT !.request.late = TRUE], B)
            + Copies([a EXCEPT !.request.late = FALSE], B)]

\* The handler has left the object as u; left and rest are the requests and the
\* answers that it has not taken.
Return(u, left, rest) ==
    \E v \in {u} :
        /\ ui' = [v EXCEPT !.out = {}, !.cleared = FALSE]
        /\ wire' = (IF v.cleared THEN AllLate(left) ELSE left) (+) SetToBag(v.out)
        /\ answers' = IF v.cleared THEN AllLateAnswers(rest) ELSE rest
        /\ UNCHANGED agent

Unborn == {s \in Session : agent[s].state = "unborn"}

\* The launches that will take one of them.
Launching ==
    LET R == {r \in BagToSet(wire) : r.action = "launch"}
    IN  [r \in R |-> wire[r]]

\* A click, a key, a signal or a timer.
Event(u) ==
    /\ BagCardinality(wire (+) answers) < MaxWire
    /\ Return(u, wire, answers)

Login ==
    /\ ui.view = "login" /\ ~ui.busy
    /\ Event(Send([ui EXCEPT !.busy = TRUE], "login", None, None))

Refresh ==
    /\ ui.view = "dashboard" /\ ui.token
    /\ Event(LoadConnections(ui))

Retry ==
    /\ ui.view = "offline"
    /\ Event(IF ui.token THEN LoadConnections(ui) ELSE Show(ui, "login"))

\* The button, Windows+L (a signal) and the idle timer.
Logout ==
    LET asked == IF NoCards(ui) THEN ui ELSE Send(ui, "cancel", None, None)
    IN  Event([ClearLocalSession(asked) EXCEPT !.busy = FALSE])

\* eventFilter: a key, a click or a touch on the dashboard.
Input ==
    /\ ui.token /\ ui.view = "dashboard"
    /\ Event(ArmIdleLock(ui))

Launch(c, refused) ==
    /\ ui.view = "dashboard" /\ ui.listed
    /\ Event(LaunchOf(ui, c, refused))

\* The button on the connecting screen, or the toolbar of a visible session.
EndSession ==
    LET card == Value(ui, ui.active) IN
    /\ ui.view = "session" \/ card.state \in {"active", "stopping"}
    /\ card.id # None
    /\ Event(Send(ui, "end", None, card.id))

PollTimer == "poll" \in ui.timers /\ Event(Send(ui, "status", None, None))

\* The keep-alive request finds that the controller has ended the session.  Its
\* answer may come after the sign-out: the next user then starts with it.
SessionExpires ==
    /\ ui.token /\ ui.view \in {"dashboard", "session"} /\ ~ui.expired
    /\ Event([ui EXCEPT !.expired = TRUE])

InTable(s) == agent[s].state \notin {"unborn", "gone"}

Status ==
    [s \in {t \in Session : InTable(t)} |->
        [state |-> IF agent[s].state = "redeeming" THEN "starting" ELSE agent[s].state,
         connection |-> IF agent[s].known THEN agent[s].connection ELSE None]]

-----------------------------------------------------------------------------
(* Replies. *)

Results == {"ok", "refused", "unauthorised", "offline"}

\* What the handler of a successful request to the controller does.
Granted(u, r) ==
    CASE r.action = "login" -> LoadConnections([u EXCEPT !.token = TRUE])
      [] r.action = "connections" ->
             ArmIdleLock([u EXCEPT !.listed = TRUE, !.busy = FALSE, !.view = "dashboard"])
      [] r.action = "ticket" -> Send(u, "launch", r.connection, None)

Denied(u, result) ==
    IF result = "unauthorised"
        THEN Fail(ClearLocalSession(u), FALSE)
        ELSE Fail(u, result = "offline")

ControllerReplies(r, result) ==
    /\ r.action \in ControllerActions
    /\ r.action # "login" /\ ~r.token => result \in {"unauthorised", "offline"}
    /\ r.action = "ticket" /\ result = "ok" =>
           BagCardinality(Launching) < Cardinality(Unborn)
    /\ LET u == [ui EXCEPT !.stray = @ \/ r.late]
       IN  Return(IF result = "ok" THEN Granted(u, r) ELSE Denied(u, result),
                  wire (-) SetToBag({r}), answers)

\* The card that a reported session belongs to.  One that has not redeemed its
\* ticket is found by its id.
KeyOf(u, status, s) ==
    IF status[s].connection # None
        THEN {status[s].connection}
        ELSE {k \in DOMAIN u.cards : u.cards[k].id = s}

Shown(u, status, k) == {s \in DOMAIN status : k \in KeyOf(u, status, s)}

\* The cards after a status: the sessions reported, of two for one connection
\* the later one, and the cards that wait for their session.
Updated(u, status) ==
    LET Newest(k) == CHOOSE s \in Shown(u, status, k) :
                         \A t \in Shown(u, status, k) : t <= s
        Kept == {k \in DOMAIN u.cards : u.cards[k].id = None}
        Listed == UNION {KeyOf(u, status, s) : s \in DOMAIN status}
    IN  [k \in Kept \cup Listed |->
            IF k \in Listed
                THEN [id |-> Newest(k), state |-> status[Newest(k)].state]
                ELSE u.cards[k]]

\* A failed session of the connection on the screen is shown on the dashboard.
ShowFailure(u, status) ==
    IF \E s \in Shown(u, status, u.active) : status[s].state = "error"
        THEN [u EXCEPT !.busy = FALSE, !.view = "dashboard"]
        ELSE u

\* A pollAgent that forgets the session on the screen but leaves the screen.
LeaveEndedKeepsScreen(u) ==
    IF u.active \in DOMAIN u.cards THEN u ELSE [u EXCEPT !.active = None]

\* The session on the screen is over.
LeaveEnded(u) ==
    IF u.active \in DOMAIN u.cards \cup {None}
        THEN u
        ELSE [u EXCEPT !.active = None, !.view = IF u.expired THEN @ ELSE "dashboard"]

\* pollAgent; status holds the sessions the agent reported.
PollAgent(u, status) ==
    LET v == [ShowFailure(u, status) EXCEPT !.cards = Updated(u, status)]
        w == [LeaveEnded(v) EXCEPT !.sessionActive = ~NoCards(v)]
        idle == [w EXCEPT !.timers = @ \ {"poll"}]
    IN  CASE ~NoCards(w) -> w
          [] NoCards(w) /\ w.expired -> ClearLocalSession(idle)
          [] OTHER -> ArmIdleLock(Show(idle, "dashboard"))

\* A launch handler that asks for the status once and does not poll.
LaunchedPollsOnce(u, c, s) ==
    Send([Put(u, c, [Value(u, c) EXCEPT !.id = s]) EXCEPT !.busy = FALSE],
         "status", None, None)

\* The agent took the launch: the card gets its session and polling starts.
Launched(u, c, s) ==
    LET v == Put(u, c, [Value(u, c) EXCEPT !.id = s])
    IN  Send([v EXCEPT !.busy = FALSE, !.timers = @ \cup {"poll"}], "status", None, None)

\* What the handler of an answer of the agent does.
Completed(u, a) ==
    CASE a.request.action = "status" -> PollAgent(u, a.status)
      [] a.request.action = "launch" -> Launched(u, a.request.connection, a.session)
      [] a.request.action = "end" -> IF a.ok THEN Show(u, "dashboard") ELSE u
      [] a.request.action = "cancel" -> u

AgentReplies(a) ==
    Return(Completed([ui EXCEPT !.stray = @ \/ a.request.late], a),
           wire, answers (-) SetToBag({a}))

\* The timeout of agentRequest closes the socket: the agent still reads the
\* request, or its answer comes too late.  A status nobody waits for does nothing.
GiveUp == IF ui.view = "session" THEN Fail(ui, FALSE) ELSE ui

RequestTimesOut(r) ==
    /\ r.action \in AgentActions /\ ~r.deaf
    /\ LET unread == {q \in {r} : q.action # "status"}
       IN  Return(GiveUp,
                  (wire (-) SetToBag({r}))
                      (+) SetToBag({[q EXCEPT !.deaf = TRUE] : q \in unread}),
                  answers)

AnswerTimesOut(a) == Return(GiveUp, wire, answers (-) SetToBag({a}))

-----------------------------------------------------------------------------
(* The agent: the requests of localapi and the course of a session. *)

Gone == [NoSession EXCEPT !.state = "gone"]

Cancelled(x) ==
    CASE x.state \in {"unborn", "gone"} -> x
      [] x.state = "error" -> Gone
      [] OTHER -> [x EXCEPT !.state = "stopping"]

NextSession == Cardinality(Session \ Unborn) + 1

\* The agent's table after request r.
Served(r) ==
    CASE r.action = "status" -> agent
      [] r.action = "launch" ->
             [agent EXCEPT ![NextSession] =
                 [@ EXCEPT !.state = "redeeming", !.connection = r.connection]]
      [] r.action \in {"cancel", "end"} ->
             [s \in Session |->
                 IF r.session \in {s, None} THEN Cancelled(agent[s]) ELSE agent[s]]

Serve(r) ==
    /\ r.action \in AgentActions
    /\ wire' = wire (-) SetToBag({r})
    /\ agent' = Served(r)
    /\ answers' =
           IF r.deaf THEN answers
           ELSE answers (+) SetToBag({
                    [request |-> r,
                     ok |-> r.action = "end" => InTable(r.session),
                     session |-> IF r.action = "launch" THEN NextSession ELSE None,
                     status |-> IF r.action = "status" THEN Status ELSE <<>>]})
    /\ UNCHANGED ui

\* run redeems its ticket, replaces what the connection had and starts, also
\* when a cancel has come meanwhile (setSession overwrites "stopping").
SessionStarts(s) ==
    /\ agent[s].state \in {"redeeming", "stopping"} /\ ~agent[s].known
    /\ agent' = [t \in Session |->
           CASE t = s -> [agent[s] EXCEPT !.state = "active", !.known = TRUE]
             [] t # s /\ agent[t].known /\ agent[t].connection = agent[s].connection
                      /\ agent[t].state # "stopping" -> Cancelled(agent[t])
             [] OTHER -> agent[t]]
    /\ UNCHANGED <<ui, wire, answers>>

\* The ticket is refused or the client fails; the entry says so for two seconds.
SessionFails(s) ==
    /\ agent[s].state \in {"redeeming", "active", "stopping"}
    /\ agent' = [agent EXCEPT ![s].state = "error"]
    /\ UNCHANGED <<ui, wire, answers>>

\* The session leaves the table: its client has exited, or the two seconds are over.
SessionLeaves(s) ==
    /\ InTable(s) /\ agent[s].state # "redeeming"
    /\ agent' = [agent EXCEPT ![s] = Gone]
    /\ UNCHANGED <<ui, wire, answers>>

Next ==
    \/ Login \/ Refresh \/ Retry \/ Logout \/ Input
    \/ \E c \in Connection, refused \in BOOLEAN : Launch(c, refused)
    \/ EndSession \/ PollTimer \/ SessionExpires
    \/ \E r \in BagToSet(wire) :
           \/ \E result \in Results :
                  ControllerReplies(r, result)
           \/ RequestTimesOut(r)
           \/ Serve(r)
    \/ \E a \in BagToSet(answers) : AgentReplies(a) \/ AnswerTimesOut(a)
    \/ \E s \in Session : SessionStarts(s) \/ SessionFails(s) \/ SessionLeaves(s)

Spec == Init /\ [][Next]_vars

\* Replies arrive and the poll timer fires.  Status requests come again and again:
\* they do not hold up a launch.
FairSpec ==
    /\ Spec
    /\ WF_vars(\E r \in BagToSet(wire), result \in Results : ControllerReplies(r, result))
    /\ \A K \in {{"launch"}, AgentActions \ {"launch"}} :
           /\ WF_vars(\E r \in BagToSet(wire) : r.action \in K /\ Serve(r))
           /\ WF_vars(\E a \in BagToSet(answers) : a.request.action \in K /\ AgentReplies(a))
    /\ SF_vars(PollTimer)

-----------------------------------------------------------------------------
(* Properties. *)

\* docs/troubleshooting.md on Windows+L: "it must disconnect any active native
\* session and sign out to the ThinPi login screen".  While nobody is signed in,
\* the kiosk shows no dashboard, no card and no list of connections, whatever was
\* under way, until the answer to a request of the user before arrives, which
\* no handler tells from one of its own (clearLocalSession, pollAgent).
SignedOutIsLocked ==
    ~ui.token /\ ~ui.stray =>
        /\ ui.view \in {"login", "offline"}
        /\ NoCards(ui) /\ ~ui.listed

\* The connecting screen belongs to a session that has a card, so that its
\* button and the next status can end it; if the controller has ended the
\* user's session, pollAgent leaves the screen as it is.
ScreenHasSession ==
    ui.view = "session" => ui.active \in DOMAIN ui.cards \/ ui.expired

LauncherInv ==
    /\ TypeOK
    /\ ScreenHasSession

\* The connecting screen is left when no session is behind it: a ticket that is
\* refused, an answer that is lost or late, a client that ends between two
\* polls, a reply of the user before do not keep it (launch, agentRequest,
\* pollAgent).
ConnectingScreenLeft ==
    []<>(ui.view = "session" => ui.expired \/ \E s \in Session : InTable(s))
=============================================================================
