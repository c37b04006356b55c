# ThinPi: TLA+ models, model checking and proofs

ThinPi turns a small computer into a kiosk from which a person starts remote
sessions (RDP, VNC, SSH, Moonlight) that a central controller grants. This
directory holds TLA+ specifications of the parts of it whose correctness
depends on the order of events, TLC configurations that check them on small
instances, and proofs of the most important facts for every instance.

## 1. The system

### Components, state and operations

| Component | State it keeps | Operations that change it |
|---|---|---|
| **Session manager** `agent/internal/launch/launch.go` | table of managed sessions (state, connection, pid, window state, pending host-key or audio question, sink) under one mutex; one `run` goroutine per session | `Launch`, the steps of `run`, `Cancel`, `ensureSessionStopped` (with a retry timer), `removeSession`, `releaseAudioIfUnused`, `ResolveAudioUnavailable`, `ResolveSSHHostKeyChange`, `Minimize`, `Resume` |
| **Native runner** `runner_unix.go`, `terminate_unix.go` | the client process and its process group, prepared audio sink | `Run` (prepare, start, wait, classify), `SetAudioSuspended`, termination of the group |
| **Window controller** `window_unix.go` | which X11 windows are hidden | `Minimize`, `Resume` |
| **Local socket server** `agent/internal/localapi` | none; one goroutine per connection | dispatch of the launcher's requests; the gate between sessions and maintenance |
| **SSH trust store** `ssh_trust.go` | known-hosts file | `Prepare`, `Accept` |
| **Moonlight pairing** `moonlight_pair.go` | file of Sunshine certificate pins, the pairing process | `ensureMoonlightPaired`, `submitSunshinePIN`, `verify` |
| **Maintenance broker** `agent/internal/maintenance` | whether an `Open` or a shell is under way | `Open`, the start of the systemd unit, the monitor's `done` |
| **Controller client, agent process** `agent/internal/api`, `internal/config`, `cmd/thinpi-agent` | the device's credential file | `Redeem`, `RedeemMaintenance`, `SessionEvent`, `Enrol`, heartbeat, `SaveDevice` |
| **Store** `controller/internal/app/store.go` | SQLite: users, login attempts and sessions, policies, permissions, launch and maintenance tickets, admin handoffs, usage rows, devices | `Authenticate`, `Logout`, `CreateLaunchTicket`, `RedeemLaunchTicket`, `PolicyStatus`, `UpdateOwnProfile`, `Create`/`RedeemMaintenanceTicket`, `Create`/`RedeemAdminHandoff`, `EnrolDevice`, `Heartbeat`, `SessionEvent` |
| **HTTP API** `controller/internal/web/server.go` | rate limiter, the store | user, device and administration handlers |
| **Database** `controller/internal/database` | schema version | migrations |
| **Launcher backend** `launcher/src/backend.cpp` | logged-in user, in-flight requests, per-card session state, polling timers | login, logout, launch, poll, end, minimise, resume, questions, maintenance |

### How they interact

The launcher asks the controller for a launch ticket (HTTPS) and hands it to
the agent over the local socket. The agent's `run` goroutine redeems it with
the device's token, receives a manifest (connection, protocol, credentials,
time limit), replaces an older session of the same connection, prepares the
command, reports `session_started`, runs the native client, reports
`session_exited` and removes the session. The launcher polls the agent's status
and shows what it says; cancel, minimise, resume and the two questions (changed
SSH host key, audio unavailable) come back over the same socket, each request
in a goroutine of its own. The controller turns the events into usage rows from
which the policy's daily allowance is computed. For local maintenance the launcher
gets another one-time ticket, and the agent redeems it and has systemd open a
shell; the socket server refuses that while remote sessions exist. A kiosk becomes a device
with a third one-time token, and an administrator reaches the administration
page with a fourth.

### What is hard

* `run` writes the session's state without looking at it, while `Cancel` writes
  it from another goroutine; the context and the table say different things.
* Decisions are taken under the mutex and carried out after it: suspending a
  sink, hiding a window, signalling a pid, removing a session.
* A time limit, a cancel, a relaunch of the same connection and the user's
  answer to a question may all arrive at once, and there are seven ways out of
  `run`.
* A client can be started twice in one session (the second time without audio)
  and fields of the first start survive.
* On the controller, checks and updates that form one decision are partly in
  one transaction and partly in several statements; a reply can be lost after
  the commit; an event can be lost before it.
* A request may be served after its sender has stopped waiting, a systemd job
  may run after its start was reported as failed, and the agent may restart in
  between.
* Files are read, compared and replaced; what was compared may be old by then.
* In the launcher, replies arrive after the user they belong to has left.

The complete list, each hazard at its line with the properties that watch it,
is `hazards` in `PROJECT.json`.


### What makes each component correct

* **Session manager, runner, windows:** a relaunch replaces the older session of
  its connection; no client runs that nobody can reach; what `Cancel` removes
  has no client; every session that ends leaves the table; a cancel takes
  effect; the controller hears of one outcome per session; a sink nobody uses is
  given back, one that is in use is not; no window of a live session is lost.
* **Store and HTTP API:** a ticket, a handoff and an enrolment token are issued
  once and used at most once; what they are worth arrives at most once; a change of
  policy reaches the tickets that can still be used; rows never refer to what is gone; the daily
  allowance counts the time sessions ran; failed sign-ins are limited; the
  password that was set last is the valid one; a session that is over stays so.
* **Maintenance broker and gate:** a ticket opens at most one shell, on its own
  device; a session that exists when maintenance is asked for is closed before
  the shell opens; the broker always becomes idle again.
* **SSH trust, Sunshine pins:** a password is only given to a host whose key was
  seen first or approved; updates of the files lose nothing.
* **Enrolment, heartbeat:** a token makes one device and no two kiosks are one
  device; a disabled device is not reported as seen.
* **Launcher:** a signed-out kiosk shows nothing of the user before; a person
  who waits on the connecting screen is not left there when nothing is behind it.

## 2. The modules

| Module | What it is |
|---|---|
| `LaunchManager` | the agent's session manager, native runner, window controller and the callers on the local socket |
| `MCLaunchManager` | symmetry set of its instances |
| `LaunchManagerProofs` | its theorems |
| `SingleUse` | what a single-use, device-bound ticket promises (abstract) |
| `TicketStore` | the controller's launch tickets, statement by statement, with the administration and the agent around them |
| `MCTicketStore` | symmetry sets of its instances |
| `TicketStoreProofs` | its theorems, among them that it implements `SingleUse` |
| `Launcher` | the launcher's backend: what the kiosk shows, its timers, its requests and the replies |
| `LauncherProofs` | its theorems |
| `Maintenance` | maintenance tickets, the agent's broker, the gate of the socket server and the systemd unit; implements `SingleUse` |
| `MaintenanceProofs` | its theorems |
| `HostTrust`, `MCHostTrust` | the known-hosts file and the Sunshine pins with the tasks that use them |
| `HostTrustProofs` | its theorems |
| `Usage`, `MCUsage` | access policy and recorded usage of one user, with the events they depend on |
| `UsageProofs` | its theorems, and lemmas about sums over sets of tickets |
| `Accounts`, `MCAccounts` | sign-in, login sessions, profile and handoffs of one account; the handoffs implement `SingleUse` |
| `AccountsProofs` | its theorems |
| `Enrolment`, `MCEnrolment` | enrolment tokens, device rows, the kiosk's credential file and the heartbeat; the tokens implement `SingleUse` |
| `EnrolmentProofs` | its theorems |

### LaunchManager

*State.* `present` and `entry` are `Manager.sessions` (an entry is a
`managedSession`: state, connection, pid, minimised mark, window handle, sink,
pending question). `cancelled` and `expired` are the two ways a session's
context ends. `pc` says where the `run` goroutine of a session is; `manifest`,
`duplicates`, `runErr`, `muted`, `prepared` and `choice` are its locals and its
channel. `client`, `starts` and `hidden` describe the native processes and
their windows, `suspended` the sinks, `sent` the events put on the wire,
`stopTimers` the pending retries of `ensureSessionStopped`. `frame` and `window`
hold what a goroutine still owes after it has left the mutex.

*Actions.* One action is one critical section of `Manager.mu`, or one call made
with the mutex released; so the interleavings are those of the code. `run` is
the sequence `Redeem`, `CancelDuplicate`, `Prepare`, (`HostKeyChanges`,
`AskHostKey`, `ReportKeyChanged` | `PrepareFails`, `ReportFailed`),
`Starting`, `ReportStarted`, `Activate`, then the steps of `Runner.Run`
(`PrepareAudio`, `AudioReady`, `StartClient`, `RegisterPid`, `ClientReturns`),
then `AskAudioChoice` with its three outcomes or `ReportExited` and `Finish`.
`CancelSession`, `CancelAll`, the two `Resolve` calls, `Minimize` and `Resume`
are made by callers. A call that continues after the mutex is released (stop
the client, release sinks, remove, hide or show the window) continues as the
owed steps `StopClient`, `ReleaseAudioIfUnused`, `SuspendSink`,
`RemoveSession`, `HideWindow`, `Minimized`, `ResumeSink`, `ShowWindow`,
`Resumed`.

*Windows.* `HideWindow` hides the window of the client that was asked for, or the one
that happens to be active: another session's, or one of no session (`OtherWindow`,
such as the administration browser). `ShowWindow` is two commands, map and
activate, and fails before the first, or between the two with the window back on
the screen; either way `Resume` gives the sink back and leaves the mark.

*Audio.* `AudioFails` is `AudioUnavailableError` from the preparation or from a
Moonlight client whose output says so while it runs, and from any client, of
whatever protocol, that has ended with such an output; `run` does not look at the
protocol when it asks.

*Abstractions.* A command line is built or not; a client exits with or without
an error at any time; a key scan says known, changed or failed; texts and logs
are left out. Assumed: a signal to a live process group ends it,
`SetAudioSuspended` succeeds, a client has one window, so that hiding or mapping it
is one command, and a pid is not reused while an entry names it.

### TicketStore

*State.* The tables a launch depends on: enabled `users`, `devices` and
`connections`, `permission` and `member`, `policy` (reduced to whether it admits
a launch and whether it caps the session), `tickets` and `usage`. `request`
holds the HTTP requests under way: the next statement of each handler and what
it has read. `delivered`, `agent` and `events` are the agent's side: which
manifests arrived, how far their sessions are, which reports are on the wire.
`outdated` is an observation that no action reads: the launches that were between
reading the policy and inserting the ticket when the policy changed (`Deciding`),
the tickets they inserted, and those a failed delete left behind.

*Actions.* `database.Open` allows one connection, so a statement is atomic and
so is a transaction from `BeginTx` to `Commit`; a handler that makes several
statements outside a transaction is several actions. `CreateLaunchTicket` is
`Launch`, `CheckCanLaunch`, `CheckPolicyStatus`, `CheckDevice`, `InsertTicket`;
`redeem` is `Redeem` (the authentication of the device) and then
`RedeemLaunchTicket` or `RedeemRefused`, and `Deliver` or `LoseReply`;
`SessionEvent` is `ReceiveEvent`, `CheckTicket`, then `OpenUsage` or
`FindUsage` and `CloseUsage`. The administration acts between any two of these,
with the cascades of the schema; changing a policy is the update and then
`PurgeTickets`, which may fail unnoticed.

*Abstractions.* Login sessions are reduced to "the user is enabled now", the
credentials to the manifest itself, the evaluation of schedule and allowance to
the policy's value. A redemption can always be refused, which stands for the
failures of the vault, of the context and of the commit. Audit rows are left
out: nothing reads them.

*Refinement.* `SingleUse` knows slots (unissued, open, used, revoked), manifests
on their way and manifests received. A row of `launch_tickets` maps to its
slot, and a handler about to reply maps to a manifest on its way. `KeepsPromise`
says that `TicketStore` implements it. Three more modules have a `KeepsPromise`
of their own: a maintenance ticket is a slot of a device, a handoff a slot of the
one user, an enrolment token a slot of anyone. The four tables have similar code
and different ways to lose or repeat an answer, and promise the same.

### Maintenance

*State.* On the controller the enabled administrators and devices and
`maintenance_tickets`; on each device `Broker.active`, the `monitor` goroutine,
the systemd `unit` (down, queued, up) and `Manager.sessions`. `call` is one
maintenance request of a launcher and the step its goroutine is at, `request`
how far the controller is with its redemption. `delivered` and `shells` record
what was accepted and what was started with each ticket.

*Actions.* `CreateMaintenanceTicket` is `Authorise` and `InsertTicket`. A call is
`Accept`, `HasSessions`, `Lock`, then `Granted`, `Rejected` or `Timeout`, then
`Start` or `StartFails`, then `Opened` or `NotOpened`; the controller serves its
request in `CheckDevice` and `RedeemMaintenanceTicket` or `RedeemRefused`, also
after the call has left (`Dropped`). `RunJob` and `Exit` are systemd and the
shell, `Done` is the monitor, `RestartAgent` a new agent process beside a unit
that goes on. `LaunchSession` and `EndSession` are all this module needs of
`LaunchManager`.

*Abstractions.* A unit's state cannot be read at any time, which is one case of
`NotOpened` and of `Done`. What is done in the shell, and the switch of consoles,
are left out.

### HostTrust

*State.* `file` holds the trusted keys of each host, for SSH and for Sunshine;
`keys` what each host presents, which may change. A `task` is a goroutine that
prepares a session or answers a host-key question, with what it has seen and
what it is about to write. `sshMu` is the manager's lock, `pair` each task's
pairing process. `earned` and `used` record which keys were first seen or
approved, and which were given a password.

*Actions.* Both stores share `Read`, `WriteTemp`, `Rename` and `StoreFails`. SSH
adds `PrepareSSH`, `Lock`, `Scan` (some of the host's keys), `ConnectSSH`, and
for the question `Approve`, `Decline` and `Accept`; pairing adds
`PrepareMoonlight`, `StartPairing`, and the cases of its select loop `Waited`,
`Deadline` and `Tick`, and `Submit`, whose requests may use the connection of an
earlier one, so that the certificate is compared only when a connection is made.
`Rekey` changes a host, `Restart` is the agent's.

*Abstractions.* A key or a certificate is a model value; whether the host is
already paired and what it answers are choices. The format of the files and the
order of their lines are left out.

### Usage

*State.* One user's `policy`, the `session` of each ticket as the agent runs it,
`session_usage`, the `events` on the wire and the `faults` met so far. Time is
in fractions of a second, because usage is truncated to seconds and because
time stamps are compared as text, where a whole second sorts after its
fractions (`StampFrom`).

*Actions.* `Launch` asks `PolicyStatus` (`Allowed`, `EffectiveMaxSeconds`, both
pure operators of the rows and the clock), `Begin` and `Finish` are the client,
`SessionStarted` and `SessionExited` the two branches of `SessionEvent`, `Lose` a
lost report, `Crash` an agent that dies with its clients. `Tick` respects the
deadline of `run`'s context.

*Abstractions.* All days are equally long (no change to summer time); the
statements of `SessionEvent` are one step here because `TicketStore` already
takes them apart.

### Accounts

*State.* One `user` row, `failures` (the failed rows of `login_attempts`, in the order
they were written), `sessions`, `handoffs`, and
`call`, the requests under way with what their handlers have read. `wanted` and
`under` record which password was set last and which one each session stands
for.

*Actions.* `Authenticate` is `Login` (the count), `Verify`, then `RecordFailure` (whose
row may not get written, because the error of the INSERT is dropped) or
`InsertSession`; every request with a cookie is `Request` and `Touch` (the sliding
expiry) and then `Logout`, the two halves of `UpdateOwnProfile` (`ReadProfile`,
`CommitProfile`) or the three statements of `CreateAdminHandoff`.
`RedeemAdminHandoff` is one transaction, then `Deliver` or `LoseReply`. An
administrator changes the account with `UpdateUser`, or with
`UpdateUserAndPassword` and `ResetPassword`, which are two statements.

*Abstractions.* A password is its hash; a user name matters only in that a new
one signs other sessions out; session rows beyond the two that are followed are
opened and never used. The count of failures is assumed to be answered:
`Authenticate` drops the error of that query too, and would take no answer for no
failures.

### Enrolment

*State.* `tokens` and `devices` on the controller (a device holds the credential
of the token that made it), requests and answers on the wire, and for each kiosk
the enrol `command`, the `file`, the credential its agent is `serving` with and
the heartbeat under way.

*Actions.* `Enrol`, `EnrolDevice` or `RefuseEnrolment`, `Receive` or `LoseAnswer`,
`Truncate` and `Write` (`os.WriteFile` empties the file first), `Abort` at any
point, `StartAgent`; `Authenticate` and `Heartbeat`, which are two statements;
`UpdateDevice`.

### Launcher

*State.* `ui` holds the members of `Backend` that decide what happens: whether
there is a token, the view, the cards (`m_sessions`), the active connection, the
running timers, `busy`, `m_sessionExpired` and whether connections are listed.
`wire` and `answers` are bags of requests that nobody has served and of answers
of the agent on their way; a request remembers whether its user has been signed
out since (`late`; `AllLate` and `AllLateAnswers` mark all of them when a handler
signs out) and whether its timeout has passed (`deaf`). Sessions are numbered, and
`Id` has one number more: the name of a launch after the last. `stray` says that
a late reply has been applied. `agent` is the table of sessions as `Status`
reports it. `out` and `cleared` are empty between steps: within a handler they
collect the requests it makes and whether it has signed the user out.

*Actions.* Qt runs one handler at a time, so a handler is one action: `Login`,
`Refresh`, `Retry`, `Logout` (button, Windows+L and idle timer), `Input`, `Launch`,
`EndSession` and `PollTimer`; `ControllerReplies` with what `login`,
`loadConnections` and `launch` do on success (`Granted`) and `controllerRequest`
on failure (`Denied`); `AgentReplies` with `PollAgent` and `Launched`; the two
cases of `agentRequest`'s timeout. `Serve` and the three steps of a session are
the agent.

*Abstractions.* The keep-alive request is reduced to its only effect,
`SessionExpires`. The agent accepts every launch, as `Manager.Launch` does.
Dialogs are left out: a click is bound to the view only. `preparing`,
`starting_client` and `redeeming_ticket` are one state, because the launcher does
not ask for them. Restarts of the agent are left out.

## 3. What the runs check

| Run | Instance | Shows |
|---|---|---|
| `launch_replace` | two sessions, two connections, SSH and Moonlight, cancels, host-key answers, the audio question, time limits | `LaunchInv` (the inductive invariant); `OneClientPerConnection`, `NoOrphanClient`, `TerminalHasNoClient`, `NoStuckSession`: a relaunch replaces, nothing is orphaned or stuck; `EventProtocol`: one well-formed history per session, across the second start too; `TwoClientsAtMost`: there is no third |
| `launch_minimize` | two Moonlight sessions sharing a sink and the screen, minimise, restore, cancel | once everything has settled: `UnusedSinkReleased`, `SoleSessionHasAudio`, `HiddenWindowsRestorable` |
| `launch_liveness` | two launches of one connection, fair | `CancelTakesEffect`, `ReplacementCompletes`, `EndedSessionLeaves` |
| `ticket_redeem` | two devices, tickets and requests; the connection may be deleted, replies lost | `TicketInv`, `KeepsPromise` |
| `ticket_admin` | one ticket, two requests, every kind of administration | `RowsIntact`, `TicketsFollowPolicy` |
| `maintenance` | one ticket presented on two devices by two calls, a session, restarts, fair | `MaintenanceInv` (the flag is exact, accepted redemptions are one call's alone), `ShellAuthorised`, `OldSessionsClosed`, `KeepsPromise`, `BrokerReleased` |
| `host_trust` | two tasks, two hosts, two keys, two changes of identity, each store | `TrustInv` (the lock, the known hosts and where they come from, no pairing process left), `ChangedKeyBlocked`, `PinsSurvive` |
| `usage` | two sessions over two days of three minutes, every access window, one kind of fault | `WindowIsCyclic` and `LimitIsReal` (the pure part of `PolicyStatus` against a reference), `AllowanceKept`, `UsageInv` |
| `accounts` | one account, two requests, two sessions, one handoff | `AccountsInv` (failed attempts exceed the limit by overlapping requests at most), `PasswordAsSet`, `SignedOut`, `DeadStaysDead`, `KeepsPromise` |
| `enrolment` | two kiosks, tokens and identifiers | `EnrolmentInv` (one kiosk per device, silence of disabled devices, each credential in one place), `KeepsPromise` |
| `launcher` | two connections, one session, two requests under way, users who come and go, fair | `SignedOutIsLocked`, `LauncherInv` (the connecting screen has a card that can end it), `ConnectingScreenLeft` |
| `disabled_user_denied` | one ticket | ends with a counterexample, see below |

### Where the documents and the code disagree

`disabled_user_denied`: a ticket of a user who has been disabled meanwhile is
still honoured until it expires, because `RedeemLaunchTicket` does not look at
`users.enabled`; `findings` in `PROJECT.json` quotes the sentence.

### What the models show besides

The following behaviours of the code are in the models, and the properties are
stated so that they say what holds beside them.

* *Sessions.* `setSession` in `run` overwrites "stopping": a session cancelled
  early looks active again in the table, though its context still ends the client
  (`CancelTakesEffect`). A sink may be suspended after the check that nobody uses
  it, when another session of it has just started (`SoleSessionHasAudio` speaks of
  sessions that are alone). Two window requests for one session that overlap leave
  the mark and the window, or the mark and the sink, as they come last outside the
  mutex: the socket server takes each connection in a goroutine of its own, and only
  the launcher keeps them apart. `HiddenWindowsRestorable` and `SoleSessionHasAudio`
  therefore have `OneCaller` as a premise. The restart without audio keeps the
  minimised mark, the sink and the handle of a window that is gone.
* *Windows.* A card does not always speak of its own window. When the search by pid
  finds nothing, `Minimize` hides the active window and the card remembers that one:
  selecting it restores another session's window, or none of a session's, where the
  repository's `README.md` says that it "restores the same live session". When
  `windowactivate` fails after `windowmap`, the window is visible, its card still says
  minimised and its sink is given back, until `Resume` succeeds. When a session ends, what
  it remembered goes with it: a window of another session that it had hidden stays
  hidden, and that session's own card is not marked. `HiddenWindowsRestorable` says what
  is left: as long as no session has ended, been cancelled or been restarted (`Steady`),
  each hidden window is remembered by some marked card.
* *Tickets.* A change of policy is two statements, and a launch four: a ticket computed
  from the old policy can be inserted after the purge, and a purge that fails goes
  unnoticed. Such a ticket lives for its time to live, and redemption does not ask for
  the policy again. `TicketsFollowPolicy` says that nothing else escapes a change.
* *Maintenance.* `Launch` does not ask the broker, so that a session may be launched
  after the gate was passed and stand beside the shell; `OldSessionsClosed` is
  about the sessions that were there. A shell whose start was reported as failed
  may still open, and one whose state cannot be read is no longer watched.
* *Trust.* Every pairing makes a certificate store with a mutex of its own: of two
  pairings that overlap, the later write can lose the earlier one's pin, and the
  next contact with that host counts as the first (`overlap`).
* *Usage.* Sessions side by side are each given the whole remaining allowance; a
  session that starts in a fraction of the first second of a day is not counted,
  because of the comparison as text; a row whose end is lost, overtakes its start
  or is never reported is charged until it is closed or its day is over.
* *Accounts.* `UpdateOwnProfile` without a new password writes back the hash it
  read, over a reset that came in between; a sign-in verified before a password
  change inserts its session after it. Both need two requests that hold the
  account at once, which is when `wanted` is given up. A reset by an
  administrator revokes no session. Of two requests of one session the one that read
  the clock first may write its expiry last: the session runs out early, and a later
  write of a third brings it back. `DeadStaysDead` says what is final: a sign-out is,
  and so is a session that has run out once no such write is left.
* *Enrolment.* An identifier is never freed, so a kiosk whose answer was lost, or
  whose device was disabled, cannot be enrolled again under its name
  (`docs/pi-deployment.md` tells to re-enrol it). A kill between `Truncate` and
  `Write` leaves an empty credential file.

* *Launcher.* No handler tells a reply to a request of the user before from its own.
  A status, a list of connections or a ticket that arrives after the sign-out is
  applied: the dashboard appears without a user, a session is started after the
  lock and gets a card (`stray`, where `SignedOutIsLocked` stops). A launch that is
  refused or lost leaves its card, without an id, until the sign-out, and the idle
  lock waits as long. If the controller has ended the login meanwhile, `pollAgent`
  leaves the connecting screen where it is while such a card exists. A 401 clears
  the launcher without cancelling the agent's sessions. A status taken before a
  relaunch brings the card of the older session back until the next poll.

Two more differences need no run. `docs/architecture.md` says "Only one
interactive session is admitted"; `Launch` admits any number and a test of the
agent wants that, so `LaunchManager` lets clients of different connections run
side by side. A device revoked between its authentication and the redeeming
transaction of the same request still gets its manifest.

### Bounds, and why they are enough

* *Two sessions, two requests, two tickets.* Every race in these parts is
  between two of them (a session and the one that replaces it, two users of one
  sink, two redemptions of one ticket); a third adds no new pair. The theorems
  of section 4 hold for any number.
* *One caller.* The launcher sends one request at a time; `Cancel` of several
  sessions and the steps it owes already overlap with `run` and the timers. The
  theorems hold for any number of callers, but for the two properties with the
  premise `OneCaller`, which say nothing of more.
* *`StopAttempts`* is 1 or 2 where the code has 4: enough for an attempt that
  comes before the client exists and one that comes after.
* *`Protocol`, `Calls`, `Limited`, `Admin`* choose which requests and protocols an
  instance has, so that each run explores one question in full depth. Between
  them the passing runs take every action.
* *`TicketTTL` = 1, `Horizon` = 1 or 2:* a ticket can be used before, at and after
  its expiry.
* *`Maintenance`:* one remote session, one administrator, and one device that may be
  disabled (`Revocable`). A call needs one ticket; what two calls can do to each
  other they do to one ticket or on one device.
* *`HostTrust`:* `MaxRekeys` = 2 lets a host change and change back. The two stores
  share no state, so each behaviour uses one of them (`Mixes`).
* *`Usage`:* two ticks to a second, one second to a minute, three minutes to a day and
  a `Horizon` in the second day reach truncation, both ends of every window and
  midnight. `MaxFaults` = 1: one kind of fault at a time, any number of times. All
  windows are taken with a closed day, because the window is a question of its
  own; the policies with a limit are open all day.
* *`Accounts`:* `Limit`, `Window`, `IdleTime` and `HandoffTTL` are 1, `Horizon` is 1: the
  limit, the window, the expiry of a session and of a handoff are each met on
  both sides. With `Keep` = 0 and this horizon no handoff is purged because of its
  age, only because it was redeemed.
* *`Enrolment`:* two messages on the wire (`MaxWire`) are a request and the repetition
  of it; one tick reaches the expiry of a token.
* *`Launcher`:* two requests under way (`MaxWire`, counted when a click or a timer adds
  one) are a request and what overtakes it: a reply and a sign-out, a launch and a
  poll. The agent starts one session (`MaxSessions`); a launch after it is explored
  up to the refusal of its ticket. The second connection is one whose card waits
  while the other's session ends. Connections are not permuted, because the run
  checks liveness.
* *Symmetry* permutes sessions, callers, connections (in `LaunchManager`), tickets, requests, devices, hosts, keys,
  passwords, kiosks and identifiers, where the modules only compare them; it is not used for
  liveness.
* *`CHECK_DEADLOCK FALSE`:* session ids and tickets run out and nobody has to ask
  for anything, so an instance may come to rest. That no goroutine is left
  waiting for ever is what the liveness properties say instead.

### Fairness

`FairSpec` assumes that a runnable goroutine runs (`run`, and what a goroutine
owes after the mutex), that replies from the controller arrive or fail (the
HTTP client has a timeout of 20 s), that window commands return, and that a
client whose context is done is killed, which `exec.CommandContext` does.
Nothing is assumed of users, of clients, of time limits or of the retry timers:
`CancelTakesEffect` does not depend on a retry hitting its client.

In `Maintenance` the goroutine of a call runs (`Open(c)`), which includes its
timeout of 20 s, and the monitor's ticker finds a unit that stays down. Nothing
is assumed of the controller, of systemd, of the shell or of launchers;
`BrokerReleased` therefore says that the broker is free again or there is a shell.

In `Launcher` replies of the controller and of the agent arrive, a launch also
among status requests that keep coming, and the poll timer fires again and
again (strong fairness: that it has to wait while `MaxWire` requests are under way
is the model's bound, not the code's). Nothing is assumed of users, timeouts or
sessions; `ConnectingScreenLeft` therefore allows the screen to stay while the
agent has a session.

## 4. What is proved

All theorems hold for every value of the constants that satisfies the named
assumptions. They say that names are told apart and that numbers are numbers:

* `ConstantsAssumption`: sessions and callers are different goroutines, `None` is
  nobody, there is at least one stop attempt.
* `StoreAssumption`: a group is neither a user nor a connection (they are rows of
  different tables, which `deleted` keeps in one set), requests and tickets are told
  apart (`outdated` holds both), `None` is no row, the time to live is positive.
* `AccountsAssumption`: the limit, the window and the lifetimes are positive, there
  are finitely many requests at a time, `None` is no session, handoff or password.
* `UsageAssumption`: a second, a minute and a day are not empty, a policy is one that
  `adminUpdate` lets through, and finitely many tickets have been issued.
* `LauncherAssumption`, `EnrolmentAssumption`, `MaintenanceAssumption` and
  `TrustAssumption`: the same kind of facts about their constants.

Every safety invariant, every action property and every refinement that a passing
run checks is a theorem.

**`LaunchManagerProofs`.** `TypeCorrect`, `LaunchInvariant` and its consequences
`RelaunchReplaces`, `NoClientIsOrphaned`, `TerminalIsClientless` and
`NoSessionIsStuck`. None of the four consequences is inductive: that no orphan
client exists depends on whoever removes a session having cancelled it before
(`RemovalIsAnnounced`); that a relaunch replaces depends on the window between
`Redeem`, which lists the duplicates under the mutex, and `CancelDuplicate`,
which acts on the list later (`Superseded` covers it: of two live launches one
is cancelled or on the other's list); that terminal sessions have no client
depends on where their goroutine can be (`StateMatchesRun`,
`ClientInsideRun`). The conjunction is `LaunchInv`. The proof takes one step per
action; lemmas state what a step may change outside the session it serves.

On top of it stand more results, each with an invariant of its own:

* `EventsInOrder`. `EventsInv` ties what has been sent to where the goroutine is; only
  a cancelled session may have a gap, because its context ends the request.
* `SinksReturned`. A loaded sink may be in use, owed by somebody who is about to
  release or suspend it, about to be shown again, or being loaded for a session; the
  invariant `AudioInv` says that there is always one of the four (`Accounted`), and
  when everything has settled only the first is left. It needs that a session which
  has not yet got its sink cannot have been minimised or be about to be removed
  (`Untouched`).
* `HiddenWindowsAreRestorable`. `WindowInv` follows a request through its two checks of
  the table. A window is `Remembered` by a card, or by the one request that has hidden it
  and has not marked its session yet; that request's session is not marked, so nothing
  is overwritten; and a `Resume` carries the handle its session remembers, so the mark
  it clears is of a window that is back (`RequestAgrees`). Marks, handles and hidden
  windows belong to sessions that have started a client (`Begun`), which is why a first
  start disturbs none of it; and no step makes `Steady` true again once it is false.
* `SoleSessionKeepsSound`. `SinkInv` says that as long as no second session has been
  launched nobody owes the sink anything unless the session is minimised. It covers
  every sink state between the steps of `Minimize` and of `Resume`, and rests on a
  cancelled session with a client not being active (`CancelledInactive`).
* `LaunchesAdvance`, `CancelsAreFinal` and `ClientStartsBounded` are the part of a
  liveness argument that is safety. `Rank` orders the places of run over its two
  passes, with and without audio; every step of the goroutine raises it or takes one
  session off the list it replaces, and no step of anybody else lowers it. The second
  pass is the last because a muted run cannot ask about audio again (`PassInv`), from
  which `TwoClientsAtMost` follows. A cancelled session starts no client any more. No
  run checks the first two; that the steps are in fact taken, under the fairness of
  `FairSpec`, stays with TLC.

**`TicketStoreProofs`.** `StoreTypeCorrect`, `StoreInvariant`,
`ManifestReceivedOnce` and `StoreKeepsPromise`. The types already
need `HandlersReady`, because a row is put together from what earlier
statements have read. `DeliveredOnce` is not inductive: a delivery is harmless
only if the manifest is pending in one handler, belongs to a used ticket and
has not arrived (`ManifestsPending`), and a redemption is harmless only if a
received manifest belongs to a used ticket (`ManifestsReceived`), which in turn
rests on deleted ids not being handed out again. The refinement uses the same
invariant: when a handler replies, its manifest leaves the outbox because no
other handler holds it. `RowsStayIntact` needs more than the rows: an event on the
wire and a handler between two statements are about a session that has come as far
as they say (`SessionBacked`, `ReportBacked`; with `RowsIntact` they are `RowsInv`).
`PolicyReachesTickets` needs the same of the launches (`LaunchesFollowPolicy`): one that
has read the policy and is not `outdated` carries the present policy of its user. Most steps leave all of this alone; the lemmas `Quiet`,
`QuietReply`, `QuietCall` and `QuietRequests` say so once.

**`EnrolmentProofs`.** `EnrolmentInvariant` and `TokensKeepPromise`. That no two
kiosks are one device is not inductive: a late answer could bring a second kiosk
the same credential. `CredentialsPending` says that a credential is in one place:
in one answer, one command or one kiosk's file. Most steps hand out nothing
(lemma `NothingHandedOut`), and the few that do move a credential from one place
to the next. The same fact is what the refinement needs when an answer arrives.

**`MaintenanceProofs`.** `MaintenanceInvariant`, `OneShellPerTicket`, `GateHolds` and
`MaintenanceKeepsPromise`. `BrokerExclusive` says that the flag stands for exactly
one `Open` or one monitor; `RequestsOwned` ties what the controller is doing to the
call that asked for it, which even the types need when an agent restarts.
`ShellAuthorised` rests on accepted redemptions belonging to one call each
(`GrantsPending`) and on a ticket that is not used having opened nothing
(`UnusedOpensNothing`): a call that timed out owns no redemption that commits
later. The gate follows from the numbers sessions and calls are given (`Numbered`,
`GateInv`).

**`HostTrustProofs`.** `TrustInvariant`, `ChangedKeysBlocked` and `TrustSurvives`.
`LockMatches` says that the holder of `sshMu` is the one task between its read and
its rename, so an SSH writer's copy is never old and what it adds was seen first or
approved (`KnownHostsEarned`). The pins have no common lock: `PinsEarned` says that
a fresh copy adds one host and that an old copy sets `overlap`, which is where the
two properties stop for pairings. Lemmas `Move` and `MoveRest` cover the steps that
only change where a task is.

**`AccountsProofs`.** `FailuresLimited`, `LastPasswordOpens`, `OthersSignedOut`,
`EndedSessionsStay`, `HandoffKeepsPromise` and `CookieArrivesOnce`. The limit on failed attempts is not
inductive, because an attempt is counted before it is recorded: `AttemptsBounded`
bounds the recorded failures of a window together with the attempts that are past
the count. `HoldersAlone` says that as long as the password is followed one request
holds the account, and has read the present one. `DeadStaysDead` follows from what a
step can do to the row of one session. The refinement needs that a handoff whose
reply is under way is used up and owed one reply (`RepliesOwed`). What the promise is
worth is proved from `SingleUse` alone (`PromiseMeansOnce`): a cookie reaches one
browser at most, and none while its handoff can still be redeemed.

**`LauncherProofs`.** `ScreensHaveSessions` and `SignOutLocks`. A handler is a
composition of operators on the object, so each operator has a lemma: it keeps the
object `Good`, which is the locked kiosk, the connecting screen with its card, and
that only `clearLocalSession` signs out. `Locked` also says that a signed-out kiosk
does not poll. What is under way while nobody is signed in is a sign-in, a cancel
whose answer nobody reads, or `late`; an answer of the last kind is what sets `stray`.

**`UsageProofs`.** `EndsAreRecorded`, `CyclicWindow`, `LimitNeverLifted` and
`DayWithinAllowance`. A sum over a set is a fold in an order that the definition
leaves open. The prover cannot use the library's induction theorems, so `PartialExists`,
`PartialOrder`, `SumBound` and `SumZero` argue from the least size at which they
could fail: sums exist, any element may come first, and values that are bounded have
bounded sums. `RecordInv` says that a session that has begun is on the wire or in the
table, and so is its end. For the allowance `AllowInv` adds, while no fault has
happened: the rows hold the times of the sessions, except for what happens this tick
(`Timed`); one session is open at a time (`Single`); and what is taken up of each day
fits into the allowance together with what the open session may still run
(`Reserved`, where a running session takes up its whole limit and one that is over
what it ran). `UsedIsDue` shows that a launch sees exactly what is taken up:
`CountedFrom` is the comparison of time stamps as text, and is where the first second
of a day has to be left out. Truncation to seconds loses less than a second for each
session, which is the rest of the bound.

**Only model-checked.** The liveness properties `CancelTakesEffect`,
`ReplacementCompletes`, `EndedSessionLeaves`, `BrokerReleased` and
`ConnectingScreenLeft`, because fairness is out of the prover's reach. The type invariants
of `LaunchManager` and `TicketStore` are theorems and need no run.

## 5. What is not modelled

* *The rest of the launcher* (`src/launcher`): minimising and resuming from the
  toolbar, the host-key and audio questions, the wait for maintenance, the
  administration browser, the profile, the clipboard, screen sleep and the QML
  views. The agent's side of the first four is in `LaunchManager` and `Maintenance`.
* *Cryptography*: password hashing, tokens, the vault and the encrypted credentials;
  tokens are unguessable model values, a failure of the vault is a refusal.
* *Pure input and output*: HTML pages, forms and their CSRF tokens, photos,
  settings, audit rows, logs, lists; nothing that is modelled reads them.
* *Start-up*: the migration runner, configuration files other than the
  credential, the controller's `main`, the development seed, deployment scripts.
* *Command lines and discovery*: building arguments, parsing client output, the scan
  of audio devices in `/proc`; each succeeds or fails.
* *Processes*: a pid that is reused while an entry names it, a client that
  survives a signal to its group.
* *The connection's own deadline* on the local socket (10 s), which is shorter than the
  20 s of the request behind it: the launcher may miss an answer, and no state
  depends on whether it got it.

## 6. Plan

1. `LaunchManager` with proofs: done.
2. `SingleUse` and `TicketStore` with the refinement proof: done.
3. `Maintenance`, `HostTrust`, `Usage`, `Accounts`, `Enrolment`, `Launcher`: modelled and
   checked.
4. Proofs of every safety property that a run checks: done.
5. `Launcher`: minimising, the two questions and the maintenance wait.
6. Proofs of the steps of a liveness argument that are safety: done for `LaunchManager`.
7. Still worth having: the same for `Maintenance` and `Launcher`, and properties of the
   composition of `LaunchManager` with `TicketStore`.
