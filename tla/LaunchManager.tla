--------------------------- MODULE LaunchManager ---------------------------
(***************************************************************************)
(* The agent's session manager (agent/internal/launch/launch.go, type      *)
(* Manager) together with the native runner it drives (runner_unix.go).    *)
(*                                                                         *)
(* One goroutine, run, serves each launched session: it redeems the        *)
(* ticket, replaces an older session of the same connection, prepares the  *)
(* command, starts the native client, waits for it and removes the session *)
(* from the table.  Requests on the local socket (Cancel, Minimize,        *)
(* Resume, the two Resolve calls) run concurrently with it in goroutines   *)
(* of their own, here the callers.  Every action below is one critical     *)
(* section of Manager.mu or one call made with the mutex released, so the  *)
(* interleavings are those of the code.                                    *)
(***************************************************************************)
EXTENDS Naturals, Sequences, FiniteSets

CONSTANTS
    Session,       \* ids handed out by Launch
    Connection,    \* connection ids a redeemed manifest can carry
    Sink,          \* PulseAudio sinks the audio helper can prepare
    Caller,        \* goroutines serving requests of the local socket
    Protocol,      \* protocols of the manifests: a subset of AllProtocols
    Calls,         \* local requests the callers make: a subset of AllCalls
    Limited,       \* sessions whose manifest has MaxSessionSeconds > 0
    StopAttempts,  \* attempts of ensureSessionStopped (4 in the code)
    None           \* no connection, no sink, no session

AllProtocols == {"rdp", "vnc", "ssh", "moonlight"}
AllCalls == {"cancel", "cancel_all", "minimize", "resume", "audio", "ssh"}

ASSUME ConstantsAssumption ==
    /\ None \notin Session \cup Connection \cup Sink
    /\ Session \cap Caller = {}
    /\ Protocol \subseteq AllProtocols
    /\ Calls \subseteq AllCalls
    /\ Limited \subseteq Session
    /\ StopAttempts \in Nat \ {0}

Process == Session \cup Caller

VARIABLES
    present,     \* ids in Manager.sessions
    entry,       \* the managedSession of each id, Blank when not present
    reachable,   \* Manager.status.ControllerReachable
    cancelled,   \* sessions whose context has been cancelled
    expired,     \* sessions whose runCtx hit its deadline before any cancel
    pc,          \* where the run goroutine of each session is
    manifest,    \* what Redeem returned to it
    duplicates,  \* older sessions it still has to cancel
    runErr,      \* whether its last Run returned an error
    muted,       \* whether THINPI_AUDIO_DISABLED is in the command's Env
    prepared,    \* sink the audio helper prepared, not yet recorded
    choice,      \* its buffered audio-choice channel
    sent,        \* session events it has put on the wire to the controller
    client,      \* its native client process
    starts,      \* how many client processes it has started
    hidden,      \* sessions whose client window is hidden
    suspended,   \* sinks released by SetAudioSuspended(sink, true)
    stopTimers,  \* pending retries of ensureSessionStopped
    frame,       \* what each goroutine still owes after leaving the mutex
    window       \* the Minimize or Resume call each caller is in

tableVars  == <<present, entry>>
ctxVars    == <<cancelled, expired>>
localVars  == <<manifest, duplicates, runErr, muted, prepared>>
runVars    == <<pc, localVars, sent>>
clientVars == <<client, starts, hidden>>
outVars    == <<suspended, stopTimers>>
env        == <<reachable, ctxVars, choice, clientVars, outVars, window>>
vars == <<present, entry, reachable, cancelled, expired, pc, manifest,
          duplicates, runErr, muted, prepared, choice, sent, client, starts,
          hidden, suspended, stopTimers, frame, window>>

-----------------------------------------------------------------------------
States == {"redeeming_ticket", "preparing", "starting_client", "active",
           "stopping", "error"}

Events == {"session_started", "session_exited", "session_failed"}

\* An active window that belongs to no session, such as the browser of the
\* administration page, and the window of the n-th client of a session.
OtherWindow == <<None, 0>>
Window == (Session \X Nat) \cup {OtherWindow}

\* A managedSession.  pid is the number of the client process it names, and
\* windowState the window that Minimize hid.
Entry == [state: States, connectionID: Connection \cup {None},
          minimized: BOOLEAN, confirmation: {"none", "ssh", "audio"},
          pid: Nat, windowState: Window \cup {None}, pendingSSH: BOOLEAN,
          audioChoice: BOOLEAN, audioSink: Sink \cup {None}]

Blank == [state |-> "redeeming_ticket", connectionID |-> None,
          minimized |-> FALSE, confirmation |-> "none", pid |-> 0,
          windowState |-> None, pendingSSH |-> FALSE, audioChoice |-> FALSE,
          audioSink |-> None]

\* Where a run goroutine can be; "done" once it has returned.
RunPCs == {"unborn", "redeem", "replace", "prepare", "keyChanged",
           "reportKey", "reportFailed", "reportStarted", "activate", "launch",
           "audioReady", "start", "started", "wait", "audioUnavailable",
           "choose", "declined", "restart", "returned", "finish", "done"}

Manifest == [connectionID: Connection \cup {None},
             protocol: Protocol \cup {"none"}]

\* The rest of Cancel, removeSession or releaseAudioIfUnused, in the order
\* the code does it: the suspend decided under the mutex, the sessions to
\* remove, the clients to stop, the sinks to check for release.
Frame == [suspend: Sink \cup {None}, remove: SUBSET Session,
          stop: SUBSET Session, release: SUBSET Sink]

Idle == [suspend |-> None, remove |-> {}, stop |-> {}, release |-> {}]

\* A Minimize or Resume between two of its critical sections.
WindowCall == [step: {"hide", "hidden", "unmute", "show", "shown"},
               id: Session, target: Window, sink: Sink \cup {None}]
NoWindowCall == [step |-> "none", id |-> None, target |-> None, sink |-> None]

TypeOK ==
    /\ present \subseteq Session
    /\ entry \in [Session -> Entry]
    /\ reachable \in BOOLEAN
    /\ cancelled \subseteq Session
    /\ expired \subseteq Session
    /\ pc \in [Session -> RunPCs]
    /\ manifest \in [Session -> Manifest]
    /\ duplicates \in [Session -> SUBSET Session]
    /\ runErr \in [Session -> BOOLEAN]
    /\ muted \in [Session -> BOOLEAN]
    /\ prepared \in [Session -> Sink \cup {None}]
    /\ choice \in [Session -> {"empty", "accept", "decline"}]
    /\ sent \in [Session -> Seq(Events)]
    /\ client \in [Session -> {"none", "running", "exited"}]
    /\ starts \in [Session -> Nat]
    /\ hidden \subseteq Session
    /\ suspended \subseteq Sink
    /\ stopTimers \subseteq Session \X (1..StopAttempts)
    /\ frame \in [Process -> Frame]
    /\ window \in [Caller -> WindowCall \cup {NoWindowCall}]

Init ==
    /\ present = {}
    /\ entry = [s \in Session |-> Blank]
    /\ reachable = TRUE
    /\ cancelled = {}
    /\ expired = {}
    /\ pc = [s \in Session |-> "unborn"]
    /\ manifest = [s \in Session |-> [connectionID |-> None, protocol |-> "none"]]
    /\ duplicates = [s \in Session |-> {}]
    /\ runErr = [s \in Session |-> FALSE]
    /\ muted = [s \in Session |-> FALSE]
    /\ prepared = [s \in Session |-> None]
    /\ choice = [s \in Session |-> "empty"]
    /\ sent = [s \in Session |-> <<>>]
    /\ client = [s \in Session |-> "none"]
    /\ starts = [s \in Session |-> 0]
    /\ hidden = {}
    /\ suspended = Sink
    /\ stopTimers = {}
    /\ frame = [p \in Process |-> Idle]
    /\ window = [p \in Caller |-> NoWindowCall]

-----------------------------------------------------------------------------
(* Helpers on the session table. *)

\* The context that Run and awaitAudioChoice watch is done.
CtxDone(s) == s \in cancelled \cup expired

\* audioSinkInUseLocked, for the table it is called on.
AudioSinkInUse(ids, table, k) ==
    \E s \in ids : /\ table[s].audioSink = k
                   /\ table[s].state = "active"
                   /\ ~table[s].minimized

\* setSession: overwrites the state whatever it was, if the session exists.
SetSession(s, st) ==
    entry' = IF s \in present THEN [entry EXCEPT ![s].state = st] ELSE entry

\* The sink a critical section decides to suspend once it has unlocked.
SuspendAfter(ids, table, k) ==
    IF k # None /\ ~AudioSinkInUse(ids, table, k) THEN k ELSE None

\* The run goroutine of s moves on.
Goto(s, from, to) == pc[s] = from /\ pc' = [pc EXCEPT ![s] = to]

\* Mutant: the goroutine returns and leaves its session behind.
ReturnWithoutRemoval(s) ==
    /\ pc' = [pc EXCEPT ![s] = "done"]
    /\ UNCHANGED frame

\* The session goroutine returns, having arranged the removal of its session:
\* a direct call of removeSession, or time.AfterFunc(2s, removeSession).  The
\* two differ in the delay only.
ReturnAndRemove(s) ==
    /\ pc' = [pc EXCEPT ![s] = "done"]
    /\ frame' = [frame EXCEPT ![s].remove = {s}]

\* controller.SessionEvent with the session's own context: a request whose
\* context is already cancelled is not sent, and nobody looks at the error.
Report(s, event) ==
    sent' = IF s \in cancelled THEN sent
                               ELSE [sent EXCEPT ![s] = Append(@, event)]

\* Mutant: the exit is reported with the session's context.
ReportUnlessCancelled(s, event) == Report(s, event)

\* The same call with context.Background(), which no cancel reaches.
ReportAlways(s, event) == sent' = [sent EXCEPT ![s] = Append(@, event)]

-----------------------------------------------------------------------------
(* What any goroutine does after leaving a critical section. *)

\* audio.SetAudioSuspended(sink, true) with the mutex released.
SuspendSink(p) ==
    /\ frame[p].suspend # None
    /\ suspended' = suspended \cup {frame[p].suspend}
    /\ frame' = [frame EXCEPT ![p].suspend = None]
    /\ UNCHANGED <<tableVars, reachable, ctxVars, runVars, choice,
                   clientVars, stopTimers, window>>

\* Mutant: the session goes and keeps its sink.
RemoveSessionKeepsSink(p, id) ==
    /\ frame[p].suspend = None
    /\ id \in frame[p].remove
    /\ present' = present \ {id}
    /\ entry' = [entry EXCEPT ![id] = Blank]
    /\ frame' = [frame EXCEPT ![p].remove = @ \ {id}]
    /\ UNCHANGED <<env, runVars>>

\* removeSession: the critical section.
RemoveSession(p, id) ==
    /\ frame[p].suspend = None
    /\ id \in frame[p].remove
    /\ present' = present \ {id}
    /\ entry' = [entry EXCEPT ![id] = Blank]
    /\ frame' = [frame EXCEPT ![p].remove = @ \ {id},
                              ![p].suspend = SuspendAfter(present', entry', entry[id].audioSink)]
    /\ UNCHANGED <<env, runVars>>

\* ensureSessionStopped: signals the process group of the registered client
\* and schedules the next attempt.  A pid of a client that is gone, or of none,
\* has no effect.
EnsureSessionStopped(id, attempts) ==
    LET stopping == id \in present /\ entry[id].state = "stopping"
        reached  == stopping /\ entry[id].pid # 0 /\ entry[id].pid = starts[id]
    IN  /\ client' = IF reached /\ client[id] = "running"
                     THEN [client EXCEPT ![id] = "exited"] ELSE client
        /\ stopTimers' = (stopTimers \ {<<id, attempts>>}) \cup
               IF stopping /\ attempts > 1 THEN {<<id, attempts - 1>>} ELSE {}

StopClient(p, id) ==
    /\ frame[p].suspend = None /\ frame[p].remove = {}
    /\ id \in frame[p].stop
    /\ EnsureSessionStopped(id, StopAttempts)
    /\ frame' = [frame EXCEPT ![p].stop = @ \ {id}]
    /\ UNCHANGED <<tableVars, reachable, ctxVars, runVars, choice,
                   starts, hidden, suspended, window>>

\* The 250 ms timer of ensureSessionStopped.
RetryStop(id, attempts) ==
    /\ <<id, attempts>> \in stopTimers
    /\ EnsureSessionStopped(id, attempts)
    /\ UNCHANGED <<tableVars, reachable, ctxVars, runVars, choice,
                   starts, hidden, suspended, frame, window>>

\* releaseAudioIfUnused: the check; the suspend follows outside the mutex.
ReleaseAudioIfUnused(p, k) ==
    /\ frame[p].suspend = None /\ frame[p].remove = {} /\ frame[p].stop = {}
    /\ k \in frame[p].release
    /\ frame' = [frame EXCEPT ![p].release = @ \ {k},
                              ![p].suspend = SuspendAfter(present, entry, k)]
    /\ UNCHANGED <<tableVars, env, runVars>>

\* Mutant: a session that is not active yet is dropped without its cancel().
CancelDropsEarlySessions(p, ids) ==
    LET terminal == {s \in ids : entry[s].state # "active"}
    IN  /\ entry' = [s \in Session |->
                        IF s \in ids THEN [entry[s] EXCEPT !.state = "stopping"]
                                     ELSE entry[s]]
        /\ cancelled' = cancelled \cup (ids \ terminal)
        /\ frame' = [frame EXCEPT ![p] =
               [suspend |-> None, remove |-> terminal, stop |-> ids \ terminal,
                release |-> {}]]

\* Cancel, the critical section, for one id or for every session.  A session
\* in error or waiting for an SSH decision has no client and is removed at
\* once; for the others the client is stopped and run removes them.
Cancel(p, ids) ==
    LET terminal == {s \in ids : entry[s].state = "error" \/ entry[s].pendingSSH}
    IN  /\ entry' = [s \in Session |->
                        IF s \in ids THEN [entry[s] EXCEPT !.state = "stopping"]
                                     ELSE entry[s]]
        /\ cancelled' = cancelled \cup ids
        /\ frame' = [frame EXCEPT ![p] =
               [suspend |-> None, remove |-> terminal, stop |-> ids \ terminal,
                release |-> {entry[s].audioSink : s \in ids} \ {None}]]

-----------------------------------------------------------------------------
(* The run goroutine. *)

\* Launch: never refuses.
Launch(s) ==
    /\ Goto(s, "unborn", "redeem")
    /\ present' = present \cup {s}
    /\ entry' = [entry EXCEPT ![s] = Blank]
    /\ UNCHANGED <<env, localVars, sent, frame>>

RedeemFails(s) ==
    /\ pc[s] = "redeem"
    /\ reachable' = FALSE
    /\ SetSession(s, "error")
    /\ ReturnAndRemove(s)
    /\ UNCHANGED <<present, ctxVars, localVars, choice, sent, clientVars,
                   outVars, window>>

\* Mutant: only the active sessions of the connection are replaced.
RedeemReplacesActiveOnly(s, c, protocol) ==
    /\ Goto(s, "redeem", "replace")
    /\ reachable' = TRUE
    /\ manifest' = [manifest EXCEPT ![s] = [connectionID |-> c, protocol |-> protocol]]
    /\ entry' = IF s \in present THEN [entry EXCEPT ![s].connectionID = c] ELSE entry
    /\ duplicates' = [duplicates EXCEPT ![s] =
           {d \in present \ {s} : /\ entry[d].connectionID = c
                                  /\ entry[d].state = "active"}]
    /\ UNCHANGED <<present, ctxVars, runErr, muted, prepared, choice,
                   sent, clientVars, outVars, frame, window>>

\* Redeem succeeds; one critical section records the connection and collects
\* the other sessions of the same connection that are not stopping.
Redeem(s, c, protocol) ==
    /\ Goto(s, "redeem", "replace")
    /\ reachable' = TRUE
    /\ manifest' = [manifest EXCEPT ![s] = [connectionID |-> c, protocol |-> protocol]]
    /\ entry' = IF s \in present THEN [entry EXCEPT ![s].connectionID = c] ELSE entry
    /\ duplicates' = [duplicates EXCEPT ![s] =
           {d \in present \ {s} : /\ entry[d].connectionID = c
                                  /\ entry[d].state # "stopping"}]
    /\ UNCHANGED <<present, ctxVars, runErr, muted, prepared, choice,
                   sent, clientVars, outVars, frame, window>>

\* Mutant: a duplicate stays on the list until its Cancel succeeds.
CancelDuplicateUntilSuccess(s, d) ==
    /\ pc[s] = "replace" /\ frame[s] = Idle
    /\ d \in duplicates[s] \cap present
    /\ duplicates' = [duplicates EXCEPT ![s] = @ \ {d}]
    /\ Cancel(s, {d})
    /\ UNCHANGED <<present, reachable, expired, pc, manifest, runErr,
                   muted, prepared, choice, sent, clientVars,
                   outVars, window>>

\* The loop over the duplicates; Cancel of a session that is gone is an error
\* the loop ignores.
CancelDuplicate(s, d) ==
    /\ pc[s] = "replace" /\ frame[s] = Idle
    /\ d \in duplicates[s]
    /\ duplicates' = [duplicates EXCEPT ![s] = @ \ {d}]
    /\ IF d \in present THEN Cancel(s, {d})
                        ELSE UNCHANGED <<entry, cancelled, frame>>
    /\ UNCHANGED <<present, reachable, expired, pc, manifest, runErr,
                   muted, prepared, choice, sent, clientVars,
                   outVars, window>>

Prepare(s) ==
    /\ Goto(s, "replace", "prepare")
    /\ frame[s] = Idle /\ duplicates[s] = {}
    /\ SetSession(s, "preparing")
    /\ UNCHANGED <<present, env, localVars, sent, frame>>

\* sshTrust.Prepare reports a changed host key (the store itself is another
\* module's subject).
HostKeyChanges(s) ==
    /\ Goto(s, "prepare", "keyChanged")
    /\ manifest[s].protocol = "ssh"
    /\ UNCHANGED <<tableVars, env, localVars, sent, frame>>

\* Mutant: run goes on after asking about the host key.
AskHostKeyAndGoOn(s) ==
    /\ Goto(s, "keyChanged", "reportStarted")
    /\ entry' = IF s \in present
                THEN [entry EXCEPT ![s].pendingSSH = TRUE,
                                   ![s].confirmation = "ssh"]
                ELSE entry
    /\ UNCHANGED <<present, env, localVars, sent, frame>>

\* The session is left in the table, in error, until somebody decides.
AskHostKey(s) ==
    /\ Goto(s, "keyChanged", "reportKey")
    /\ entry' = IF s \in present
                THEN [entry EXCEPT ![s].pendingSSH = TRUE, ![s].state = "error",
                                   ![s].confirmation = "ssh"]
                ELSE entry
    /\ UNCHANGED <<present, env, localVars, sent, frame>>

ReportKeyChanged(s) ==
    /\ Goto(s, "reportKey", "done")
    /\ Report(s, "session_failed")
    /\ UNCHANGED <<tableVars, env, localVars, frame>>

\* The key scan fails, or commandFor refuses the manifest.
PrepareFails(s) ==
    /\ Goto(s, "prepare", "reportFailed")
    /\ SetSession(s, "error")
    /\ UNCHANGED <<present, env, localVars, sent, frame>>

ReportFailed(s) ==
    /\ pc[s] = "reportFailed"
    /\ Report(s, "session_failed")
    /\ ReturnAndRemove(s)
    /\ UNCHANGED <<tableVars, env, localVars>>

\* commandFor succeeds.
Starting(s) ==
    /\ Goto(s, "prepare", "reportStarted")
    /\ SetSession(s, "starting_client")
    /\ UNCHANGED <<present, env, localVars, sent, frame>>

ReportStarted(s) ==
    /\ Goto(s, "reportStarted", "activate")
    /\ Report(s, "session_started")
    /\ UNCHANGED <<tableVars, env, localVars, frame>>

\* setSession(Active) and the call of runner.Run.
Activate(s) ==
    /\ Goto(s, "activate", "launch")
    /\ SetSession(s, "active")
    /\ UNCHANGED <<present, env, localVars, sent, frame>>

\* While runCtx exists; on the way to a muted second Run too.
RunPhases == {"launch", "audioReady", "start", "started", "wait",
              "audioUnavailable", "choose", "restart", "returned", "finish"}

\* The deadline of runCtx passes.
Expire(s) ==
    /\ s \in Limited
    /\ \/ pc[s] \in RunPhases
       \/ pc[s] = "activate" /\ muted[s]
    /\ ~CtxDone(s)
    /\ expired' = expired \cup {s}
    /\ UNCHANGED <<tableVars, reachable, cancelled, runVars, choice,
                   clientVars, outVars, frame, window>>

-----------------------------------------------------------------------------
(* PlatformRunner.Run, called by the run goroutine of s. *)

\* Run returns an error that is not the recoverable audio one: pairing, the
\* protected files, the password filter or the start of the process failed.
\* exec refuses to start a process once the context is done.
RunFails(s) ==
    /\ pc[s] \in {"launch", "start"}
    /\ pc' = [pc EXCEPT ![s] = "returned"]
    /\ runErr' = [runErr EXCEPT ![s] = TRUE]
    /\ UNCHANGED <<tableVars, env, manifest, duplicates, muted, prepared,
                   sent, frame>>

\* prepareMoonlightAudio runs the helper, which loads and resumes the sink.
PrepareAudio(s, k) ==
    /\ Goto(s, "launch", "audioReady")
    /\ manifest[s].protocol = "moonlight" /\ ~muted[s]
    /\ suspended' = suspended \ {k}
    /\ prepared' = [prepared EXCEPT ![s] = k]
    /\ UNCHANGED <<tableVars, reachable, ctxVars, manifest, duplicates,
                   runErr, muted, choice, sent, clientVars,
                   stopTimers, frame, window>>

\* OnAudioReady: only now does the table know who uses the sink.
AudioReady(s) ==
    /\ Goto(s, "audioReady", "start")
    /\ entry' = IF s \in present
                THEN [entry EXCEPT ![s].audioSink = prepared[s]] ELSE entry
    /\ prepared' = [prepared EXCEPT ![s] = None]
    /\ UNCHANGED <<present, env, manifest, duplicates, runErr, muted, sent,
                   frame>>

\* No sink of ThinPi's own: another protocol, another platform, or audio off.
WithoutSink(s) ==
    /\ Goto(s, "launch", "start")
    /\ UNCHANGED <<tableVars, env, localVars, sent, frame>>

\* Mutant: the client that could not open its device is left running.
AudioFailsLeavesClient(s) ==
    /\ manifest[s].protocol = "moonlight"
    /\ pc[s] = "wait" /\ ~muted[s] /\ ~CtxDone(s)
    /\ pc' = [pc EXCEPT ![s] = "audioUnavailable"]
    /\ UNCHANGED <<tableVars, env, localVars, sent, frame>>

\* Mutant: the answer is asked for again after the restart.
AudioFailsAsksAgain(s) ==
    /\ \/ pc[s] = "launch" /\ ~muted[s] /\ manifest[s].protocol = "moonlight"
       \/ pc[s] = "wait" /\ (client[s] = "exited" \/ manifest[s].protocol = "moonlight")
    /\ client' = IF pc[s] = "wait" THEN [client EXCEPT ![s] = "exited"] ELSE client
    /\ pc' = [pc EXCEPT ![s] = "audioUnavailable"]
    /\ UNCHANGED <<tableVars, reachable, ctxVars, localVars, choice, sent,
                   starts, hidden, outVars, frame, window>>

\* Run returns AudioUnavailableError: from the preparation, from a Moonlight
\* client whose output says so and that is stopped for it, or from any client
\* that has ended and whose output is classified so.  run asks the user only
\* the first time, and only while the context is live.
AudioFails(s) ==
    /\ \/ pc[s] = "launch" /\ ~muted[s] /\ manifest[s].protocol = "moonlight"
       \/ pc[s] = "wait" /\ (client[s] = "exited" \/ manifest[s].protocol = "moonlight")
    /\ client' = IF pc[s] = "wait" THEN [client EXCEPT ![s] = "exited"] ELSE client
    /\ IF muted[s] \/ CtxDone(s)
       THEN /\ pc' = [pc EXCEPT ![s] = "returned"]
            /\ runErr' = [runErr EXCEPT ![s] = TRUE]
       ELSE /\ pc' = [pc EXCEPT ![s] = "audioUnavailable"]
            /\ UNCHANGED runErr
    /\ UNCHANGED <<tableVars, reachable, ctxVars, manifest, duplicates,
                   muted, prepared, choice, sent, starts, hidden,
                   outVars, frame, window>>

\* cmd.Start: fails (RunFails) when the context is done.
StartClient(s) ==
    /\ Goto(s, "start", "started")
    /\ ~CtxDone(s)
    /\ client' = [client EXCEPT ![s] = "running"]
    /\ starts' = [starts EXCEPT ![s] = @ + 1]
    /\ hidden' = hidden \ {s}
    /\ UNCHANGED <<tableVars, reachable, ctxVars, localVars, choice,
                   sent, outVars, frame, window>>

\* OnStarted.
RegisterPid(s) ==
    /\ Goto(s, "started", "wait")
    /\ entry' = IF s \in present THEN [entry EXCEPT ![s].pid = starts[s]] ELSE entry
    /\ UNCHANGED <<present, env, localVars, sent, frame>>

\* The client process ends by itself (logoff, closed window, crash).
ClientExits(s) ==
    /\ client[s] = "running"
    /\ client' = [client EXCEPT ![s] = "exited"]
    /\ UNCHANGED <<tableVars, reachable, ctxVars, runVars, choice,
                   starts, hidden, outVars, frame, window>>

\* Mutant: the client is not tied to the context.
ContextIgnored(s) == FALSE /\ client[s] = "running" /\ UNCHANGED vars

\* cmd.Cancel: the context's watcher terminates the process group.
ContextStopsClient(s) ==
    /\ client[s] = "running" /\ CtxDone(s)
    /\ client' = [client EXCEPT ![s] = "exited"]
    /\ UNCHANGED <<tableVars, reachable, ctxVars, runVars, choice,
                   starts, hidden, outVars, frame, window>>

\* cmd.Wait returns and Run classifies the outcome.
ClientReturns(s, err) ==
    /\ Goto(s, "wait", "returned")
    /\ client[s] = "exited"
    /\ runErr' = [runErr EXCEPT ![s] = err]
    /\ UNCHANGED <<tableVars, env, manifest, duplicates, muted, prepared,
                   sent, frame>>

-----------------------------------------------------------------------------
(* After Run. *)

\* awaitAudioChoice, the critical section.
AskAudioChoice(s) ==
    /\ pc[s] = "audioUnavailable"
    /\ IF s \in present
       THEN /\ entry' = [entry EXCEPT ![s].audioChoice = TRUE,
                                      ![s].state = "error",
                                      ![s].confirmation = "audio"]
            /\ pc' = [pc EXCEPT ![s] = "choose"]
            /\ UNCHANGED runErr
       ELSE /\ pc' = [pc EXCEPT ![s] = "returned"]
            /\ runErr' = [runErr EXCEPT ![s] = TRUE]
            /\ UNCHANGED entry
    /\ UNCHANGED <<present, env, manifest, duplicates, muted, prepared,
                   sent, frame>>

\* The select of awaitAudioChoice takes the answer.
TakeAudioChoice(s) ==
    /\ pc[s] = "choose" /\ choice[s] # "empty"
    /\ entry' = IF s \in present
                THEN [entry EXCEPT ![s].audioChoice = FALSE,
                                   ![s].confirmation = "none"]
                ELSE entry
    /\ pc' = [pc EXCEPT ![s] = IF choice[s] = "accept" THEN "restart" ELSE "declined"]
    /\ choice' = [choice EXCEPT ![s] = "empty"]
    /\ UNCHANGED <<present, reachable, ctxVars, localVars, sent,
                   clientVars, outVars, frame, window>>

\* The select takes ctx.Done(); the question stays on the session.
AbandonAudioChoice(s) ==
    /\ Goto(s, "choose", "returned")
    /\ CtxDone(s)
    /\ runErr' = [runErr EXCEPT ![s] = TRUE]
    /\ UNCHANGED <<tableVars, env, manifest, duplicates, muted, prepared,
                   sent, frame>>

AudioDeclined(s) ==
    /\ pc[s] = "declined"
    /\ ReportAlways(s, "session_exited")
    /\ ReturnAndRemove(s)
    /\ UNCHANGED <<tableVars, env, localVars>>

\* Continue without audio: back through Activate to a second Run.
RestartMuted(s) ==
    /\ Goto(s, "restart", "activate")
    /\ muted' = [muted EXCEPT ![s] = TRUE]
    /\ SetSession(s, "starting_client")
    /\ UNCHANGED <<present, env, manifest, duplicates, runErr, prepared,
                   sent, frame>>

ReportExited(s) ==
    /\ Goto(s, "returned", "finish")
    /\ ReportAlways(s, "session_exited")
    /\ UNCHANGED <<tableVars, env, localVars, frame>>

\* The contexts are read again after the report: time limit, failure nobody
\* asked for, or the ordinary end.
Finish(s) ==
    /\ pc[s] = "finish"
    /\ SetSession(s, IF s \in expired \/ (runErr[s] /\ s \notin cancelled)
                     THEN "error" ELSE "stopping")
    /\ ReturnAndRemove(s)
    /\ UNCHANGED <<present, env, localVars, sent>>

-----------------------------------------------------------------------------
(* Requests of the local socket. *)

Free(p) == frame[p] = Idle /\ window[p] = NoWindowCall

CancelSession(p, id) ==
    /\ "cancel" \in Calls /\ Free(p)
    /\ id \in present
    /\ Cancel(p, {id})
    /\ UNCHANGED <<present, reachable, expired, runVars, choice,
                   clientVars, outVars, window>>

\* Cancel with an empty id.
CancelAll(p) ==
    /\ "cancel_all" \in Calls /\ Free(p)
    /\ present # {}
    /\ Cancel(p, present)
    /\ UNCHANGED <<present, reachable, expired, runVars, choice,
                   clientVars, outVars, window>>

\* ResolveAudioUnavailable: the channel is taken under the mutex and written
\* after it; nobody else can see the difference.
ResolveAudioUnavailable(p, id, answer) ==
    /\ "audio" \in Calls /\ Free(p)
    /\ id \in present
    /\ entry[id].audioChoice /\ entry[id].confirmation = "audio"
    /\ entry' = [entry EXCEPT ![id].audioChoice = FALSE]
    /\ choice' = [choice EXCEPT ![id] = answer]
    /\ UNCHANGED <<present, reachable, ctxVars, runVars, clientVars,
                   outVars, frame, window>>

\* ResolveSSHHostKeyChange, declined or accepted by the trust store; when the
\* store refuses, the call returns and nothing changes.
ResolveSSHHostKeyChange(p, id) ==
    /\ "ssh" \in Calls /\ Free(p)
    /\ id \in present
    /\ entry[id].pendingSSH /\ entry[id].confirmation = "ssh"
    /\ frame' = [frame EXCEPT ![p].remove = {id}]
    /\ UNCHANGED <<tableVars, env, runVars>>

\* Mutant: a session that is minimised already can be minimised again.
MinimizeTwice(p, id) ==
    /\ "minimize" \in Calls /\ Free(p)
    /\ id \in present
    /\ entry[id].state = "active" /\ entry[id].pid # 0
    /\ window' = [window EXCEPT ![p] =
           [step |-> "hide", id |-> id, target |-> <<id, entry[id].pid>>,
            sink |-> None]]
    /\ UNCHANGED <<tableVars, reachable, ctxVars, runVars, choice,
                   clientVars, outVars, frame>>

\* Minimize: the first check.  Without a registered pid it is an error.
Minimize(p, id) ==
    /\ "minimize" \in Calls /\ Free(p)
    /\ id \in present
    /\ entry[id].state = "active" /\ ~entry[id].minimized /\ entry[id].pid # 0
    /\ window' = [window EXCEPT ![p] =
           [step |-> "hide", id |-> id, target |-> <<id, entry[id].pid>>,
            sink |-> None]]
    /\ UNCHANGED <<tableVars, reachable, ctxVars, runVars, choice,
                   clientVars, outVars, frame>>

\* windows.Minimize(pid), outside the mutex: hides the visible window found by
\* the pid.  When the search finds none (the client has not opened one yet, has
\* gone, or shows it from another process) it hides the active window instead,
\* whosever it is: a session's, or one that belongs to none.  When that is the
\* launcher, or hiding fails, it is an error.
HideWindow(p) ==
    /\ window[p].step = "hide"
    /\ \/ \E d \in Session \ hidden :
             /\ client[d] = "running"
             /\ hidden' = hidden \cup {d}
             /\ window' = [window EXCEPT ![p] =
                    [@ EXCEPT !.step = "hidden", !.target = <<d, starts[d]>>]]
       \/ /\ window' = [window EXCEPT ![p] =
                    [@ EXCEPT !.step = "hidden", !.target = OtherWindow]]
          /\ UNCHANGED hidden
       \/ /\ window' = [window EXCEPT ![p] = NoWindowCall]
          /\ UNCHANGED hidden
    /\ UNCHANGED <<tableVars, reachable, ctxVars, runVars, choice,
                   client, starts, outVars, frame>>

\* Minimize: the second critical section.
Minimized(p) ==
    LET id == window[p].id IN
    /\ window[p].step = "hidden"
    /\ window' = [window EXCEPT ![p] = NoWindowCall]
    /\ IF id \in present /\ entry[id].state = "active"
       THEN /\ entry' = [entry EXCEPT ![id].windowState = window[p].target,
                                      ![id].minimized = TRUE]
            /\ frame' = [frame EXCEPT ![p].suspend =
                             SuspendAfter(present, entry', entry[id].audioSink)]
       ELSE UNCHANGED <<entry, frame>>
    /\ UNCHANGED <<present, reachable, ctxVars, runVars, choice,
                   clientVars, outVars>>

\* Resume: the first check.
Resume(p, id) ==
    /\ "resume" \in Calls /\ Free(p)
    /\ id \in present
    /\ entry[id].state = "active" /\ entry[id].minimized
    /\ entry[id].windowState # None
    /\ window' = [window EXCEPT ![p] =
                      [step |-> "unmute", id |-> id,
                       target |-> entry[id].windowState, sink |-> entry[id].audioSink]]
    /\ UNCHANGED <<tableVars, reachable, ctxVars, runVars, choice,
                   clientVars, outVars, frame>>

\* Mutant: the sink stays suspended.
ResumeSinkForgotten(p) ==
    /\ window[p].step = "unmute"
    /\ window' = [window EXCEPT ![p].step = "show"]
    /\ UNCHANGED <<tableVars, reachable, ctxVars, runVars, choice,
                   clientVars, outVars, frame>>

\* audio.SetAudioSuspended(sink, false), for the sink read under the mutex.
ResumeSink(p) ==
    /\ window[p].step = "unmute"
    /\ suspended' = suspended \ {window[p].sink}
    /\ window' = [window EXCEPT ![p].step = "show"]
    /\ UNCHANGED <<tableVars, reachable, ctxVars, runVars, choice,
                   clientVars, stopTimers, frame>>

\* windows.Resume(windowState): maps the window that was hidden, if it still
\* exists, and then activates it.  Either may fail, and when the second does the
\* window is back on the screen all the same; Resume gives the sink back and
\* leaves the session marked.
ShowWindow(p) ==
    LET shown == {d \in Session : /\ client[d] = "running"
                                  /\ window[p].target = <<d, starts[d]>>}
    IN
    /\ window[p].step = "show"
    /\ \/ /\ shown # {} \/ window[p].target = OtherWindow
          /\ hidden' = hidden \ shown
          /\ window' = [window EXCEPT ![p].step = "shown"]
          /\ UNCHANGED frame
       \/ /\ hidden' \in {hidden, hidden \ shown}
          /\ window' = [window EXCEPT ![p] = NoWindowCall]
          /\ frame' = [frame EXCEPT ![p].release = {window[p].sink} \ {None}]
    /\ UNCHANGED <<tableVars, reachable, ctxVars, runVars, choice,
                   client, starts, outVars>>

\* Resume: the second critical section.
Resumed(p) ==
    LET id == window[p].id IN
    /\ window[p].step = "shown"
    /\ window' = [window EXCEPT ![p] = NoWindowCall]
    /\ IF id \in present /\ entry[id].state = "active"
       THEN /\ entry' = [entry EXCEPT ![id].minimized = FALSE]
            /\ UNCHANGED frame
       ELSE /\ frame' = [frame EXCEPT ![p].release = {window[p].sink} \ {None}]
            /\ UNCHANGED entry
    /\ UNCHANGED <<present, reachable, ctxVars, runVars, choice,
                   clientVars, outVars>>

-----------------------------------------------------------------------------
\* The steps a goroutine owes after a critical section.
Owed(p) ==
    \/ SuspendSink(p)
    \/ \E id \in Session : RemoveSession(p, id) \/ StopClient(p, id)
    \/ \E k \in Sink : ReleaseAudioIfUnused(p, k)

\* The run goroutine of s, without what the controller, the runner and the
\* user decide for it.
Run(s) ==
    \/ RedeemFails(s)
    \/ \E c \in Connection, protocol \in Protocol : Redeem(s, c, protocol)
    \/ \E d \in Session : CancelDuplicate(s, d)
    \/ Prepare(s) \/ HostKeyChanges(s) \/ AskHostKey(s) \/ ReportKeyChanged(s)
    \/ PrepareFails(s) \/ ReportFailed(s) \/ Starting(s) \/ ReportStarted(s)
    \/ Activate(s) \/ RunFails(s)
    \/ \E k \in Sink : PrepareAudio(s, k)
    \/ AudioReady(s) \/ WithoutSink(s) \/ StartClient(s) \/ RegisterPid(s)
    \/ \E err \in BOOLEAN : ClientReturns(s, err)
    \/ AskAudioChoice(s) \/ TakeAudioChoice(s) \/ AbandonAudioChoice(s)
    \/ AudioDeclined(s) \/ RestartMuted(s) \/ ReportExited(s) \/ Finish(s)

\* A request of the local socket is taken up.
Request(p) ==
    \/ CancelAll(p)
    \/ \E id \in Session :
          \/ CancelSession(p, id)
          \/ \E a \in {"accept", "decline"} : ResolveAudioUnavailable(p, id, a)
          \/ ResolveSSHHostKeyChange(p, id)
          \/ Minimize(p, id)
          \/ Resume(p, id)

\* A Minimize or Resume that is under way goes on.
WindowStep(p) ==
    HideWindow(p) \/ Minimized(p) \/ ResumeSink(p) \/ ShowWindow(p) \/ Resumed(p)

Next ==
    \/ \E s \in Session :
          Launch(s) \/ Run(s) \/ AudioFails(s) \/ Expire(s)
             \/ ClientExits(s) \/ ContextStopsClient(s)
    \/ \E p \in Process : Owed(p)
    \/ \E p \in Caller : Request(p) \/ WindowStep(p)
    \/ \E id \in Session, n \in 1..StopAttempts : RetryStop(id, n)

Spec == Init /\ [][Next]_vars

\* Goroutines that can run do run, replies arrive, and a client whose context
\* is done is killed.  Users, clients, time limits and the retry timers owe
\* nothing.
Fairness ==
    /\ \A s \in Session : WF_vars(Run(s)) /\ WF_vars(ContextStopsClient(s))
    /\ \A p \in Process : WF_vars(Owed(p))
    /\ \A p \in Caller : WF_vars(WindowStep(p))

FairSpec == Spec /\ Fairness

-----------------------------------------------------------------------------
(* Properties. *)

\* A relaunch replaces the session of the same connection: two clients of one
\* connection never run side by side unless one of them has been told to stop
\* (run, "replacing existing connection session").
OneClientPerConnection ==
    \A s, d \in Session :
        /\ s # d
        /\ client[s] = "running" /\ client[d] = "running"
        /\ manifest[s].connectionID = manifest[d].connectionID
        => s \in cancelled \/ d \in cancelled

\* No client outlives its table entry unnoticed: a running client belongs to a
\* session that Status lists and Cancel can reach, or it has been told to stop.
NoOrphanClient ==
    \A s \in Session :
        client[s] = "running" => s \in present \/ s \in cancelled

\* Cancel removes a session in error, or waiting for an SSH decision, without
\* stopping anything; that is safe because such a session has no client.
TerminalHasNoClient ==
    \A s \in present :
        entry[s].state = "error" \/ entry[s].pendingSSH => client[s] # "running"

\* A session whose goroutine has returned stays in the table only while its
\* removal is pending or a changed host key waits for the user.
NoStuckSession ==
    \A s \in present :
        pc[s] = "done" => s \in frame[s].remove \/ entry[s].pendingSSH

\* The controller's accounting sees one failure, or a start and one exit.  No
\* path of run skips the exit or sends it while the client still runs; only a
\* session cancelled in time may report no start, or nothing at all.
EventProtocol ==
    \A s \in Session :
        /\ sent[s] \in {<<>>, <<"session_failed">>, <<"session_started">>,
                        <<"session_exited">>,
                        <<"session_started", "session_exited">>}
        /\ sent[s] = <<"session_exited">> => s \in cancelled
        /\ "session_exited" \in {sent[s][i] : i \in DOMAIN sent[s]}
              => client[s] # "running"
        /\ pc[s] = "done" =>
              \/ sent[s] \in {<<"session_failed">>, <<"session_exited">>,
                              <<"session_started", "session_exited">>}
              \/ sent[s] = <<>> /\ (s \in cancelled \/ manifest[s].protocol = "none")

\* Nothing is under way on the audio outputs.
AudioQuiet ==
    /\ \A p \in Process : frame[p].suspend = None /\ frame[p].release = {}
                                                /\ frame[p].remove = {}
    /\ \A p \in Caller : window[p].step = "none"
    /\ \A s \in Session : pc[s] # "audioReady"

\* Once everything has settled no sink is left loaded for nobody
\* (removeSession, Minimize and releaseAudioIfUnused give it back).
UnusedSinkReleased ==
    AudioQuiet =>
        \A k \in Sink \ suspended :
            \E s \in present : entry[s].audioSink = k /\ ~entry[s].minimized

\* Cancelling ends the client for good, and the session leaves the table, unless
\* the goroutine found a changed host key and left the question there
\* (Cancel, ensureSessionStopped and the context; a cancel is never undone).
CancelTakesEffect ==
    \A s \in Session :
        <>[](s \in cancelled => /\ client[s] # "running"
                                /\ s \in present => entry[s].pendingSSH)

\* A relaunch gets past the sessions it replaces, and each of them leaves the
\* table or waits for a host-key decision (the duplicates loop of run).
ReplacementCompletes ==
    \A s, d \in Session :
        d \in duplicates[s] ~>
            pc[s] # "replace" /\ (d \notin present \/ entry[d].pendingSSH)

\* A client that has ended is taken off the dashboard: its session is removed
\* or asks whether to continue without audio (run after Run returns).
EndedSessionLeaves ==
    \A s \in Session :
        client[s] = "exited" ~> \/ s \notin present
                               \/ pc[s] = "choose"
                               \/ client[s] = "running"

\* Window requests come one after the other, as from a user who waits for each:
\* the server takes every connection in a goroutine of its own, and what two
\* overlapping requests leave behind depends on who comes last outside the mutex.
OneCaller == \A p, q \in Caller : p = q

\* Every session that has had a client is on the dashboard as active, and its
\* first client is running: nothing has ended, failed or been cancelled.
Steady ==
    \A s \in Session : starts[s] > 0 =>
        /\ s \in present /\ entry[s].state = "active"
        /\ client[s] = "running" /\ starts[s] = 1

\* No live window is lost: while nothing has ended, and however many sessions
\* were minimised and restored, each window that Minimize took off the screen is
\* remembered by a card marked minimised, whose Resume would map it.  Minimize
\* may have hidden another session's window (the active one) and Resume may have
\* failed at either of its two commands; that is why it need not be the card of
\* the window's own session.
HiddenWindowsRestorable ==
    OneCaller /\ (\A p \in Caller : window[p].step = "none") /\ Steady =>
        \A d \in hidden : \E s \in present :
            entry[s].minimized /\ entry[s].windowState = <<d, starts[d]>>

\* A session that is the only one so far and is not minimised has its sound
\* once everything has settled, however often it was hidden and restored
\* (Minimize releases the sink and Resume takes it back; with another session
\* or an overlapping request a release decided under the mutex can come after
\* it).
SoleSessionHasAudio ==
    OneCaller /\ AudioQuiet =>
        \A s \in present :
            /\ entry[s].state = "active" /\ ~entry[s].minimized
            /\ client[s] = "running"
            /\ \A d \in Session \ {s} : pc[d] = "unborn"
            => entry[s].audioSink \notin suspended

\* The question about the audio comes once: a session starts its client twice at
\* most, the second time without sound, whatever fails in between and whoever
\* answers (run calls Run a second time only in the branch of its first error).
TwoClientsAtMost ==
    \A s \in Session : starts[s] <= 2 /\ (starts[s] = 2 => muted[s])

-----------------------------------------------------------------------------
(* The inductive invariant behind the safety properties. *)

\* Between Redeem and the return of run.
Live == RunPCs \ {"unborn", "redeem", "reportKey", "done"}

\* Whoever takes a session out of the table has cancelled it first, or its
\* goroutine is past its last client.
RemovalIsAnnounced ==
    /\ \A s \in Session :
          pc[s] \notin {"unborn", "reportKey", "done"} /\ s \notin present
              => s \in cancelled
    /\ \A p \in Process : \A s \in frame[p].remove :
          s \in cancelled \/ pc[s] \in {"reportKey", "done"}

\* Only a goroutine that is leaving has a host-key question or an error on
\* show, and a session that is stopping has been cancelled or is over.
StateMatchesRun ==
    /\ \A s \in Session :
          entry[s].pendingSSH => pc[s] \in {"reportKey", "done"}
    /\ \A s \in present :
          /\ pc[s] = "reportKey" => entry[s].pendingSSH
          /\ entry[s].state = "stopping" => s \in cancelled \/ pc[s] = "done"
          /\ entry[s].state = "error" =>
                pc[s] \in {"reportKey", "reportFailed", "choose", "declined",
                          "restart", "returned", "finish", "done"}

\* Of two launches of one connection that have redeemed, one has been told to
\* stop or is still on the other's list to cancel.
Superseded ==
    /\ \A s \in present : pc[s] \in Live =>
          entry[s].connectionID = manifest[s].connectionID
    /\ \A s \in Session : pc[s] # "replace" => duplicates[s] = {}
    /\ \A s, d \in Session :
          /\ s # d /\ pc[s] \in Live /\ pc[d] \in Live
          /\ manifest[s].connectionID = manifest[d].connectionID
          => \/ s \in cancelled \/ d \in cancelled
             \/ s \in duplicates[d] \/ d \in duplicates[s]

\* A client runs only while its goroutine is inside Run.
ClientInsideRun ==
    \A s \in Session : client[s] = "running" => pc[s] \in {"started", "wait"}

\* Inductive: with TypeOK it holds initially and every step preserves it.
LaunchInv ==
    /\ RemovalIsAnnounced
    /\ StateMatchesRun
    /\ Superseded
    /\ ClientInsideRun
    /\ NoStuckSession
=============================================================================
