------------------------ MODULE LaunchManagerProofs ------------------------
(***************************************************************************)
(* Proofs about LaunchManager, for every number of sessions, connections,  *)
(* sinks and callers: type correctness, and the invariants that a relaunch *)
(* replaces its predecessor, that no client is orphaned, that what Cancel  *)
(* drops at once has no client, that no session is stuck in the table,     *)
(* that events go out in order, that no hidden window is lost, that a      *)
(* sink nobody uses is given back, and that a launch only goes forward and *)
(* a cancel is final.                                                      *)
(***************************************************************************)
EXTENDS LaunchManager, SequenceTheorems, TLAPS

-----------------------------------------------------------------------------
(* Type correctness: lemmas on the updates that several actions share. *)

\* The zero managedSession.
LEMMA BlankIsEntry == Blank \in Entry
  BY DEF Blank, Entry, States

\* A goroutine that owes nothing.
LEMMA IdleIsFrame == Idle \in Frame
  BY DEF Idle, Frame

\* setSession keeps the table typed.
LEMMA SetSessionType ==
    ASSUME entry \in [Session -> Entry],
           NEW s \in Session, NEW st \in States, SetSession(s, st)
    PROVE  entry' \in [Session -> Entry]
  BY DEF SetSession, Entry

\* So does the end of run, for the goroutine and what it owes.
LEMMA ReturnAndRemoveType ==
    ASSUME frame \in [Process -> Frame], pc \in [Session -> RunPCs],
           NEW s \in Session, ReturnAndRemove(s)
    PROVE  pc' \in [Session -> RunPCs] /\ frame' \in [Process -> Frame]
<1>1. pc' \in [Session -> RunPCs]
  BY DEF ReturnAndRemove, RunPCs
<1>2. s \in Process
  BY DEF Process
<1>3. frame' \in [Process -> Frame]
  BY <1>2 DEF ReturnAndRemove, Frame
<1> QED
  BY <1>1, <1>3

\* What a critical section decides to suspend is a sink, or nothing.
LEMMA SuspendAfterType ==
    ASSUME NEW ids, NEW table, NEW k \in Sink \cup {None}
    PROVE  SuspendAfter(ids, table, k) \in Sink \cup {None}
  BY DEF SuspendAfter

\* Cancel keeps the table, the contexts and the frames typed.
LEMMA CancelType ==
    ASSUME entry \in [Session -> Entry], frame \in [Process -> Frame],
           cancelled \subseteq Session,
           NEW p \in Process, NEW ids \in SUBSET Session, Cancel(p, ids)
    PROVE  /\ entry' \in [Session -> Entry]
           /\ cancelled' \subseteq Session
           /\ frame' \in [Process -> Frame]
<1>1. \A s \in Session : [entry[s] EXCEPT !.state = "stopping"] \in Entry
  BY DEF Entry, States
<1>2. entry' \in [Session -> Entry]
  BY <1>1 DEF Cancel
<1>3. {entry[s].audioSink : s \in ids} \ {None} \subseteq Sink
  BY DEF Entry
<1> DEFINE t == {s \in ids : entry[s].state = "error" \/ entry[s].pendingSSH}
<1>4. [suspend |-> None, remove |-> t, stop |-> ids \ t,
       release |-> {entry[s].audioSink : s \in ids} \ {None}] \in Frame
  BY <1>3 DEF Frame
<1>5. frame' \in [Process -> Frame]
  BY <1>4 DEF Cancel
<1> QED
  BY <1>2, <1>5 DEF Cancel

\* A window request under way names a session, and moving it to its next step
\* keeps it well formed.
LEMMA WindowStepType ==
    ASSUME window \in [Caller -> WindowCall \cup {NoWindowCall}],
           NEW p \in Caller, window[p].step # "none"
    PROVE  /\ window[p] \in WindowCall
           /\ \A st \in {"show", "shown"} :
                 [window EXCEPT ![p].step = st]
                     \in [Caller -> WindowCall \cup {NoWindowCall}]
<1>1. window[p] \in WindowCall
  BY DEF NoWindowCall
<1>2. ASSUME NEW st \in {"show", "shown"}
      PROVE  [window EXCEPT ![p].step = st]
                 \in [Caller -> WindowCall \cup {NoWindowCall}]
  <2>1. [window[p] EXCEPT !.step = st] \in WindowCall
    BY <1>1 DEF WindowCall
  <2> QED
    BY <2>1
<1> QED
  BY <1>1, <1>2

\* What hiding does to the requests: its own goes on with what was hidden, or is
\* over.
LEMMA HideEffect ==
    ASSUME TypeOK, NEW p \in Caller, HideWindow(p)
    PROVE  /\ window' \in [Caller -> WindowCall \cup {NoWindowCall}]
           /\ \A q \in Caller \ {p} : window'[q] = window[q]
           /\ \/ window'[p] = NoWindowCall /\ hidden' = hidden
              \/ /\ window'[p].step = "hidden" /\ window'[p].id = window[p].id
                 /\ \/ hidden' = hidden
                    \/ \E d \in Session :
                          /\ client[d] = "running" /\ hidden' = hidden \cup {d}
                          /\ window'[p].target = <<d, starts[d]>>
<1>1. /\ window \in [Caller -> WindowCall \cup {NoWindowCall}]
      /\ window[p] \in WindowCall
  BY WindowStepType DEF HideWindow, TypeOK
<1>2. ASSUME NEW target \in Window,
             window' = [window EXCEPT ![p] = [@ EXCEPT !.step = "hidden", !.target = target]]
      PROVE  /\ window' \in [Caller -> WindowCall \cup {NoWindowCall}]
             /\ \A q \in Caller \ {p} : window'[q] = window[q]
             /\ window'[p].step = "hidden" /\ window'[p].id = window[p].id
             /\ window'[p].target = target
  <2>1. /\ window'[p] = [window[p] EXCEPT !.step = "hidden", !.target = target]
        /\ \A q \in Caller \ {p} : window'[q] = window[q]
    BY <1>1, <1>2
  <2>2. /\ window'[p] \in WindowCall
        /\ window'[p].step = "hidden" /\ window'[p].id = window[p].id
        /\ window'[p].target = target
    BY <1>1, <2>1 DEF WindowCall
  <2> QED
    BY <1>1, <1>2, <2>1, <2>2
<1>3. CASE window' = [window EXCEPT ![p] = NoWindowCall] /\ hidden' = hidden
  BY <1>1, <1>3
<1>4. ASSUME NEW d \in Session, client[d] = "running", hidden' = hidden \cup {d},
             window' = [window EXCEPT ![p] =
                 [@ EXCEPT !.step = "hidden", !.target = <<d, starts[d]>>]]
      PROVE  /\ window' \in [Caller -> WindowCall \cup {NoWindowCall}]
             /\ \A q \in Caller \ {p} : window'[q] = window[q]
             /\ window'[p].step = "hidden" /\ window'[p].id = window[p].id
             /\ window'[p].target = <<d, starts[d]>>
  <2>1. <<d, starts[d]>> \in Window
    BY DEF TypeOK, Window
  <2> QED
    BY <1>2, <1>4, <2>1
<1>5. CASE /\ hidden' = hidden
           /\ window' = [window EXCEPT ![p] =
                  [@ EXCEPT !.step = "hidden", !.target = OtherWindow]]
  BY <1>2, <1>5 DEF Window
<1> QED
  BY <1>3, <1>4, <1>5 DEF HideWindow

\* ensureSessionStopped keeps the clients and its own timers typed.
LEMMA StopType ==
    ASSUME client \in [Session -> {"none", "running", "exited"}],
           stopTimers \subseteq Session \X (1..StopAttempts),
           NEW id \in Session, NEW n \in 1..StopAttempts,
           EnsureSessionStopped(id, n)
    PROVE  /\ client' \in [Session -> {"none", "running", "exited"}]
           /\ stopTimers' \subseteq Session \X (1..StopAttempts)
<1>1. n > 1 => n - 1 \in 1..StopAttempts
  BY ConstantsAssumption
<1>2. client' \in [Session -> {"none", "running", "exited"}]
  BY DEF EnsureSessionStopped
<1>3. stopTimers' \subseteq Session \X (1..StopAttempts)
  BY <1>1 DEF EnsureSessionStopped
<1> QED
  BY <1>2, <1>3

\* Every step keeps the variables within their types.
LEMMA TypeStep == TypeOK /\ [Next]_vars => TypeOK'
<1> SUFFICES ASSUME TypeOK, [Next]_vars PROVE TypeOK'
  OBVIOUS
<1>e. entry \in [Session -> Entry]
  BY DEF TypeOK
<1>f. frame \in [Process -> Frame]
  BY DEF TypeOK
<1>w. window \in [Caller -> WindowCall \cup {NoWindowCall}]
  BY DEF TypeOK
<1>p. pc \in [Session -> RunPCs]
  BY DEF TypeOK
<1>c. cancelled \subseteq Session /\ present \subseteq Session
  BY DEF TypeOK
<1>t. /\ client \in [Session -> {"none", "running", "exited"}]
      /\ stopTimers \subseteq Session \X (1..StopAttempts)
      /\ StopAttempts \in 1..StopAttempts
  BY ConstantsAssumption DEF TypeOK
<1> USE DEF env, tableVars, ctxVars, localVars, runVars, clientVars, outVars
<1>1. ASSUME NEW s \in Session, Launch(s) PROVE TypeOK'
  <2>1. entry' \in [Session -> Entry]
    BY <1>1, <1>e, BlankIsEntry DEF Launch
  <2> QED
    BY <1>1, <2>1 DEF Launch, Goto, RunPCs, TypeOK
<1>2. ASSUME NEW s \in Session, RedeemFails(s) PROVE TypeOK'
  <2>1. entry' \in [Session -> Entry]
    BY <1>2, <1>e, SetSessionType DEF RedeemFails, States
  <2>2. pc' \in [Session -> RunPCs] /\ frame' \in [Process -> Frame]
    BY <1>2, <1>f, <1>p, ReturnAndRemoveType DEF RedeemFails
  <2> QED
    BY <1>2, <2>1, <2>2 DEF RedeemFails, TypeOK
<1>3. ASSUME NEW s \in Session, NEW c \in Connection, NEW protocol \in Protocol,
             Redeem(s, c, protocol)
      PROVE  TypeOK'
  <2>1. entry' \in [Session -> Entry]
    BY <1>3, <1>e DEF Redeem, Entry
  <2>2. manifest' \in [Session -> Manifest]
    BY <1>3 DEF Redeem, Manifest, TypeOK
  <2> QED
    BY <1>3, <2>1, <2>2 DEF Redeem, Goto, RunPCs, TypeOK
<1>4. ASSUME NEW s \in Session, NEW d \in Session,
             CancelDuplicate(s, d)
      PROVE  TypeOK'
  <2>1. s \in Process
    BY DEF Process
  <2>2. entry' \in [Session -> Entry] /\ cancelled' \subseteq Session /\ frame' \in [Process -> Frame]
    BY <1>4, <2>1, <1>e, <1>f, <1>c, CancelType DEF CancelDuplicate
  <2> QED
    BY <1>4, <2>1, <2>2 DEF CancelDuplicate, TypeOK
<1>5. ASSUME NEW s \in Session, Prepare(s) PROVE TypeOK'
  <2>1. entry' \in [Session -> Entry]
    BY <1>5, <1>e, SetSessionType DEF Prepare, States
  <2> QED
    BY <1>5, <2>1 DEF Prepare, Goto, RunPCs, TypeOK
<1>6. ASSUME NEW s \in Session, PrepareFails(s) PROVE TypeOK'
  <2>1. entry' \in [Session -> Entry]
    BY <1>6, <1>e, SetSessionType DEF PrepareFails, States
  <2> QED
    BY <1>6, <2>1 DEF PrepareFails, Goto, RunPCs, TypeOK
<1>7. ASSUME NEW s \in Session, Starting(s) PROVE TypeOK'
  <2>1. entry' \in [Session -> Entry]
    BY <1>7, <1>e, SetSessionType DEF Starting, States
  <2> QED
    BY <1>7, <2>1 DEF Starting, Goto, RunPCs, TypeOK
<1>8. ASSUME NEW s \in Session, Activate(s) PROVE TypeOK'
  <2>1. entry' \in [Session -> Entry]
    BY <1>8, <1>e, SetSessionType DEF Activate, States
  <2> QED
    BY <1>8, <2>1 DEF Activate, Goto, RunPCs, TypeOK
<1>9. ASSUME NEW s \in Session, RestartMuted(s) PROVE TypeOK'
  <2>1. entry' \in [Session -> Entry]
    BY <1>9, <1>e, SetSessionType DEF RestartMuted, States
  <2> QED
    BY <1>9, <2>1 DEF RestartMuted, Goto, RunPCs, TypeOK
<1>10. ASSUME NEW s \in Session, HostKeyChanges(s) PROVE TypeOK'
  BY <1>10 DEF HostKeyChanges, Goto, RunPCs, TypeOK
<1>11. ASSUME NEW s \in Session, WithoutSink(s) PROVE TypeOK'
  BY <1>11 DEF WithoutSink, Goto, RunPCs, TypeOK
<1>12. ASSUME NEW s \in Session, AbandonAudioChoice(s) PROVE TypeOK'
  BY <1>12 DEF AbandonAudioChoice, Goto, RunPCs, TypeOK
<1>13. ASSUME NEW s \in Session, AskHostKey(s) PROVE TypeOK'
  <2>1. [entry[s] EXCEPT !.pendingSSH = TRUE, !.state = "error", !.confirmation = "ssh"] \in Entry
    BY <1>e DEF Entry, States
  <2>2. entry' \in [Session -> Entry]
    BY <1>13, <1>e, <2>1 DEF AskHostKey
  <2> QED
    BY <1>13, <2>1, <2>2 DEF AskHostKey, Goto, RunPCs, TypeOK
<1>14. ASSUME NEW s \in Session, ReportKeyChanged(s) PROVE TypeOK'
  BY <1>14 DEF ReportKeyChanged, Report, Events, Goto, RunPCs, TypeOK
<1>15. ASSUME NEW s \in Session, ReportStarted(s) PROVE TypeOK'
  BY <1>15 DEF ReportStarted, Report, Events, Goto, RunPCs, TypeOK
<1>16. ASSUME NEW s \in Session, ReportExited(s) PROVE TypeOK'
  BY <1>16 DEF ReportExited, ReportAlways, Events, Goto, RunPCs, TypeOK
<1>17. ASSUME NEW s \in Session, ReportFailed(s) PROVE TypeOK'
  <2>1. pc' \in [Session -> RunPCs] /\ frame' \in [Process -> Frame]
    BY <1>17, <1>f, <1>p, ReturnAndRemoveType DEF ReportFailed
  <2>2. sent' \in [Session -> Seq(Events)]
    BY <1>17 DEF ReportFailed, Report, Events, TypeOK
  <2> QED
    BY <1>17, <2>1, <2>2 DEF ReportFailed, TypeOK
<1>18. ASSUME NEW s \in Session, AudioDeclined(s) PROVE TypeOK'
  <2>1. pc' \in [Session -> RunPCs] /\ frame' \in [Process -> Frame]
    BY <1>18, <1>f, <1>p, ReturnAndRemoveType DEF AudioDeclined
  <2>2. sent' \in [Session -> Seq(Events)]
    BY <1>18 DEF AudioDeclined, ReportAlways, Events, TypeOK
  <2> QED
    BY <1>18, <2>1, <2>2 DEF AudioDeclined, TypeOK
<1>19. ASSUME NEW s \in Session, Expire(s) PROVE TypeOK'
  BY <1>19 DEF Expire, TypeOK
<1>20. ASSUME NEW s \in Session, RunFails(s) PROVE TypeOK'
  BY <1>20 DEF RunFails, RunPCs, TypeOK
<1>21. ASSUME NEW s \in Session, NEW k \in Sink,
              PrepareAudio(s, k)
       PROVE  TypeOK'
  BY <1>21 DEF PrepareAudio, Goto, RunPCs, TypeOK
<1>22. ASSUME NEW s \in Session, AudioReady(s) PROVE TypeOK'
  <2>1. entry' \in [Session -> Entry]
    <3>1. prepared[s] \in Sink \cup {None}
      BY DEF TypeOK
    <3> QED
      BY <1>22, <1>e, <3>1 DEF AudioReady, Entry
  <2> QED
    BY <1>22, <2>1 DEF AudioReady, Goto, RunPCs, TypeOK
<1>23. ASSUME NEW s \in Session, AudioFails(s) PROVE TypeOK'
  BY <1>23 DEF AudioFails, RunPCs, TypeOK
<1>24. ASSUME NEW s \in Session, StartClient(s) PROVE TypeOK'
  BY <1>24 DEF StartClient, Goto, RunPCs, TypeOK
<1>25. ASSUME NEW s \in Session, RegisterPid(s) PROVE TypeOK'
  <2>1. starts[s] \in Nat
    BY DEF TypeOK
  <2>2. entry' \in [Session -> Entry]
    BY <1>25, <1>e, <2>1 DEF RegisterPid, Entry
  <2> QED
    BY <1>25, <2>1, <2>2 DEF RegisterPid, Goto, RunPCs, TypeOK
<1>26. ASSUME NEW s \in Session, ClientExits(s) PROVE TypeOK'
  BY <1>26 DEF ClientExits, TypeOK
<1>27. ASSUME NEW s \in Session, ContextStopsClient(s) PROVE TypeOK'
  BY <1>27 DEF ContextStopsClient, TypeOK
<1>28. ASSUME NEW s \in Session, NEW err \in BOOLEAN,
              ClientReturns(s, err)
       PROVE  TypeOK'
  BY <1>28 DEF ClientReturns, Goto, RunPCs, TypeOK
<1>29. ASSUME NEW s \in Session, AskAudioChoice(s) PROVE TypeOK'
  <2>1. [entry[s] EXCEPT !.audioChoice = TRUE, !.state = "error", !.confirmation = "audio"] \in Entry
    BY <1>e DEF Entry, States
  <2>2. entry' \in [Session -> Entry]
    BY <1>29, <1>e, <2>1 DEF AskAudioChoice
  <2>3. /\ pc' \in [Session -> RunPCs]
        /\ runErr' \in [Session -> BOOLEAN]
    BY <1>29 DEF AskAudioChoice, TypeOK, RunPCs
  <2> QED
    BY <1>29, <2>1, <2>2, <2>3 DEF AskAudioChoice, TypeOK
<1>30. ASSUME NEW s \in Session, TakeAudioChoice(s) PROVE TypeOK'
  <2>1. [entry[s] EXCEPT !.audioChoice = FALSE, !.confirmation = "none"] \in Entry
    BY <1>e DEF Entry
  <2>2. entry' \in [Session -> Entry]
    BY <1>30, <1>e, <2>1 DEF TakeAudioChoice
  <2> QED
    BY <1>30, <2>1, <2>2 DEF TakeAudioChoice, RunPCs, TypeOK
<1>31. ASSUME NEW s \in Session, Finish(s) PROVE TypeOK'
  <2>1. entry' \in [Session -> Entry]
    BY <1>31, <1>e, SetSessionType DEF Finish, States
  <2>2. pc' \in [Session -> RunPCs] /\ frame' \in [Process -> Frame]
    BY <1>31, <1>f, <1>p, ReturnAndRemoveType DEF Finish
  <2> QED
    BY <1>31, <2>1, <2>2 DEF Finish, TypeOK
<1>32. ASSUME NEW p \in Process, SuspendSink(p) PROVE TypeOK'
  <2>1. frame' \in [Process -> Frame]
    BY <1>32, <1>f DEF SuspendSink, Frame
  <2>2. suspended' \subseteq Sink
    BY <1>32, <1>f DEF SuspendSink, Frame, TypeOK
  <2> QED
    BY <1>32, <2>1, <2>2 DEF SuspendSink, TypeOK
<1>33. ASSUME NEW p \in Process, NEW id \in Session,
              RemoveSession(p, id)
       PROVE  TypeOK'
  <2>1. entry[id].audioSink \in Sink \cup {None}
    BY <1>e DEF Entry
  <2>2. SuspendAfter(present', entry', entry[id].audioSink) \in Sink \cup {None}
    BY <2>1, SuspendAfterType
  <2>3. [frame[p] EXCEPT !.remove = @ \ {id},
                 !.suspend = SuspendAfter(present', entry', entry[id].audioSink)] \in Frame
    BY <1>f, <2>2 DEF Frame
  <2>4. frame' \in [Process -> Frame]
    BY <1>33, <1>f, <2>3 DEF RemoveSession
  <2>5. entry' \in [Session -> Entry]
    BY <1>33, <1>e, BlankIsEntry DEF RemoveSession
  <2> QED
    BY <1>33, <2>1, <2>2, <2>3, <2>4, <2>5 DEF RemoveSession, TypeOK
<1>34. ASSUME NEW p \in Process, NEW id \in Session,
              StopClient(p, id)
       PROVE  TypeOK'
  <2>1. client' \in [Session -> {"none", "running", "exited"}]
      /\ stopTimers' \subseteq Session \X (1..StopAttempts)
    BY <1>34, <1>t, StopType DEF StopClient
  <2>2. frame' \in [Process -> Frame]
    BY <1>34, <1>f DEF StopClient, Frame
  <2> QED
    BY <1>34, <2>1, <2>2 DEF StopClient, TypeOK
<1>35. ASSUME NEW p \in Process, NEW k \in Sink,
              ReleaseAudioIfUnused(p, k)
       PROVE  TypeOK'
  <2>1. SuspendAfter(present, entry, k) \in Sink \cup {None}
    BY SuspendAfterType
  <2>2. [frame[p] EXCEPT !.release = @ \ {k},
                 !.suspend = SuspendAfter(present, entry, k)] \in Frame
    BY <1>f, <2>1 DEF Frame
  <2>3. frame' \in [Process -> Frame]
    BY <1>35, <1>f, <2>2 DEF ReleaseAudioIfUnused
  <2> QED
    BY <1>35, <2>1, <2>2, <2>3 DEF ReleaseAudioIfUnused, TypeOK
<1>36. ASSUME NEW id \in Session, NEW n \in 1..StopAttempts,
              RetryStop(id, n)
       PROVE  TypeOK'
  <2>1. client' \in [Session -> {"none", "running", "exited"}]
      /\ stopTimers' \subseteq Session \X (1..StopAttempts)
    BY <1>36, <1>t, StopType DEF RetryStop
  <2> QED
    BY <1>36, <2>1 DEF RetryStop, TypeOK
<1>37. ASSUME NEW p \in Caller, NEW id \in Session,
              CancelSession(p, id)
       PROVE  TypeOK'
  <2>1. p \in Process
    BY DEF Process
  <2>2. entry' \in [Session -> Entry] /\ cancelled' \subseteq Session /\ frame' \in [Process -> Frame]
    BY <1>37, <2>1, <1>e, <1>f, <1>c, CancelType DEF CancelSession
  <2> QED
    BY <1>37, <2>1, <2>2 DEF CancelSession, TypeOK
<1>38. ASSUME NEW p \in Caller, CancelAll(p) PROVE TypeOK'
  <2>1. p \in Process
    BY DEF Process
  <2>2. entry' \in [Session -> Entry] /\ cancelled' \subseteq Session /\ frame' \in [Process -> Frame]
    BY <1>38, <2>1, <1>e, <1>f, <1>c, CancelType DEF CancelAll
  <2> QED
    BY <1>38, <2>1, <2>2 DEF CancelAll, TypeOK
<1>39. ASSUME NEW p \in Caller, NEW id \in Session,
             NEW a \in {"accept", "decline"}, ResolveAudioUnavailable(p, id, a) PROVE TypeOK'
  <2>0. [entry[id] EXCEPT !.audioChoice = FALSE] \in Entry
    BY <1>e DEF Entry
  <2>1. entry' \in [Session -> Entry]
    BY <1>39, <1>e, <2>0 DEF ResolveAudioUnavailable
  <2> QED
    BY <1>39, <2>1 DEF ResolveAudioUnavailable, TypeOK
<1>40. ASSUME NEW p \in Caller, NEW id \in Session,
              ResolveSSHHostKeyChange(p, id)
       PROVE  TypeOK'
  <2>1. p \in Process
    BY DEF Process
  <2>2. frame' \in [Process -> Frame]
    BY <1>40, <2>1, <1>f DEF ResolveSSHHostKeyChange, Frame
  <2> QED
    BY <1>40, <2>1, <2>2 DEF ResolveSSHHostKeyChange, TypeOK
<1>41. ASSUME NEW p \in Caller, NEW id \in Session,
              Minimize(p, id)
       PROVE  TypeOK'
  <2>1. [step |-> "hide", id |-> id, target |-> <<id, entry[id].pid>>,
         sink |-> None] \in WindowCall
    BY <1>e DEF Entry, WindowCall, Window
  <2>2. window' \in [Caller -> WindowCall \cup {NoWindowCall}]
    BY <1>41, <1>w, <2>1 DEF Minimize
  <2> QED
    BY <1>41, <2>1, <2>2 DEF Minimize, TypeOK
<1>42. ASSUME NEW p \in Caller, HideWindow(p) PROVE TypeOK'
  <2>1. window' \in [Caller -> WindowCall \cup {NoWindowCall}]
    BY <1>42, HideEffect DEF TypeOK
  <2>2. hidden' \subseteq Session
    BY <1>42 DEF HideWindow, TypeOK
  <2> QED
    BY <1>42, <2>1, <2>2 DEF HideWindow, TypeOK
<1>43. ASSUME NEW p \in Caller, Minimized(p) PROVE TypeOK'
  <2>1. p \in Process
    BY DEF Process
  <2>2. window' \in [Caller -> WindowCall \cup {NoWindowCall}]
    BY <1>43, <1>w DEF Minimized
  <2>3. window[p].target \in Window
    BY <1>43, <1>w DEF Minimized, WindowCall, NoWindowCall
  <2>4. CASE window[p].id \in present /\ entry[window[p].id].state = "active"
    <3> DEFINE id == window[p].id
    <3>a. id \in Session /\ entry[id] \in Entry
      BY <1>e, <1>c, <2>4
    <3>1. [entry[id] EXCEPT !.windowState = window[p].target, !.minimized = TRUE] \in Entry
      BY <3>a, <2>3 DEF Entry
    <3>2. entry' \in [Session -> Entry]
      BY <1>43, <1>e, <3>a, <2>4, <3>1 DEF Minimized
    <3>3. entry[id].audioSink \in Sink \cup {None}
      BY <1>e, <1>c, <2>4 DEF Entry
    <3>4. SuspendAfter(present, entry', entry[id].audioSink) \in Sink \cup {None}
      BY <3>3, SuspendAfterType
    <3>5. [frame[p] EXCEPT !.suspend = SuspendAfter(present, entry', entry[id].audioSink)] \in Frame
      BY <1>f, <2>1, <3>4 DEF Frame
    <3>6. frame' \in [Process -> Frame]
      BY <1>43, <1>f, <2>1, <2>4, <3>5 DEF Minimized
    <3> QED
      BY <1>43, <2>2, <3>2, <3>6 DEF Minimized, TypeOK
  <2>5. CASE ~(window[p].id \in present /\ entry[window[p].id].state = "active")
    BY <1>43, <2>2, <2>5 DEF Minimized, TypeOK
  <2> QED
    BY <2>4, <2>5
<1>44. ASSUME NEW p \in Caller, NEW id \in Session, Resume(p, id) PROVE TypeOK'
  <2>1. [step |-> "unmute", id |-> id, target |-> entry[id].windowState,
         sink |-> entry[id].audioSink] \in WindowCall
    BY <1>44, <1>e DEF Resume, Entry, WindowCall
  <2>2. window' \in [Caller -> WindowCall \cup {NoWindowCall}]
    BY <1>44, <1>w, <2>1 DEF Resume
  <2> QED
    BY <1>44, <2>1, <2>2 DEF Resume, TypeOK
<1>45. ASSUME NEW p \in Caller, ResumeSink(p) PROVE TypeOK'
  <2>1. window' \in [Caller -> WindowCall \cup {NoWindowCall}]
    BY <1>45, <1>w, WindowStepType DEF ResumeSink
  <2> QED
    BY <1>45, <2>1 DEF ResumeSink, TypeOK
<1>46. ASSUME NEW p \in Caller, ShowWindow(p) PROVE TypeOK'
  <2>1. p \in Process
    BY DEF Process
  <2>2. window' \in [Caller -> WindowCall \cup {NoWindowCall}]
    <3>1. [window EXCEPT ![p].step = "shown"]
              \in [Caller -> WindowCall \cup {NoWindowCall}]
      BY <1>46, <1>w, WindowStepType DEF ShowWindow
    <3>2. [window EXCEPT ![p] = NoWindowCall]
              \in [Caller -> WindowCall \cup {NoWindowCall}]
      BY <1>w
    <3> QED
      BY <1>46, <3>1, <3>2 DEF ShowWindow
  <2>3. {window[p].sink} \ {None} \subseteq Sink
    BY <1>w DEF WindowCall, NoWindowCall
  <2>4. frame' \in [Process -> Frame]
    BY <1>46, <1>f, <2>1, <2>3 DEF ShowWindow, Frame
  <2>5. hidden' \subseteq Session
    BY <1>46 DEF ShowWindow, TypeOK
  <2> QED
    BY <1>46, <2>1, <2>2, <2>3, <2>4, <2>5 DEF ShowWindow, TypeOK
<1>47. ASSUME NEW p \in Caller, Resumed(p) PROVE TypeOK'
  <2>1. p \in Process
    BY DEF Process
  <2>2. window' \in [Caller -> WindowCall \cup {NoWindowCall}]
    BY <1>47, <1>w DEF Resumed
  <2>3. {window[p].sink} \ {None} \subseteq Sink
    BY <1>w DEF WindowCall, NoWindowCall
  <2>4. entry' \in [Session -> Entry]
    <3> DEFINE id == window[p].id
    <3>1. CASE id \in present /\ entry[id].state = "active"
      <4>1. id \in Session /\ entry[id] \in Entry
        BY <1>e, <1>c, <3>1
      <4>2. [entry[id] EXCEPT !.minimized = FALSE] \in Entry
        BY <4>1 DEF Entry
      <4> QED
        BY <1>47, <1>e, <3>1, <4>1, <4>2 DEF Resumed
    <3>2. CASE ~(id \in present /\ entry[id].state = "active")
      BY <1>47, <1>e, <3>2 DEF Resumed
    <3> QED
      BY <3>1, <3>2
  <2>5. frame' \in [Process -> Frame]
    BY <1>47, <1>f, <2>1, <2>3 DEF Resumed, Frame
  <2> QED
    BY <1>47, <2>1, <2>2, <2>3, <2>4, <2>5 DEF Resumed, TypeOK
<1>48. CASE UNCHANGED vars
  BY <1>48 DEF vars, TypeOK
<1> QED
  BY <1>1, <1>2, <1>3, <1>4, <1>5, <1>6, <1>7, <1>8, <1>9, <1>10, <1>11,
     <1>12, <1>13, <1>14, <1>15, <1>16, <1>17, <1>18, <1>19, <1>20,
     <1>21, <1>22, <1>23, <1>24, <1>25, <1>26, <1>27, <1>28, <1>29,
     <1>30, <1>31, <1>32, <1>33, <1>34, <1>35, <1>36, <1>37, <1>38,
     <1>39, <1>40, <1>41, <1>42, <1>43, <1>44, <1>45, <1>46, <1>47,
     <1>48
     DEF Next, Run, Owed, Request, WindowStep

\* Every variable of the manager keeps its type in every reachable state.
THEOREM TypeCorrect == Spec => []TypeOK
<1>1. Init => TypeOK
  BY ConstantsAssumption, BlankIsEntry, IdleIsFrame
     DEF Init, TypeOK, RunPCs, Manifest
<1> QED
  BY <1>1, TypeStep, PTL DEF Spec

-----------------------------------------------------------------------------
(* The safety invariant.  LaunchInv speaks of the table's states, questions
   and connections, of who is cancelled, where each goroutine is, which
   clients run and which removals are owed.  Four kinds of step cover most
   actions: Quiet ones touch none of that, Moves ones advance one goroutine
   inside run, Leaves ones end it, Cancels ones mark sessions as cancelled. *)

\* The columns of the table that LaunchInv speaks of.

SameRow(s) == /\ entry'[s].state = entry[s].state
              /\ entry'[s].pendingSSH = entry[s].pendingSSH
              /\ entry'[s].connectionID = entry[s].connectionID

\* No client is started.
NoNewClient == \A s \in Session : client'[s] = "running" => client[s] = "running"

\* No goroutine takes on or discharges a removal.
SameRemovals == \A p \in Process : frame'[p].remove = frame[p].remove

\* A step LaunchInv does not notice.
Quiet == /\ UNCHANGED <<present, cancelled, pc, manifest, duplicates>>
         /\ \A s \in Session : SameRow(s)
         /\ NoNewClient
         /\ SameRemovals

\* Where a session may show an error.
ErrorPCs == {"reportKey", "reportFailed", "choose", "declined", "restart",
             "returned", "finish", "done"}

\* The goroutine of s, past its duplicates, goes on to the point to.
Moves(s, to) ==
    /\ pc[s] \in Live /\ to \in Live \ {"replace"}
    /\ pc' = [pc EXCEPT ![s] = to]
    /\ duplicates[s] = {}
    /\ UNCHANGED <<present, cancelled, duplicates>>
    /\ \A x \in Session : manifest'[x].connectionID = manifest[x].connectionID
    /\ \A x \in Session \ {s} : SameRow(x) /\ client'[x] = client[x]
    /\ entry'[s].pendingSSH = entry[s].pendingSSH
    /\ entry'[s].connectionID = entry[s].connectionID
    /\ s \in present /\ entry'[s].state = "error" => to \in ErrorPCs
    /\ entry'[s].state = "stopping" => entry[s].state = "stopping"
    /\ client'[s] = "running" => to \in {"started", "wait"}
    /\ SameRemovals

\* The goroutine of s returns and its session is to be removed.
Leaves(s) ==
    /\ pc[s] \in Live \cup {"redeem"} /\ pc[s] # "replace"
    /\ client[s] # "running"
    /\ pc' = [pc EXCEPT ![s] = "done"]
    /\ UNCHANGED <<present, cancelled, duplicates, manifest>>
    /\ \A x \in Session \ {s} : SameRow(x)
    /\ entry'[s].pendingSSH = entry[s].pendingSSH
    /\ NoNewClient
    /\ \A p \in Process : frame'[p].remove = IF p = s THEN {s} ELSE frame[p].remove

\* Marking the sessions ids as cancelled, on behalf of p.
Cancels(p, ids) ==
    /\ UNCHANGED <<present, pc, manifest, duplicates>>
    /\ cancelled' = cancelled \cup ids
    /\ \A x \in Session \ ids : SameRow(x)
    /\ \A x \in ids : /\ entry'[x].state = "stopping"
                      /\ entry'[x].pendingSSH = entry[x].pendingSSH
                      /\ entry'[x].connectionID = entry[x].connectionID
    /\ NoNewClient
    /\ frame'[p].remove \subseteq ids
    /\ \A q \in Process \ {p} : frame'[q].remove = frame[q].remove

\* A quiet step preserves the invariant.
LEMMA QuietStep == ASSUME TypeOK, LaunchInv, Quiet PROVE LaunchInv'
<1>0. present \subseteq Session
  BY DEF TypeOK
<1> USE DEF Quiet, SameRow, NoNewClient, SameRemovals
<1>1. RemovalIsAnnounced'
  BY DEF LaunchInv, RemovalIsAnnounced
<1>2. StateMatchesRun'
  BY <1>0 DEF LaunchInv, StateMatchesRun
<1>3. Superseded'
  BY <1>0 DEF LaunchInv, Superseded
<1>4. ClientInsideRun'
  BY DEF LaunchInv, ClientInsideRun
<1>5. NoStuckSession'
  BY <1>0 DEF LaunchInv, NoStuckSession, Process
<1> QED
  BY <1>1, <1>2, <1>3, <1>4, <1>5 DEF LaunchInv

\* So does a goroutine that goes on.
LEMMA MovesStep ==
    ASSUME TypeOK, LaunchInv, NEW s \in Session, NEW to, Moves(s, to)
    PROVE  LaunchInv'
<1>0. present \subseteq Session /\ pc \in [Session -> RunPCs]
  BY DEF TypeOK
<1> USE DEF Moves, SameRow, SameRemovals, Live
<1>1. RemovalIsAnnounced'
  BY <1>0 DEF LaunchInv, RemovalIsAnnounced
<1>2. StateMatchesRun'
  BY <1>0 DEF LaunchInv, StateMatchesRun, ErrorPCs
<1>3. Superseded'
  BY <1>0 DEF LaunchInv, Superseded
<1>4. ClientInsideRun'
  BY <1>0 DEF LaunchInv, ClientInsideRun
<1>5. NoStuckSession'
  BY <1>0 DEF LaunchInv, NoStuckSession, Process
<1> QED
  BY <1>1, <1>2, <1>3, <1>4, <1>5 DEF LaunchInv

\* So does a goroutine that returns: it is done, and its removal is owed.
LEMMA LeavesStep ==
    ASSUME TypeOK, LaunchInv, NEW s \in Session, Leaves(s)
    PROVE  LaunchInv'
<1>0. present \subseteq Session /\ pc \in [Session -> RunPCs]
  BY DEF TypeOK
<1> USE DEF Leaves, SameRow, NoNewClient, Live
<1>1. RemovalIsAnnounced'
  BY <1>0 DEF LaunchInv, RemovalIsAnnounced
<1>2. StateMatchesRun'
  BY <1>0 DEF LaunchInv, StateMatchesRun
<1>3. Superseded'
  BY <1>0 DEF LaunchInv, Superseded
<1>4. ClientInsideRun'
  BY <1>0 DEF LaunchInv, ClientInsideRun
<1>5. NoStuckSession'
  BY <1>0 DEF LaunchInv, NoStuckSession, Process
<1> QED
  BY <1>1, <1>2, <1>3, <1>4, <1>5 DEF LaunchInv

\* A session marked as cancelled satisfies every part by itself.  A goroutine
\* that cancels for itself is not done, so its own frame carries no removal.
LEMMA CancelsStep ==
    ASSUME TypeOK, LaunchInv, NEW p \in Process, NEW ids \in SUBSET present,
           Cancels(p, ids), p \in Session => pc[p] # "done"
    PROVE  LaunchInv'
<1>0. present \subseteq Session
  BY DEF TypeOK
<1> USE DEF Cancels, SameRow, NoNewClient
<1>1. RemovalIsAnnounced'
  BY <1>0 DEF LaunchInv, RemovalIsAnnounced
<1>2. StateMatchesRun'
  BY <1>0 DEF LaunchInv, StateMatchesRun
<1>3. Superseded'
  BY <1>0 DEF LaunchInv, Superseded
<1>4. ClientInsideRun'
  BY <1>0 DEF LaunchInv, ClientInsideRun
<1>5. NoStuckSession'
  BY <1>0 DEF LaunchInv, NoStuckSession, Process
<1> QED
  BY <1>1, <1>2, <1>3, <1>4, <1>5 DEF LaunchInv

\* The effects of the code's helpers, pointwise: setSession changes one state.
LEMMA SetSessionEffect ==
    ASSUME entry \in [Session -> Entry], NEW s \in Session, NEW st,
           SetSession(s, st)
    PROVE  /\ \A x \in Session \ {s} : SameRow(x)
           /\ entry'[s].pendingSSH = entry[s].pendingSSH
           /\ entry'[s].connectionID = entry[s].connectionID
           /\ entry'[s].state = IF s \in present THEN st ELSE entry[s].state
  BY DEF SetSession, SameRow, Entry

\* The end of run owes exactly the removal of its own session.
LEMMA ReturnAndRemoveEffect ==
    ASSUME frame \in [Process -> Frame], NEW s \in Session, ReturnAndRemove(s)
    PROVE  \A p \in Process :
               frame'[p].remove = IF p = s THEN {s} ELSE frame[p].remove
  BY DEF ReturnAndRemove, Frame, Process

\* Cancel marks its sessions and schedules removals among them only.
LEMMA CancelEffect ==
    ASSUME entry \in [Session -> Entry], frame \in [Process -> Frame],
           NEW p \in Process, NEW ids \in SUBSET Session, Cancel(p, ids)
    PROVE  /\ cancelled' = cancelled \cup ids
           /\ \A x \in Session \ ids : SameRow(x)
           /\ \A x \in ids : /\ entry'[x].state = "stopping"
                             /\ entry'[x].pendingSSH = entry[x].pendingSSH
                             /\ entry'[x].connectionID = entry[x].connectionID
           /\ frame'[p].remove \subseteq ids
           /\ \A q \in Process \ {p} : frame'[q].remove = frame[q].remove
  BY DEF Cancel, SameRow, Entry, Frame

\* ensureSessionStopped starts no client.
LEMMA StopEffect ==
    ASSUME client \in [Session -> {"none", "running", "exited"}],
           NEW id \in Session, NEW n \in Nat, EnsureSessionStopped(id, n)
    PROVE  NoNewClient
  BY DEF EnsureSessionStopped, NoNewClient

\* Every step of the manager preserves LaunchInv.
LEMMA LaunchInvStep == TypeOK /\ LaunchInv /\ [Next]_vars => LaunchInv'
<1> SUFFICES ASSUME TypeOK, LaunchInv, [Next]_vars PROVE LaunchInv'
  OBVIOUS
<1>e. entry \in [Session -> Entry] /\ present \subseteq Session
  BY DEF TypeOK
<1>f. frame \in [Process -> Frame]
  BY DEF TypeOK
<1>p. pc \in [Session -> RunPCs]
  BY DEF TypeOK
<1>c. client \in [Session -> {"none", "running", "exited"}]
  BY DEF TypeOK
<1>d. \A s \in Session : pc[s] # "replace" => duplicates[s] = {}
  BY DEF LaunchInv, Superseded
<1>i. \A s \in Session : client[s] = "running" => pc[s] \in {"started", "wait"}
  BY DEF LaunchInv, ClientInsideRun
<1>s. \A s \in present : entry[s].state = "error" => pc[s] \in ErrorPCs
  BY DEF LaunchInv, StateMatchesRun, ErrorPCs
<1> USE DEF env, tableVars, ctxVars, localVars, runVars, clientVars, outVars
<1>1. ASSUME NEW s \in Session, Expire(s) PROVE LaunchInv'
  <2>1. Quiet
    BY <1>1 DEF Expire, Quiet, SameRow, NoNewClient, SameRemovals
  <2> QED
    BY <2>1, QuietStep
<1>2. ASSUME NEW p \in Caller, NEW id \in Session,
             Minimize(p, id)
      PROVE  LaunchInv'
  <2>1. Quiet
    BY <1>2 DEF Minimize, Quiet, SameRow, NoNewClient, SameRemovals
  <2> QED
    BY <2>1, QuietStep
<1>3. ASSUME NEW p \in Caller, HideWindow(p) PROVE LaunchInv'
  <2>1. Quiet
    BY <1>3 DEF HideWindow, Quiet, SameRow, NoNewClient, SameRemovals
  <2> QED
    BY <2>1, QuietStep
<1>4. ASSUME NEW p \in Caller, NEW id \in Session,
             Resume(p, id)
      PROVE  LaunchInv'
  <2>1. Quiet
    BY <1>4 DEF Resume, Quiet, SameRow, NoNewClient, SameRemovals
  <2> QED
    BY <2>1, QuietStep
<1>5. ASSUME NEW p \in Caller, ResumeSink(p) PROVE LaunchInv'
  <2>1. Quiet
    BY <1>5 DEF ResumeSink, Quiet, SameRow, NoNewClient, SameRemovals
  <2> QED
    BY <2>1, QuietStep
<1>6. ASSUME NEW s \in Session, ClientExits(s) PROVE LaunchInv'
  <2>1. Quiet
    BY <1>6, <1>c DEF ClientExits, Quiet, SameRow, NoNewClient, SameRemovals
  <2> QED
    BY <2>1, QuietStep
<1>7. ASSUME NEW s \in Session, ContextStopsClient(s) PROVE LaunchInv'
  <2>1. Quiet
    BY <1>7, <1>c
       DEF ContextStopsClient, Quiet, SameRow, NoNewClient, SameRemovals
  <2> QED
    BY <2>1, QuietStep
<1>8. ASSUME NEW p \in Caller, NEW id \in Session, NEW a \in {"accept", "decline"},
             ResolveAudioUnavailable(p, id, a)
      PROVE  LaunchInv'
  <2>1. Quiet
    BY <1>8, <1>e
       DEF ResolveAudioUnavailable, Quiet, SameRow, NoNewClient,
           SameRemovals, Entry
  <2> QED
    BY <2>1, QuietStep
<1>9. ASSUME NEW p \in Process, SuspendSink(p) PROVE LaunchInv'
  <2>1. SameRemovals
    BY <1>9, <1>f DEF SuspendSink, SameRemovals, Frame
  <2>2. Quiet
    BY <1>9, <2>1 DEF SuspendSink, Quiet, SameRow, NoNewClient
  <2> QED
    BY <2>2, QuietStep
<1>10. ASSUME NEW p \in Process, NEW k \in Sink,
              ReleaseAudioIfUnused(p, k)
       PROVE  LaunchInv'
  <2>1. SameRemovals
    BY <1>10, <1>f DEF ReleaseAudioIfUnused, SameRemovals, Frame
  <2>2. Quiet
    BY <1>10, <2>1 DEF ReleaseAudioIfUnused, Quiet, SameRow, NoNewClient
  <2> QED
    BY <2>2, QuietStep
<1>11. ASSUME NEW p \in Caller, ShowWindow(p) PROVE LaunchInv'
  <2>0. p \in Process
    BY DEF Process
  <2>1. SameRemovals
    BY <1>11, <2>0, <1>f DEF ShowWindow, SameRemovals, Frame
  <2>2. Quiet
    BY <1>11, <2>1 DEF ShowWindow, Quiet, SameRow, NoNewClient
  <2> QED
    BY <2>2, QuietStep
<1>12. ASSUME NEW p \in Process, NEW id \in Session,
              StopClient(p, id)
       PROVE  LaunchInv'
  <2>1. SameRemovals
    BY <1>12, <1>f DEF StopClient, SameRemovals, Frame
  <2>2. NoNewClient
    BY <1>12, <1>c, StopEffect, ConstantsAssumption DEF StopClient
  <2>3. Quiet
    BY <1>12, <2>1, <2>2 DEF StopClient, Quiet, SameRow
  <2> QED
    BY <2>3, QuietStep
<1>13. ASSUME NEW id \in Session, NEW n \in 1..StopAttempts,
              RetryStop(id, n)
       PROVE  LaunchInv'
  <2>1. NoNewClient
    BY <1>13, <1>c, StopEffect, ConstantsAssumption DEF RetryStop
  <2>2. Quiet
    BY <1>13, <2>1 DEF RetryStop, Quiet, SameRow, SameRemovals
  <2> QED
    BY <2>2, QuietStep
<1>14. ASSUME NEW p \in Caller, Minimized(p) PROVE LaunchInv'
  <2> DEFINE id == window[p].id
  <2>0. p \in Process
    BY DEF Process
  <2>1. SameRemovals
    BY <1>14, <2>0, <1>f DEF Minimized, SameRemovals, Frame
  <2>2. \A x \in Session : SameRow(x)
    <3>1. CASE id \in present /\ entry[id].state = "active"
      <4>1. id \in Session /\ entry[id] \in Entry
        BY <1>e, <3>1
      <4> DEFINE e == [entry[id] EXCEPT !.windowState = window[p].target, !.minimized = TRUE]
      <4>2. e.state = entry[id].state /\ e.pendingSSH = entry[id].pendingSSH
                /\ e.connectionID = entry[id].connectionID
        BY <4>1 DEF Entry
      <4>3. entry' = [entry EXCEPT ![id] = e]
        BY <1>14, <1>e, <3>1, <4>1 DEF Minimized
      <4> QED
        BY <1>e, <4>1, <4>2, <4>3 DEF SameRow
    <3>2. CASE ~(id \in present /\ entry[id].state = "active")
      BY <1>14, <3>2 DEF Minimized, SameRow
    <3> QED
      BY <3>1, <3>2
  <2>3. Quiet
    BY <1>14, <2>1, <2>2 DEF Minimized, Quiet, NoNewClient
  <2> QED
    BY <2>3, QuietStep
<1>15. ASSUME NEW p \in Caller, Resumed(p) PROVE LaunchInv'
  <2> DEFINE id == window[p].id
  <2>0. p \in Process
    BY DEF Process
  <2>1. SameRemovals
    BY <1>15, <2>0, <1>f DEF Resumed, SameRemovals, Frame
  <2>2. \A x \in Session : SameRow(x)
    <3>1. CASE id \in present /\ entry[id].state = "active"
      <4>1. id \in Session /\ entry[id] \in Entry
        BY <1>e, <3>1
      <4> DEFINE e == [entry[id] EXCEPT !.minimized = FALSE]
      <4>2. e.state = entry[id].state /\ e.pendingSSH = entry[id].pendingSSH
                /\ e.connectionID = entry[id].connectionID
        BY <4>1 DEF Entry
      <4>3. entry' = [entry EXCEPT ![id] = e]
        BY <1>15, <1>e, <3>1, <4>1 DEF Resumed
      <4> QED
        BY <1>e, <4>1, <4>2, <4>3 DEF SameRow
    <3>2. CASE ~(id \in present /\ entry[id].state = "active")
      BY <1>15, <3>2 DEF Resumed, SameRow
    <3> QED
      BY <3>1, <3>2
  <2>3. Quiet
    BY <1>15, <2>1, <2>2 DEF Resumed, Quiet, NoNewClient
  <2> QED
    BY <2>3, QuietStep
<1>16. ASSUME NEW s \in Session, Prepare(s) PROVE LaunchInv'
  <2>1. Moves(s, "prepare")
    BY <1>16, <1>e, <1>d, <1>i, SetSessionEffect
       DEF Prepare, Moves, SameRemovals, Live, RunPCs, ErrorPCs, Goto
  <2> QED
    BY <2>1, MovesStep
<1>17. ASSUME NEW s \in Session, PrepareFails(s) PROVE LaunchInv'
  <2>1. Moves(s, "reportFailed")
    BY <1>17, <1>e, <1>d, <1>i, SetSessionEffect
       DEF PrepareFails, Moves, SameRemovals, Live, RunPCs, ErrorPCs,
           Goto
  <2> QED
    BY <2>1, MovesStep
<1>18. ASSUME NEW s \in Session, Starting(s) PROVE LaunchInv'
  <2>1. Moves(s, "reportStarted")
    BY <1>18, <1>e, <1>d, <1>i, SetSessionEffect
       DEF Starting, Moves, SameRemovals, Live, RunPCs, ErrorPCs, Goto
  <2> QED
    BY <2>1, MovesStep
<1>19. ASSUME NEW s \in Session, Activate(s) PROVE LaunchInv'
  <2>1. Moves(s, "launch")
    BY <1>19, <1>e, <1>d, <1>i, SetSessionEffect
       DEF Activate, Moves, SameRemovals, Live, RunPCs, ErrorPCs, Goto
  <2> QED
    BY <2>1, MovesStep
<1>20. ASSUME NEW s \in Session, RestartMuted(s) PROVE LaunchInv'
  <2>1. Moves(s, "activate")
    BY <1>20, <1>e, <1>d, <1>i, SetSessionEffect
       DEF RestartMuted, Moves, SameRemovals, Live, RunPCs, ErrorPCs,
           Goto
  <2> QED
    BY <2>1, MovesStep
<1>21. ASSUME NEW s \in Session, HostKeyChanges(s) PROVE LaunchInv'
  <2>1. Moves(s, "keyChanged")
    BY <1>21, <1>c, <1>d, <1>i, <1>s
       DEF HostKeyChanges, Moves, SameRemovals, Live, RunPCs, ErrorPCs,
           Goto, SameRow
  <2> QED
    BY <2>1, MovesStep
<1>22. ASSUME NEW s \in Session, ReportStarted(s) PROVE LaunchInv'
  <2>1. Moves(s, "activate")
    BY <1>22, <1>c, <1>d, <1>i, <1>s
       DEF ReportStarted, Moves, SameRemovals, Live, RunPCs, ErrorPCs,
           Goto, SameRow
  <2> QED
    BY <2>1, MovesStep
<1>23. ASSUME NEW s \in Session, RunFails(s) PROVE LaunchInv'
  <2>1. Moves(s, "returned")
    BY <1>23, <1>c, <1>d, <1>i, <1>s
       DEF RunFails, Moves, SameRemovals, Live, RunPCs, ErrorPCs, Goto,
           SameRow
  <2> QED
    BY <2>1, MovesStep
<1>24. ASSUME NEW s \in Session, NEW k \in Sink,
              PrepareAudio(s, k)
       PROVE  LaunchInv'
  <2>1. Moves(s, "audioReady")
    BY <1>24, <1>c, <1>d, <1>i, <1>s
       DEF PrepareAudio, Moves, SameRemovals, Live, RunPCs, ErrorPCs,
           Goto, SameRow
  <2> QED
    BY <2>1, MovesStep
<1>25. ASSUME NEW s \in Session, WithoutSink(s) PROVE LaunchInv'
  <2>1. Moves(s, "start")
    BY <1>25, <1>c, <1>d, <1>i, <1>s
       DEF WithoutSink, Moves, SameRemovals, Live, RunPCs, ErrorPCs,
           Goto, SameRow
  <2> QED
    BY <2>1, MovesStep
<1>26. ASSUME NEW s \in Session, NEW err \in BOOLEAN,
              ClientReturns(s, err)
       PROVE  LaunchInv'
  <2>1. Moves(s, "returned")
    BY <1>26, <1>c, <1>d, <1>i, <1>s
       DEF ClientReturns, Moves, SameRemovals, Live, RunPCs, ErrorPCs,
           Goto, SameRow
  <2> QED
    BY <2>1, MovesStep
<1>27. ASSUME NEW s \in Session, AbandonAudioChoice(s) PROVE LaunchInv'
  <2>1. Moves(s, "returned")
    BY <1>27, <1>c, <1>d, <1>i, <1>s
       DEF AbandonAudioChoice, Moves, SameRemovals, Live, RunPCs,
           ErrorPCs, Goto, SameRow
  <2> QED
    BY <2>1, MovesStep
<1>28. ASSUME NEW s \in Session, ReportExited(s) PROVE LaunchInv'
  <2>1. Moves(s, "finish")
    BY <1>28, <1>c, <1>d, <1>i, <1>s
       DEF ReportExited, Moves, SameRemovals, Live, RunPCs, ErrorPCs,
           Goto, SameRow
  <2> QED
    BY <2>1, MovesStep
<1>29. ASSUME NEW s \in Session, StartClient(s) PROVE LaunchInv'
  <2>1. Moves(s, "started")
    BY <1>29, <1>c, <1>d, <1>i, <1>s
       DEF StartClient, Moves, SameRemovals, Live, RunPCs, ErrorPCs,
           Goto, SameRow
  <2> QED
    BY <2>1, MovesStep
<1>30. ASSUME NEW s \in Session, AudioReady(s) PROVE LaunchInv'
  <2>1. /\ \A x \in Session : SameRow(x)
    BY <1>30, <1>e DEF AudioReady, SameRow, Entry
  <2>2. Moves(s, "start")
    BY <1>30, <2>1, <1>d, <1>i, <1>s
       DEF AudioReady, Moves, SameRemovals, Live, RunPCs, ErrorPCs, Goto,
           SameRow
  <2> QED
    BY <2>2, MovesStep
<1>31. ASSUME NEW s \in Session, RegisterPid(s) PROVE LaunchInv'
  <2>1. /\ \A x \in Session : SameRow(x)
    BY <1>31, <1>e DEF RegisterPid, SameRow, Entry
  <2>2. Moves(s, "wait")
    BY <1>31, <2>1, <1>d, <1>i, <1>s
       DEF RegisterPid, Moves, SameRemovals, Live, RunPCs, ErrorPCs,
           Goto, SameRow
  <2> QED
    BY <2>2, MovesStep
<1>32. ASSUME NEW s \in Session, AudioFails(s) PROVE LaunchInv'
  <2>1. client'[s] # "running" /\ \A x \in Session \ {s} : client'[x] = client[x]
    BY <1>32, <1>c, <1>i DEF AudioFails
  <2>2. \E to \in {"returned", "audioUnavailable"} : pc' = [pc EXCEPT ![s] = to]
    BY <1>32 DEF AudioFails
  <2>3. pc[s] \in {"launch", "wait"}
    BY <1>32 DEF AudioFails
  <2>4. \E to \in {"returned", "audioUnavailable"} : Moves(s, to)
    BY <1>32, <2>1, <2>2, <2>3, <1>d
       DEF AudioFails, StateMatchesRun, LaunchInv, Moves, SameRemovals,
           Live, RunPCs, ErrorPCs, Goto, SameRow
  <2> QED
    BY <2>4, MovesStep
<1>33. ASSUME NEW s \in Session, AskAudioChoice(s) PROVE LaunchInv'
  <2>1. CASE s \in present
    <3> DEFINE e == [entry[s] EXCEPT !.audioChoice = TRUE, !.state = "error",
                                    !.confirmation = "audio"]
    <3>1. e.state = "error" /\ e.pendingSSH = entry[s].pendingSSH
              /\ e.connectionID = entry[s].connectionID
      BY <1>e DEF Entry
    <3>2. entry' = [entry EXCEPT ![s] = e]
      BY <1>33, <1>e, <2>1 DEF AskAudioChoice
    <3>3. Moves(s, "choose")
      BY <1>33, <2>1, <3>1, <3>2, <1>e, <1>d, <1>i
         DEF AskAudioChoice, Moves, SameRemovals, Live, RunPCs,
             ErrorPCs, Goto, SameRow
    <3> QED
      BY <3>3, MovesStep
  <2>2. CASE s \notin present
    <3>1. Moves(s, "returned")
      BY <1>33, <2>2, <1>d, <1>i
         DEF AskAudioChoice, Moves, SameRemovals, Live, RunPCs,
             ErrorPCs, Goto, SameRow
    <3> QED
      BY <3>1, MovesStep
  <2> QED
    BY <2>1, <2>2
<1>34. ASSUME NEW s \in Session, TakeAudioChoice(s) PROVE LaunchInv'
  <2>1. \A x \in Session : SameRow(x)
    <3> DEFINE e == [entry[s] EXCEPT !.audioChoice = FALSE, !.confirmation = "none"]
    <3>1. e.state = entry[s].state /\ e.pendingSSH = entry[s].pendingSSH
              /\ e.connectionID = entry[s].connectionID
      BY <1>e DEF Entry
    <3>2. entry' = [entry EXCEPT ![s] = e] \/ entry' = entry
      BY <1>34, <1>e DEF TakeAudioChoice
    <3> QED
      BY <1>e, <3>1, <3>2 DEF SameRow
  <2>2. \E to \in {"restart", "declined"} : Moves(s, to)
    BY <1>34, <2>1, <1>d, <1>i
       DEF TakeAudioChoice, Moves, SameRemovals, Live, RunPCs, ErrorPCs,
           Goto, SameRow
  <2> QED
    BY <2>2, MovesStep
<1>35. ASSUME NEW s \in Session, RedeemFails(s) PROVE LaunchInv'
  <2>1. Leaves(s)
    BY <1>35, <1>e, <1>f, <1>i, SetSessionEffect, ReturnAndRemoveEffect
       DEF RedeemFails, Leaves, Live, RunPCs, NoNewClient, ReturnAndRemove
  <2> QED
    BY <2>1, LeavesStep
<1>36. ASSUME NEW s \in Session, Finish(s) PROVE LaunchInv'
  <2>1. Leaves(s)
    BY <1>36, <1>e, <1>f, <1>i, SetSessionEffect, ReturnAndRemoveEffect
       DEF Finish, Leaves, Live, RunPCs, NoNewClient, ReturnAndRemove
  <2> QED
    BY <2>1, LeavesStep
<1>37. ASSUME NEW s \in Session, ReportFailed(s) PROVE LaunchInv'
  <2>1. Leaves(s)
    BY <1>37, <1>f, <1>i, ReturnAndRemoveEffect
       DEF ReportFailed, Leaves, Live, RunPCs, NoNewClient, SameRow, ReturnAndRemove
  <2> QED
    BY <2>1, LeavesStep
<1>38. ASSUME NEW s \in Session, AudioDeclined(s) PROVE LaunchInv'
  <2>1. Leaves(s)
    BY <1>38, <1>f, <1>i, ReturnAndRemoveEffect
       DEF AudioDeclined, Leaves, Live, RunPCs, NoNewClient, SameRow, ReturnAndRemove
  <2> QED
    BY <2>1, LeavesStep
<1>39. ASSUME NEW p \in Caller, NEW id \in Session,
              CancelSession(p, id)
       PROVE  LaunchInv'
  <2>0. p \in Process /\ p \notin Session
    BY ConstantsAssumption DEF Process
  <2>1. Cancels(p, {id}) /\ {id} \in SUBSET present
    BY <1>39, <2>0, <1>e, <1>f, CancelEffect
       DEF CancelSession, Cancels, NoNewClient
  <2> QED
    BY <2>0, <2>1, CancelsStep
<1>40. ASSUME NEW p \in Caller, CancelAll(p) PROVE LaunchInv'
  <2>0. p \in Process /\ p \notin Session
    BY ConstantsAssumption DEF Process
  <2>1. Cancels(p, present)
    BY <1>40, <2>0, <1>e, <1>f, CancelEffect DEF CancelAll, Cancels, NoNewClient
  <2> QED
    BY <2>0, <2>1, CancelsStep
<1>41. ASSUME NEW s \in Session, NEW d \in Session,
              CancelDuplicate(s, d)
       PROVE  LaunchInv'
  <2>0. s \in Process
    BY DEF Process
  <2>1. CASE d \in present
    <3>1. /\ cancelled' = cancelled \cup {d}
          /\ \A x \in Session \ {d} : SameRow(x)
          /\ entry'[d].state = "stopping"
          /\ entry'[d].pendingSSH = entry[d].pendingSSH
          /\ entry'[d].connectionID = entry[d].connectionID
          /\ frame'[s].remove \subseteq {d}
          /\ \A q \in Process \ {s} : frame'[q].remove = frame[q].remove
      BY <1>41, <2>0, <2>1, <1>e, <1>f, CancelEffect DEF CancelDuplicate
    <3>2. /\ pc[s] = "replace" /\ pc' = pc
          /\ UNCHANGED <<present, manifest, client>>
          /\ duplicates' = [duplicates EXCEPT ![s] = @ \ {d}]
      BY <1>41 DEF CancelDuplicate
    <3> USE DEF SameRow
    <3>3. RemovalIsAnnounced'
      BY <3>1, <3>2, <2>0 DEF LaunchInv, RemovalIsAnnounced
    <3>4. StateMatchesRun'
      BY <3>1, <3>2, <1>e DEF LaunchInv, StateMatchesRun
    <3>5. Superseded'
      <4>1. duplicates \in [Session -> SUBSET Session]
        BY DEF TypeOK
      <4> QED
        BY <3>1, <3>2, <4>1, <1>e DEF LaunchInv, Superseded
    <3>6. ClientInsideRun'
      BY <3>2 DEF LaunchInv, ClientInsideRun
    <3>7. NoStuckSession'
      BY <3>1, <3>2, <1>e DEF LaunchInv, NoStuckSession, Process
    <3> QED
      BY <3>3, <3>4, <3>5, <3>6, <3>7 DEF LaunchInv
  <2>2. CASE d \notin present
    <3>1. pc[d] \in Live => d \in cancelled
      BY <2>2 DEF LaunchInv, RemovalIsAnnounced, Live
    <3>2. /\ pc[s] = "replace"
          /\ UNCHANGED <<pc, present, manifest, client, entry, cancelled, frame>>
          /\ duplicates' = [duplicates EXCEPT ![s] = @ \ {d}]
      BY <1>41, <2>2 DEF CancelDuplicate
    <3>3. RemovalIsAnnounced' /\ StateMatchesRun' /\ ClientInsideRun' /\ NoStuckSession'
      BY <3>2 DEF LaunchInv, RemovalIsAnnounced, StateMatchesRun,
                  ClientInsideRun, NoStuckSession
    <3>4. Superseded'
      <4>1. duplicates \in [Session -> SUBSET Session]
        BY DEF TypeOK
      <4> QED
        BY <3>1, <3>2, <4>1 DEF LaunchInv, Superseded
    <3> QED
      BY <3>3, <3>4 DEF LaunchInv
  <2> QED
    BY <2>1, <2>2
<1>42. ASSUME NEW s \in Session, Launch(s) PROVE LaunchInv'
  <2>1. RemovalIsAnnounced'
    BY <1>42, <1>e, <1>p DEF Launch, LaunchInv, RemovalIsAnnounced, Goto
  <2>2. StateMatchesRun'
    BY <1>42, <1>e, <1>p DEF Launch, LaunchInv, StateMatchesRun, Goto, Blank
  <2>3. Superseded'
    BY <1>42, <1>e, <1>p DEF Launch, LaunchInv, Superseded, Goto, Live, Blank
  <2>4. ClientInsideRun'
    BY <1>42, <1>e, <1>p DEF Launch, LaunchInv, ClientInsideRun, Goto
  <2>5. NoStuckSession'
    BY <1>42, <1>e, <1>p DEF Launch, LaunchInv, NoStuckSession, Goto, Blank
  <2> QED
    BY <2>1, <2>2, <2>3, <2>4, <2>5 DEF LaunchInv
<1>43. ASSUME NEW s \in Session, AskHostKey(s) PROVE LaunchInv'
  <2>1. RemovalIsAnnounced'
    BY <1>43, <1>e, <1>p, <1>i, <1>d
       DEF AskHostKey, LaunchInv, RemovalIsAnnounced, Goto
  <2>2. StateMatchesRun'
    BY <1>43, <1>e, <1>p, <1>i, <1>d
       DEF AskHostKey, LaunchInv, StateMatchesRun, Goto, Entry
  <2>3. Superseded'
    BY <1>43, <1>e, <1>p, <1>i, <1>d
       DEF AskHostKey, LaunchInv, Superseded, Goto, Live, Entry
  <2>4. ClientInsideRun'
    BY <1>43, <1>e, <1>p, <1>i, <1>d
       DEF AskHostKey, LaunchInv, ClientInsideRun, Goto
  <2>5. NoStuckSession'
    BY <1>43, <1>e, <1>p, <1>i, <1>d
       DEF AskHostKey, LaunchInv, NoStuckSession, Goto, Entry
  <2> QED
    BY <2>1, <2>2, <2>3, <2>4, <2>5 DEF LaunchInv
<1>44. ASSUME NEW s \in Session, ReportKeyChanged(s) PROVE LaunchInv'
  <2>1. RemovalIsAnnounced'
    BY <1>44, <1>e, <1>p, <1>i
       DEF ReportKeyChanged, LaunchInv, RemovalIsAnnounced, Goto
  <2>2. StateMatchesRun'
    BY <1>44, <1>e, <1>p, <1>i
       DEF ReportKeyChanged, LaunchInv, StateMatchesRun, Goto
  <2>3. Superseded'
    BY <1>44, <1>e, <1>p, <1>i
       DEF ReportKeyChanged, LaunchInv, Superseded, Goto, Live
  <2>4. ClientInsideRun'
    BY <1>44, <1>e, <1>p, <1>i
       DEF ReportKeyChanged, LaunchInv, ClientInsideRun, Goto
  <2>5. NoStuckSession'
    BY <1>44, <1>e, <1>p, <1>i
       DEF ReportKeyChanged, LaunchInv, NoStuckSession, StateMatchesRun,
           Goto
  <2> QED
    BY <2>1, <2>2, <2>3, <2>4, <2>5 DEF LaunchInv
<1>45. ASSUME NEW p \in Caller, NEW id \in Session,
              ResolveSSHHostKeyChange(p, id)
       PROVE  LaunchInv'
  <2>1. RemovalIsAnnounced'
    BY <1>45, <1>e, <1>f, ConstantsAssumption
       DEF ResolveSSHHostKeyChange, LaunchInv, RemovalIsAnnounced,
           StateMatchesRun, Frame, Process
  <2>2. StateMatchesRun'
    BY <1>45, <1>e, <1>f, ConstantsAssumption
       DEF ResolveSSHHostKeyChange, LaunchInv, StateMatchesRun
  <2>3. Superseded'
    BY <1>45, <1>e, <1>f, ConstantsAssumption
       DEF ResolveSSHHostKeyChange, LaunchInv, Superseded
  <2>4. ClientInsideRun'
    BY <1>45, <1>e, <1>f, ConstantsAssumption
       DEF ResolveSSHHostKeyChange, LaunchInv, ClientInsideRun
  <2>5. NoStuckSession'
    BY <1>45, <1>e, <1>f, ConstantsAssumption
       DEF ResolveSSHHostKeyChange, LaunchInv, NoStuckSession, Frame,
           Process
  <2> QED
    BY <2>1, <2>2, <2>3, <2>4, <2>5 DEF LaunchInv
<1>46. ASSUME NEW p \in Process, NEW id \in Session,
              RemoveSession(p, id)
       PROVE  LaunchInv'
  <2>0. id \in cancelled \/ pc[id] \in {"reportKey", "done"}
    BY <1>46 DEF RemoveSession, LaunchInv, RemovalIsAnnounced
  <2>a. \A q \in Process : frame'[q].remove = IF q = p THEN frame[p].remove \ {id}
                                              ELSE frame[q].remove
    BY <1>46, <1>f DEF RemoveSession, Frame
  <2>b. present' = present \ {id} /\ UNCHANGED <<pc, cancelled>>
        /\ \A x \in Session \ {id} : entry'[x] = entry[x]
    BY <1>46, <1>e DEF RemoveSession
  <2>1. RemovalIsAnnounced'
    BY <2>0, <2>a, <2>b DEF LaunchInv, RemovalIsAnnounced
  <2>2. StateMatchesRun'
    BY <1>46, <1>e DEF RemoveSession, LaunchInv, StateMatchesRun, Blank
  <2>3. Superseded'
    BY <1>46, <1>e DEF RemoveSession, LaunchInv, Superseded
  <2>4. ClientInsideRun'
    BY <1>46 DEF RemoveSession, LaunchInv, ClientInsideRun
  <2>5. NoStuckSession'
    BY <2>a, <2>b, <1>e DEF LaunchInv, NoStuckSession, Process
  <2> QED
    BY <2>1, <2>2, <2>3, <2>4, <2>5 DEF LaunchInv
<1>47. ASSUME NEW s \in Session, NEW c \in Connection, NEW protocol \in Protocol,
              Redeem(s, c, protocol)
       PROVE  LaunchInv'
  <2>0. /\ pc[s] = "redeem" /\ pc' = [pc EXCEPT ![s] = "replace"]
        /\ UNCHANGED <<present, cancelled, client, frame>>
        /\ \A x \in Session \ {s} : manifest'[x] = manifest[x]
        /\ manifest'[s].connectionID = c
        /\ \A x \in Session \ {s} : duplicates'[x] = duplicates[x]
    BY <1>47 DEF Redeem, Goto, TypeOK
  <2>a. /\ \A x \in Session : /\ entry'[x].state = entry[x].state
                              /\ entry'[x].pendingSSH = entry[x].pendingSSH
        /\ \A x \in Session \ {s} : entry'[x].connectionID = entry[x].connectionID
        /\ s \in present => entry'[s].connectionID = c
    BY <1>47, <1>e DEF Redeem, Entry
  <2>b. ASSUME NEW d \in Session, d # s, pc[d] \in Live,
               manifest[d].connectionID = c, d \notin cancelled
        PROVE  d \in duplicates'[s]
    <3>1. d \in present
      BY <2>b DEF LaunchInv, RemovalIsAnnounced, Live
    <3>2. entry[d].connectionID = c /\ entry[d].state # "stopping"
      BY <2>b, <3>1 DEF LaunchInv, Superseded, StateMatchesRun, Live
    <3> QED
      BY <1>47, <2>b, <3>1, <3>2 DEF Redeem, TypeOK
  <2>1. RemovalIsAnnounced'
    BY <2>0, <1>p DEF LaunchInv, RemovalIsAnnounced
  <2>2. StateMatchesRun'
    BY <2>0, <2>a, <1>e, <1>p DEF LaunchInv, StateMatchesRun
  <2>3. Superseded'
    BY <2>0, <2>a, <2>b, <1>e, <1>p DEF LaunchInv, Superseded, Live
  <2>4. ClientInsideRun'
    BY <2>0, <1>p DEF LaunchInv, ClientInsideRun
  <2>5. NoStuckSession'
    BY <2>0, <2>a, <1>e, <1>p DEF LaunchInv, NoStuckSession
  <2> QED
    BY <2>1, <2>2, <2>3, <2>4, <2>5 DEF LaunchInv
<1>48. CASE UNCHANGED vars
  <2>1. Quiet
    BY <1>48 DEF vars, Quiet, SameRow, NoNewClient, SameRemovals
  <2> QED
    BY <2>1, QuietStep
<1> QED
  BY <1>1, <1>2, <1>3, <1>4, <1>5, <1>6, <1>7, <1>8, <1>9, <1>10, <1>11,
     <1>12, <1>13, <1>14, <1>15, <1>16, <1>17, <1>18, <1>19, <1>20, <1>21,
     <1>22, <1>23, <1>24, <1>25, <1>26, <1>27, <1>28, <1>29, <1>30, <1>31,
     <1>32, <1>33, <1>34, <1>35, <1>36, <1>37, <1>38, <1>39, <1>40, <1>41,
     <1>42, <1>43, <1>44, <1>45, <1>46, <1>47, <1>48
     DEF Next, Run, Owed, Request, WindowStep

\* Whatever the number of sessions, callers and connections, LaunchInv holds in
\* every reachable state.
THEOREM LaunchInvariant == Spec => []LaunchInv
<1>1. Init => LaunchInv
  BY DEF Init, LaunchInv, RemovalIsAnnounced, StateMatchesRun, Superseded,
         ClientInsideRun, NoStuckSession, Live, Blank, Idle, Process
<1> QED
  BY <1>1, TypeCorrect, LaunchInvStep, PTL DEF Spec

\* Two launches of one connection never run a client each unless one of the two
\* has been cancelled (the duplicates loop of run).
THEOREM RelaunchReplaces == Spec => []OneClientPerConnection
<1>1. LaunchInv => OneClientPerConnection
  BY DEF LaunchInv, Superseded, ClientInsideRun, OneClientPerConnection, Live, RunPCs
<1> QED
  BY <1>1, LaunchInvariant, PTL

\* A running client is on the dashboard or has been told to stop (removeSession
\* against the run goroutine).
THEOREM NoClientIsOrphaned == Spec => []NoOrphanClient
<1>1. LaunchInv => NoOrphanClient
  BY DEF LaunchInv, RemovalIsAnnounced, ClientInsideRun, NoOrphanClient
<1> QED
  BY <1>1, LaunchInvariant, PTL

\* What Cancel drops without stopping has nothing to stop.
THEOREM TerminalIsClientless == Spec => []TerminalHasNoClient
<1>1. TypeOK /\ LaunchInv => TerminalHasNoClient
  BY DEF TypeOK, LaunchInv, StateMatchesRun, ClientInsideRun, TerminalHasNoClient
<1> QED
  BY <1>1, TypeCorrect, LaunchInvariant, PTL

\* A session whose goroutine is gone is about to be removed or is waiting for
\* the user's decision about a host key.
THEOREM NoSessionIsStuck == Spec => []NoStuckSession
<1>1. LaunchInv => NoStuckSession
  BY DEF LaunchInv
<1> QED
  BY <1>1, LaunchInvariant, PTL

-----------------------------------------------------------------------------
(* The events on the wire.  How far run has come says exactly what it has
   reported; only a cancel in time leaves a gap. *)

\* Before the first report, and between the start and the exit.
Unreported == {"unborn", "redeem", "replace", "prepare", "keyChanged", "reportKey",
               "reportFailed", "reportStarted"}
Reported == {"activate", "launch", "audioReady", "start", "started", "wait",
             "audioUnavailable", "choose", "declined", "restart", "returned"}

EventsOf(s) ==
    /\ pc[s] \in {"unborn", "redeem"} => manifest[s].protocol = "none"
    /\ pc[s] \in Unreported => sent[s] = <<>>
    /\ pc[s] \in Reported =>
          \/ sent[s] = <<"session_started">>
          \/ sent[s] = <<>> /\ s \in cancelled
    /\ pc[s] \in {"finish", "done"} =>
          \/ sent[s] = <<"session_started", "session_exited">>
          \/ sent[s] = <<"session_exited">> /\ s \in cancelled
          \/ pc[s] = "done" /\ sent[s] = <<"session_failed">>
          \/ /\ pc[s] = "done" /\ sent[s] = <<>>
             /\ s \in cancelled \/ manifest[s].protocol = "none"

EventsInv == \A s \in Session : EventsOf(s)

\* A step that reports nothing and moves no goroutine.
LEMMA EventsStill ==
    ASSUME EventsInv, UNCHANGED <<pc, sent, manifest>>, cancelled \subseteq cancelled'
    PROVE  EventsInv'
  BY DEF EventsInv, EventsOf

\* A goroutine moves without a report, on the same side of its reports.
LEMMA EventsMove ==
    ASSUME TypeOK, EventsInv, NEW s \in Session, NEW to,
           pc' = [pc EXCEPT ![s] = to],
           UNCHANGED sent, cancelled \subseteq cancelled',
           \A x \in Session \ {s} : manifest'[x] = manifest[x],
           \/ pc[s] \in Unreported \ {"unborn"} /\ to \in Unreported \ {"unborn", "redeem"}
           \/ pc[s] = "unborn" /\ to = "redeem" /\ manifest' = manifest
           \/ pc[s] = "redeem" /\ to = "done" /\ manifest' = manifest
           \/ pc[s] \in Reported /\ to \in Reported
           \/ pc[s] = "finish" /\ to = "done"
    PROVE  EventsInv'
<1>1. \A x \in Session : pc'[x] = IF x = s THEN to ELSE pc[x]
  BY DEF TypeOK
<1>2. ASSUME NEW x \in Session PROVE EventsOf(x)'
  <2>1. EventsOf(x)
    BY DEF EventsInv
  <2>2. CASE x # s
    BY <1>1, <2>1, <2>2 DEF EventsOf
  <2>3. CASE x = s
    BY <1>1, <2>1, <2>3 DEF EventsOf, Unreported, Reported
  <2> QED
    BY <2>2, <2>3
<1> QED
  BY <1>2 DEF EventsInv

\* Appending to the two sequences a report can follow.
LEMMA AppendOne ==
    ASSUME NEW e \in Events
    PROVE  /\ Append(<<>>, e) = <<e>>
           /\ Append(<<"session_started">>, e) = <<"session_started", e>>
<1>1. Append(<<>>, e) = <<e>>
  OBVIOUS
<1>2. Append(<<"session_started">>, e) = <<"session_started", e>>
  <2> DEFINE a == Append(<<"session_started">>, e)
             b == <<"session_started", e>>
  <2>1. a \in Seq(Events) /\ b \in Seq(Events) /\ Len(a) = 2 /\ Len(b) = 2
    BY DEF Events
  <2>2. a[1] = "session_started" /\ a[2] = e /\ b[1] = "session_started" /\ b[2] = e
    BY DEF Events
  <2> HIDE DEF a, b
  <2>3. Len(a) = Len(b) /\ \A i \in 1..Len(a) : a[i] = b[i]
    BY <2>1, <2>2
  <2>4. a = b
    BY <2>1, <2>3, SeqEqual
  <2> QED
    BY <2>4 DEF a, b
<1> QED
  BY <1>1, <1>2

\* A goroutine moves past one of its reports.
LEMMA EventsReport ==
    ASSUME TypeOK, EventsInv, NEW s \in Session, NEW to, NEW e \in Events,
           pc' = [pc EXCEPT ![s] = to], UNCHANGED <<cancelled, manifest>>,
           \/ Report(s, e) /\ e = "session_failed" /\ pc[s] \in Unreported /\ to = "done"
           \/ Report(s, e) /\ e = "session_started" /\ pc[s] \in Unreported /\ to = "activate"
           \/ /\ ReportAlways(s, e) /\ e = "session_exited"
              /\ pc[s] \in Reported /\ to \in {"finish", "done"}
    PROVE  EventsInv'
<1>1. \A x \in Session : pc'[x] = IF x = s THEN to ELSE pc[x]
  BY DEF TypeOK
<1>2. \A x \in Session : x # s => sent'[x] = sent[x]
  BY DEF TypeOK, Report, ReportAlways
<1>3. \/ sent'[s] = Append(sent[s], e)
      \/ e # "session_exited" /\ s \in cancelled /\ sent'[s] = sent[s]
  BY DEF TypeOK, Report, ReportAlways
<1>4. /\ Append(<<>>, e) = <<e>>
      /\ Append(<<"session_started">>, e) = <<"session_started", e>>
  BY AppendOne
<1>5. ASSUME NEW x \in Session PROVE EventsOf(x)'
  <2>1. EventsOf(x)
    BY DEF EventsInv
  <2>2. CASE x # s
    BY <1>1, <1>2, <2>1, <2>2 DEF EventsOf
  <2>3. CASE x = s
    <3>1. pc[s] \in Unreported => sent[s] = <<>>
      BY <2>1, <2>3 DEF EventsOf
    <3>2. pc[s] \in Reported =>
              sent[s] = <<"session_started">> \/ (sent[s] = <<>> /\ s \in cancelled)
      BY <2>1, <2>3 DEF EventsOf
    <3> QED
      BY <1>1, <1>3, <1>4, <2>3, <3>1, <3>2 DEF EventsOf, Unreported, Reported
  <2> QED
    BY <2>2, <2>3
<1> QED
  BY <1>5 DEF EventsInv

LEMMA EventsStep == TypeOK /\ EventsInv /\ [Next]_vars => EventsInv'
<1> SUFFICES ASSUME TypeOK, EventsInv, [Next]_vars PROVE EventsInv'
  OBVIOUS
<1> USE DEF env, tableVars, ctxVars, localVars, runVars, clientVars, outVars
<1>1. ASSUME NEW s \in Session, Run(s) \/ Launch(s) \/ AudioFails(s) PROVE EventsInv'
  <2>1. CASE Launch(s)
    BY <2>1, EventsMove DEF Launch, Goto
  <2>2. CASE RedeemFails(s)
    BY <2>2, EventsMove DEF RedeemFails, ReturnAndRemove
  <2>3. ASSUME NEW c \in Connection, NEW protocol \in Protocol, Redeem(s, c, protocol)
        PROVE  EventsInv'
    <3>1. \A x \in Session \ {s} : manifest'[x] = manifest[x]
      BY <2>3 DEF Redeem, TypeOK
    <3> QED
      BY <2>3, <3>1, EventsMove DEF Redeem, Goto, Unreported
  <2>4. ASSUME NEW d \in Session, CancelDuplicate(s, d) PROVE EventsInv'
    BY <2>4, EventsStill DEF CancelDuplicate, Cancel
  <2>5. CASE Prepare(s) \/ HostKeyChanges(s) \/ AskHostKey(s) \/ PrepareFails(s) \/ Starting(s)
    BY <2>5, EventsMove DEF Prepare, HostKeyChanges, AskHostKey, PrepareFails, Starting,
       Goto, Unreported
  <2>6. CASE ReportKeyChanged(s) \/ ReportFailed(s) \/ ReportStarted(s)
    BY <2>6, EventsReport DEF ReportKeyChanged, ReportFailed, ReportStarted, Goto,
       ReturnAndRemove, Events, Unreported
  <2>7. CASE AudioDeclined(s) \/ ReportExited(s)
    BY <2>7, EventsReport DEF AudioDeclined, ReportExited, Goto, ReturnAndRemove, Events,
       Reported
  <2>8. CASE \/ Activate(s) \/ RunFails(s) \/ AudioReady(s) \/ WithoutSink(s)
             \/ StartClient(s) \/ RegisterPid(s) \/ AskAudioChoice(s) \/ TakeAudioChoice(s)
             \/ AbandonAudioChoice(s) \/ RestartMuted(s) \/ AudioFails(s)
             \/ \E err \in BOOLEAN : ClientReturns(s, err)
             \/ \E k \in Sink : PrepareAudio(s, k)
    <3>1. UNCHANGED <<sent, manifest, cancelled>>
      BY <2>8 DEF Activate, RunFails, AudioReady, WithoutSink, StartClient, RegisterPid,
         AskAudioChoice, TakeAudioChoice, AbandonAudioChoice, RestartMuted, AudioFails,
         ClientReturns, PrepareAudio
    <3>2. pc[s] \in Reported /\ \E to \in Reported : pc' = [pc EXCEPT ![s] = to]
      BY <2>8 DEF Activate, RunFails, AudioReady, WithoutSink, StartClient, RegisterPid,
         AskAudioChoice, TakeAudioChoice, AbandonAudioChoice, RestartMuted, AudioFails,
         ClientReturns, PrepareAudio, Goto, Reported
    <3> QED
      BY <3>1, <3>2, EventsMove
  <2>9. CASE Finish(s)
    BY <2>9, EventsMove DEF Finish, ReturnAndRemove
  <2> QED
    BY <1>1, <2>1, <2>2, <2>3, <2>4, <2>5, <2>6, <2>7, <2>8, <2>9 DEF Run
<1>2. ASSUME NEW s \in Session, Expire(s) \/ ClientExits(s) \/ ContextStopsClient(s)
      PROVE  EventsInv'
  BY <1>2, EventsStill DEF Expire, ClientExits, ContextStopsClient
<1>3. ASSUME NEW p \in Process, Owed(p) PROVE EventsInv'
  BY <1>3, EventsStill DEF Owed, SuspendSink, RemoveSession, StopClient, ReleaseAudioIfUnused
<1>4. ASSUME NEW p \in Caller, Request(p) PROVE EventsInv'
  BY <1>4, EventsStill DEF Request, CancelAll, CancelSession, Cancel,
     ResolveAudioUnavailable, ResolveSSHHostKeyChange, Minimize, Resume
<1>5. ASSUME NEW p \in Caller, WindowStep(p) PROVE EventsInv'
  BY <1>5, EventsStill DEF WindowStep, HideWindow, Minimized, ResumeSink, ShowWindow, Resumed
<1>6. ASSUME NEW id \in Session, NEW n \in 1..StopAttempts, RetryStop(id, n)
      PROVE  EventsInv'
  BY <1>6, EventsStill DEF RetryStop
<1>7. CASE UNCHANGED vars
  BY <1>7, EventsStill DEF vars
<1> QED
  BY <1>1, <1>2, <1>3, <1>4, <1>5, <1>6, <1>7 DEF Next

\* The controller's accounting hears one failure, or a start and one exit, the
\* exit never while the client runs; no path of run skips it, and only a session
\* cancelled in time leaves something out (run, SessionEvent).
THEOREM EventsInOrder == Spec => []EventProtocol
<1>1. Init => EventsInv
  BY DEF Init, EventsInv, EventsOf, Unreported, Reported
<1>2. TypeOK /\ LaunchInv /\ EventsInv => EventProtocol
  <2> SUFFICES ASSUME TypeOK, LaunchInv, EventsInv, NEW s \in Session
               PROVE  /\ sent[s] \in {<<>>, <<"session_failed">>, <<"session_started">>,
                                      <<"session_exited">>,
                                      <<"session_started", "session_exited">>}
                      /\ sent[s] = <<"session_exited">> => s \in cancelled
                      /\ "session_exited" \in {sent[s][i] : i \in DOMAIN sent[s]}
                            => client[s] # "running"
                      /\ pc[s] = "done" =>
                            \/ sent[s] \in {<<"session_failed">>, <<"session_exited">>,
                                            <<"session_started", "session_exited">>}
                            \/ /\ sent[s] = <<>>
                               /\ s \in cancelled \/ manifest[s].protocol = "none"
    BY DEF EventProtocol
  <2>1. EventsOf(s) /\ pc[s] \in Unreported \cup Reported \cup {"finish", "done"}
    BY DEF EventsInv, TypeOK, RunPCs, Unreported, Reported
  <2>2. client[s] = "running" => pc[s] \in Reported
    BY DEF LaunchInv, ClientInsideRun, Reported
  <2>3. sent[s] \in {<<>>, <<"session_started">>} =>
            "session_exited" \notin {sent[s][i] : i \in DOMAIN sent[s]}
    OBVIOUS
  <2>4. <<"session_exited">> # <<"session_started">> /\ <<"session_exited">> # <<>>
            /\ <<"session_exited">> # <<"session_failed">>
            /\ <<"session_exited">> # <<"session_started", "session_exited">>
    OBVIOUS
  <2>5. pc[s] \in {"finish", "done"} => pc[s] \notin Reported
    BY DEF Reported
  <2> QED
    BY <2>1, <2>2, <2>3, <2>4, <2>5 DEF EventsOf
<1> QED
  BY <1>1, <1>2, EventsStep, TypeCorrect, LaunchInvariant, PTL DEF Spec

-----------------------------------------------------------------------------
(* Sinks.  A sink that is loaded is in use, or somebody is about to use it or
   to give it back; only then is nothing lost when everything has settled. *)

\* The first Run has not got its sink yet: nobody can have hidden the window,
\* and nobody removes the session.
Early == {"unborn", "redeem", "replace", "prepare", "keyChanged", "reportStarted",
          "activate", "launch", "audioReady"}

FirstRun(s) == pc[s] \in Early /\ ~muted[s]

Untouched(s) ==
    /\ entry[s].audioSink = None /\ ~entry[s].minimized /\ entry[s].pid = 0
    /\ \A p \in Process : s \notin frame[p].remove
    /\ \A p \in Caller : window[p].id # s
    /\ pc[s] = "unborn" <=> s \notin present

\* A window request finishes before its caller owes anything, and it goes on
\* with the sink of its session.
CallerInOrder(p) ==
    /\ window[p].step # "none" => frame[p] = Idle
    /\ window[p].step \in {"unmute", "show", "shown"} /\ window[p].id \in present =>
          entry[window[p].id].audioSink = window[p].sink

InUse(k) == \E s \in present : entry[s].audioSink = k /\ ~entry[s].minimized
Owned(k) == \E p \in Process : frame[p].suspend = k \/ k \in frame[p].release
Restoring(k) == \E p \in Caller : window[p].step \in {"show", "shown"} /\ window[p].sink = k
Loading(k) == \E s \in Session : pc[s] = "audioReady" /\ prepared[s] = k

Accounted(k) == InUse(k) \/ Owned(k) \/ Restoring(k) \/ Loading(k)

\* Inductive together with TypeOK and LaunchInv.
AudioInv ==
    /\ \A s \in Session : FirstRun(s) => Untouched(s)
    /\ \A s \in Session : pc[s] \in {"unborn", "audioReady"} => ~muted[s]
    /\ \A p \in Caller : CallerInOrder(p)
    /\ \A k \in Sink \ suspended : Accounted(k)

-----------------------------------------------------------------------------
(* What run and Cancel leave alone. *)

\* What a session's own goroutine does to the table: it never touches a window
\* mark, a sink only when audio is ready, a pid only when a client has started.
LEMMA RunKeepsMarks ==
    ASSUME TypeOK, NEW s \in Session, Run(s) \/ AudioFails(s)
    PROVE  /\ \A x \in Session : /\ entry'[x].windowState = entry[x].windowState
                                 /\ entry'[x].minimized = entry[x].minimized
                                 /\ \/ entry'[x].audioSink = entry[x].audioSink
                                    \/ x = s /\ AudioReady(s)
                                 /\ \/ entry'[x].pid = entry[x].pid
                                    \/ x = s /\ pc[s] = "started"
           /\ UNCHANGED <<present, window>>
<1> USE DEF env, tableVars, ctxVars, localVars, runVars, clientVars, outVars
<1>e. entry \in [Session -> Entry]
  BY DEF TypeOK
<1>0. CASE entry' = entry
  <2>1. UNCHANGED <<present, window>>
    BY DEF Run, RedeemFails, Redeem, CancelDuplicate, Prepare, HostKeyChanges, AskHostKey,
       ReportKeyChanged, PrepareFails, ReportFailed, Starting, ReportStarted, Activate,
       RunFails, PrepareAudio, AudioReady, WithoutSink, StartClient, RegisterPid,
       ClientReturns, AskAudioChoice, TakeAudioChoice, AbandonAudioChoice, AudioDeclined,
       RestartMuted, ReportExited, Finish, AudioFails
  <2> QED
    BY <1>0, <2>1
<1>1. ASSUME NEW st \in States, SetSession(s, st), UNCHANGED <<present, window>>
      PROVE  /\ \A x \in Session : /\ entry'[x].windowState = entry[x].windowState
                                   /\ entry'[x].minimized = entry[x].minimized
                                   /\ entry'[x].audioSink = entry[x].audioSink
                                   /\ entry'[x].pid = entry[x].pid
             /\ UNCHANGED <<present, window>>
  BY <1>1, <1>e DEF SetSession, Entry
<1>2. CASE RedeemFails(s) \/ Prepare(s) \/ PrepareFails(s) \/ Starting(s) \/ Activate(s)
           \/ RestartMuted(s) \/ Finish(s)
  BY <1>1, <1>2 DEF RedeemFails, Prepare, PrepareFails, Starting, Activate, RestartMuted,
     Finish, States
<1>3. ASSUME NEW c \in Connection, NEW protocol \in Protocol, Redeem(s, c, protocol)
      PROVE  /\ \A x \in Session : /\ entry'[x].windowState = entry[x].windowState
                                   /\ entry'[x].minimized = entry[x].minimized
                                   /\ entry'[x].audioSink = entry[x].audioSink
                                   /\ entry'[x].pid = entry[x].pid
             /\ UNCHANGED <<present, window>>
  BY <1>3, <1>e DEF Redeem, Entry
<1>4. ASSUME NEW d \in Session, CancelDuplicate(s, d)
      PROVE  /\ \A x \in Session : /\ entry'[x].windowState = entry[x].windowState
                                   /\ entry'[x].minimized = entry[x].minimized
                                   /\ entry'[x].audioSink = entry[x].audioSink
                                   /\ entry'[x].pid = entry[x].pid
             /\ UNCHANGED <<present, window>>
  BY <1>4, <1>e DEF CancelDuplicate, Cancel, Entry
<1>5. CASE AskHostKey(s) \/ AskAudioChoice(s) \/ TakeAudioChoice(s)
  BY <1>5, <1>e DEF AskHostKey, AskAudioChoice, TakeAudioChoice, Entry
<1>6. CASE AudioReady(s)
  BY <1>6, <1>e DEF AudioReady, Entry
<1>7. CASE RegisterPid(s)
  BY <1>7, <1>e DEF RegisterPid, Goto, Entry
<1> QED
  BY <1>0, <1>2, <1>3, <1>4, <1>5, <1>6, <1>7 DEF Run, HostKeyChanges, ReportKeyChanged,
     ReportFailed, ReportStarted, RunFails, PrepareAudio, WithoutSink, StartClient,
     ClientReturns, AbandonAudioChoice, AudioDeclined, ReportExited, AudioFails

\* Nor does Cancel, on behalf of anybody.
LEMMA CancelKeepsMarks ==
    ASSUME TypeOK, NEW p \in Process, NEW ids \in SUBSET Session, Cancel(p, ids)
    PROVE  \A x \in Session : /\ entry'[x].windowState = entry[x].windowState
                              /\ entry'[x].minimized = entry[x].minimized
                              /\ entry'[x].audioSink = entry[x].audioSink
                              /\ entry'[x].pid = entry[x].pid
  BY DEF TypeOK, Cancel, Entry

-----------------------------------------------------------------------------
(* No sink is lost. *)

\* Steps that leave sinks, frames and window requests alone.
LEMMA AudioStill ==
    ASSUME TypeOK, AudioInv, UNCHANGED <<present, frame, window, suspended, prepared>>,
           \A x \in Session : /\ entry'[x].audioSink = entry[x].audioSink
                              /\ entry'[x].minimized = entry[x].minimized
                              /\ entry'[x].pid = entry[x].pid \/ ~FirstRun(x)'
                              /\ FirstRun(x)' => FirstRun(x)
                              /\ pc[x] = "audioReady" <=> pc'[x] = "audioReady"
                              /\ pc[x] \in {"unborn", "audioReady"} => muted'[x] = muted[x]
                              /\ pc'[x] = "unborn" <=> pc[x] = "unborn"
    PROVE  AudioInv'
<1>1. ASSUME NEW s \in Session, FirstRun(s)' PROVE Untouched(s)'
  <2>1. Untouched(s)
    BY <1>1 DEF AudioInv
  <2> QED
    BY <1>1, <2>1 DEF Untouched
<1>2. ASSUME NEW p \in Caller PROVE CallerInOrder(p)'
  <2>1. CallerInOrder(p) /\ present \subseteq Session
    BY DEF AudioInv, TypeOK
  <2> QED
    BY <2>1 DEF CallerInOrder
<1>3. ASSUME NEW k \in Sink \ suspended PROVE Accounted(k)'
  <2>0. Accounted(k) /\ present \subseteq Session
    BY DEF AudioInv, TypeOK
  <2>1. InUse(k) => InUse(k)'
    BY <2>0 DEF InUse
  <2>2. Owned(k) => Owned(k)'
    BY DEF Owned
  <2>3. Restoring(k) => Restoring(k)'
    BY DEF Restoring
  <2>4. Loading(k) => Loading(k)'
    BY DEF Loading
  <2> QED
    BY <2>0, <2>1, <2>2, <2>3, <2>4 DEF Accounted
<1>4. (\A s \in Session : pc[s] \in {"unborn", "audioReady"} => ~muted[s])'
  BY DEF AudioInv
<1> QED
  BY <1>1, <1>2, <1>3, <1>4 DEF AudioInv

\* A goroutine that goes on, without its sink or its frame.
LEMMA AudioMoves ==
    ASSUME TypeOK, AudioInv, NEW s \in Session, Run(s) \/ AudioFails(s), ~AudioReady(s),
           NEW to, pc' = [pc EXCEPT ![s] = to], pc[s] \notin {"unborn", "audioReady"},
           to \notin {"unborn", "audioReady"}, UNCHANGED <<frame, suspended, prepared>>,
           to \in Early => pc[s] \in Early \/ muted'[s],
           muted' = muted \/ muted' = [muted EXCEPT ![s] = TRUE]
    PROVE  AudioInv'
<1>1. \A x \in Session : pc'[x] = IF x = s THEN to ELSE pc[x]
  BY DEF TypeOK
<1>2. \A x \in Session : /\ x # s => muted'[x] = muted[x]
                         /\ muted'[x] = muted[x] \/ muted'[x]
  BY DEF TypeOK
<1>3. \A x \in Session : FirstRun(x)' => FirstRun(x)
  BY <1>1, <1>2 DEF FirstRun
<1>4. pc[s] = "started" => ~FirstRun(s)'
  BY <1>3 DEF FirstRun, Early
<1> QED
  BY <1>1, <1>2, <1>3, <1>4, RunKeepsMarks, AudioStill

\* A goroutine that returns owes the removal of its own session.
LEMMA AudioLeaves ==
    ASSUME TypeOK, AudioInv, NEW s \in Session, Run(s), ~AudioReady(s),
           ReturnAndRemove(s), pc[s] \notin {"unborn", "audioReady"},
           UNCHANGED <<suspended, prepared, muted>>
    PROVE  AudioInv'
<1>p. s \in Process /\ s \notin Caller
  BY ConstantsAssumption DEF Process
<1>1. \A x \in Session : pc'[x] = IF x = s THEN "done" ELSE pc[x]
  BY DEF TypeOK, ReturnAndRemove
<1>2. /\ frame'[s].remove = {s} /\ frame'[s].suspend = frame[s].suspend
      /\ frame'[s].release = frame[s].release
      /\ \A p \in Process \ {s} : frame'[p] = frame[p]
  BY <1>p DEF TypeOK, Frame, ReturnAndRemove
<1>3. /\ \A x \in Session : /\ entry'[x].audioSink = entry[x].audioSink
                            /\ entry'[x].minimized = entry[x].minimized
                            /\ entry'[x].pid = entry[x].pid \/ x = s
      /\ UNCHANGED <<present, window>> /\ present \subseteq Session
  BY RunKeepsMarks DEF TypeOK
<1>4. ASSUME NEW x \in Session, FirstRun(x)' PROVE Untouched(x)'
  <2>1. x # s /\ FirstRun(x)
    BY <1>1, <1>4 DEF FirstRun, Early
  <2>2. Untouched(x)
    BY <2>1 DEF AudioInv
  <2> QED
    BY <1>1, <1>2, <1>3, <2>1, <2>2 DEF Untouched
<1>5. ASSUME NEW p \in Caller PROVE CallerInOrder(p)'
  <2>1. CallerInOrder(p) /\ p \in Process /\ p # s
    BY <1>p DEF AudioInv, Process
  <2> QED
    BY <1>2, <1>3, <2>1 DEF CallerInOrder
<1>6. ASSUME NEW k \in Sink \ suspended PROVE Accounted(k)'
  <2>0. Accounted(k)
    BY DEF AudioInv
  <2>1. InUse(k) => InUse(k)'
    BY <1>3 DEF InUse
  <2>2. Owned(k) => Owned(k)'
    BY <1>2 DEF Owned
  <2>3. Restoring(k) => Restoring(k)'
    BY <1>3 DEF Restoring
  <2>4. Loading(k) => Loading(k)'
    BY <1>1 DEF Loading
  <2> QED
    BY <2>0, <2>1, <2>2, <2>3, <2>4 DEF Accounted
<1>7. (\A x \in Session : pc[x] \in {"unborn", "audioReady"} => ~muted[x])'
  BY <1>1 DEF AudioInv
<1> QED
  BY <1>4, <1>5, <1>6, <1>7 DEF AudioInv

\* Whoever cancels owes nothing yet, and what is removed at once is past its
\* first Run.
LEMMA AudioCancels ==
    ASSUME TypeOK, LaunchInv, AudioInv, NEW p \in Process, NEW ids \in SUBSET present,
           Cancel(p, ids), frame[p] = Idle, p \in Caller => window[p].step = "none",
           UNCHANGED <<present, window, suspended, pc, muted, prepared>>
    PROVE  AudioInv'
<1>0. present \subseteq Session /\ ids \in SUBSET Session
  BY DEF TypeOK
<1>1. \A x \in Session : /\ entry'[x].audioSink = entry[x].audioSink
                         /\ entry'[x].minimized = entry[x].minimized
                         /\ entry'[x].pid = entry[x].pid
  BY <1>0, CancelKeepsMarks
<1>2. /\ \A q \in Process \ {p} : frame'[q] = frame[q]
      /\ \A x \in frame'[p].remove :
            x \in ids /\ (entry[x].state = "error" \/ entry[x].pendingSSH)
  BY DEF TypeOK, Cancel
<1>3. frame[p].suspend = None /\ frame[p].release = {}
  BY DEF Idle
<1>4. ASSUME NEW x \in Session, FirstRun(x)' PROVE Untouched(x)'
  <2>1. FirstRun(x)
    BY <1>4 DEF FirstRun
  <2>2. Untouched(x)
    BY <2>1 DEF AudioInv
  <2>3. x \in present => entry[x].state # "error" /\ ~entry[x].pendingSSH
    BY <1>4 DEF FirstRun, Early, LaunchInv, StateMatchesRun
  <2> QED
    BY <1>0, <1>1, <1>2, <2>2, <2>3 DEF Untouched
<1>5. ASSUME NEW q \in Caller PROVE CallerInOrder(q)'
  <2>1. CallerInOrder(q) /\ q \in Process
    BY DEF AudioInv, Process
  <2> QED
    BY <1>0, <1>1, <1>2, <2>1 DEF CallerInOrder
<1>6. ASSUME NEW k \in Sink \ suspended PROVE Accounted(k)'
  <2>0. Accounted(k) /\ k # None
    BY ConstantsAssumption DEF AudioInv
  <2>1. InUse(k) => InUse(k)'
    BY <1>0, <1>1 DEF InUse
  <2>2. Owned(k) => Owned(k)'
    BY <1>2, <1>3, <2>0 DEF Owned
  <2>3. Restoring(k) => Restoring(k)'
    BY DEF Restoring
  <2>4. Loading(k) => Loading(k)'
    BY DEF Loading
  <2> QED
    BY <2>0, <2>1, <2>2, <2>3, <2>4 DEF Accounted
<1> QED
  BY <1>4, <1>5, <1>6 DEF AudioInv

LEMMA AudioRun ==
    ASSUME TypeOK, LaunchInv, AudioInv, NEW s \in Session, Run(s) \/ AudioFails(s)
    PROVE  AudioInv'
<1> USE DEF env, tableVars, ctxVars, localVars, runVars, clientVars, outVars
<1>p. s \in Process /\ s \notin Caller
  BY ConstantsAssumption DEF Process
<1>1. ASSUME NEW d \in Session, CancelDuplicate(s, d) PROVE AudioInv'
  <2>1. CASE d \in present
    BY <1>p, <1>1, <2>1, AudioCancels DEF CancelDuplicate
  <2>2. CASE d \notin present
    BY <1>1, <2>2, AudioStill DEF CancelDuplicate, FirstRun
  <2> QED
    BY <2>1, <2>2
<1>2. CASE RedeemFails(s) \/ ReportFailed(s) \/ AudioDeclined(s) \/ Finish(s)
  <2>1. /\ ReturnAndRemove(s) /\ pc[s] \in {"redeem", "reportFailed", "declined", "finish"}
        /\ UNCHANGED <<suspended, prepared, muted>>
    BY <1>2 DEF RedeemFails, ReportFailed, AudioDeclined, Finish
  <2> QED
    BY <1>2, <2>1, AudioLeaves DEF Run, AudioReady, Goto
<1>3. CASE \/ \E c \in Connection, protocol \in Protocol : Redeem(s, c, protocol)
           \/ Prepare(s) \/ HostKeyChanges(s) \/ AskHostKey(s) \/ ReportKeyChanged(s)
           \/ PrepareFails(s) \/ Starting(s) \/ ReportStarted(s) \/ Activate(s)
           \/ RunFails(s) \/ WithoutSink(s) \/ StartClient(s) \/ RegisterPid(s)
           \/ (\E err \in BOOLEAN : ClientReturns(s, err)) \/ AskAudioChoice(s)
           \/ TakeAudioChoice(s) \/ AbandonAudioChoice(s) \/ RestartMuted(s)
           \/ ReportExited(s) \/ AudioFails(s)
  <2>0. UNCHANGED <<frame, suspended, prepared>>
    BY <1>3 DEF Redeem, Prepare, HostKeyChanges, AskHostKey, ReportKeyChanged, PrepareFails,
       Starting, ReportStarted, Activate, RunFails, WithoutSink, StartClient, RegisterPid,
       ClientReturns, AskAudioChoice, TakeAudioChoice, AbandonAudioChoice, RestartMuted,
       ReportExited, AudioFails
  <2>1. CASE RestartMuted(s)
    <3>1. muted' = [muted EXCEPT ![s] = TRUE] /\ pc[s] = "restart"
             /\ pc' = [pc EXCEPT ![s] = "activate"]
      BY <2>1 DEF RestartMuted, Goto
    <3>2. muted'[s]
      BY <3>1 DEF TypeOK
    <3> QED
      BY <2>0, <2>1, <3>1, <3>2, AudioMoves DEF AudioReady, Goto
  <2>2. CASE ~RestartMuted(s)
    <3>1. UNCHANGED muted
      BY <1>3, <2>2 DEF Redeem, Prepare, HostKeyChanges, AskHostKey, ReportKeyChanged,
         PrepareFails, Starting, ReportStarted, Activate, RunFails, WithoutSink, StartClient,
         RegisterPid, ClientReturns, AskAudioChoice, TakeAudioChoice, AbandonAudioChoice,
         ReportExited, AudioFails
    <3>2. \E to : /\ pc' = [pc EXCEPT ![s] = to] /\ to \notin {"unborn", "audioReady"}
                  /\ to \in Early => pc[s] \in Early
      <4>1. CASE \/ \E c \in Connection, protocol \in Protocol : Redeem(s, c, protocol)
                 \/ Prepare(s) \/ HostKeyChanges(s) \/ AskHostKey(s) \/ ReportKeyChanged(s)
                 \/ PrepareFails(s) \/ Starting(s) \/ ReportStarted(s) \/ Activate(s)
        BY <4>1 DEF Redeem, Prepare, HostKeyChanges, AskHostKey, ReportKeyChanged,
           PrepareFails, Starting, ReportStarted, Activate, Goto, Early
      <4>2. CASE \/ RunFails(s) \/ WithoutSink(s) \/ StartClient(s) \/ RegisterPid(s)
                 \/ (\E err \in BOOLEAN : ClientReturns(s, err)) \/ AbandonAudioChoice(s)
                 \/ ReportExited(s)
        BY <4>2 DEF RunFails, WithoutSink, StartClient, RegisterPid, ClientReturns,
           AbandonAudioChoice, ReportExited, Goto, Early
      <4>3. CASE AskAudioChoice(s)
        BY <4>3 DEF AskAudioChoice, Early
      <4>4. CASE TakeAudioChoice(s)
        <5>1. pc' = [pc EXCEPT ![s] = IF choice[s] = "accept" THEN "restart" ELSE "declined"]
          BY <4>4 DEF TakeAudioChoice
        <5>2. (IF choice[s] = "accept" THEN "restart" ELSE "declined") \in {"restart", "declined"}
          OBVIOUS
        <5> QED
          BY <5>1, <5>2 DEF Early
      <4>5. CASE AudioFails(s)
        BY <4>5 DEF AudioFails, Early
      <4> QED
        BY <1>3, <2>2, <4>1, <4>2, <4>3, <4>4, <4>5
    <3>3. pc[s] \notin {"unborn", "audioReady"}
      BY <1>3, <2>2 DEF Redeem, Prepare, HostKeyChanges, AskHostKey, ReportKeyChanged,
         PrepareFails, Starting, ReportStarted, Activate, RunFails, WithoutSink, StartClient,
         RegisterPid, ClientReturns, AskAudioChoice, TakeAudioChoice, AbandonAudioChoice,
         ReportExited, AudioFails, Goto
    <3>4. ~AudioReady(s)
      BY <3>3 DEF AudioReady, Goto
    <3> QED
      BY <2>0, <3>1, <3>2, <3>3, <3>4, AudioMoves
  <2> QED
    BY <2>1, <2>2
<1>4. ASSUME NEW j \in Sink, PrepareAudio(s, j) PROVE AudioInv'
  <2>1. /\ pc[s] = "launch" /\ ~muted[s] /\ UNCHANGED <<present, entry, frame, window, muted>>
        /\ \A x \in Session : pc'[x] = IF x = s THEN "audioReady" ELSE pc[x]
        /\ \A x \in Session : prepared'[x] = IF x = s THEN j ELSE prepared[x]
        /\ suspended' = suspended \ {j} /\ present \subseteq Session
    BY <1>4 DEF PrepareAudio, Goto, TypeOK
  <2>2. ASSUME NEW x \in Session, FirstRun(x)' PROVE Untouched(x)'
    <3>1. Untouched(x)
      BY <2>1, <2>2 DEF FirstRun, Early, AudioInv
    <3> QED
      BY <2>1, <3>1 DEF Untouched
  <2>3. \A p \in Caller : CallerInOrder(p)'
    BY <2>1 DEF AudioInv, CallerInOrder
  <2>4. ASSUME NEW k \in Sink \ suspended' PROVE Accounted(k)'
    <3>1. CASE k = j
      BY <2>1, <3>1 DEF Accounted, Loading
    <3>2. CASE k # j
      <4>0. Accounted(k)
        BY <2>1, <2>4, <3>2 DEF AudioInv
      <4>1. Loading(k) => Loading(k)'
        BY <2>1 DEF Loading
      <4> QED
        BY <2>1, <4>0, <4>1 DEF Accounted, InUse, Owned, Restoring
    <3> QED
      BY <3>1, <3>2
  <2>5. (\A x \in Session : pc[x] \in {"unborn", "audioReady"} => ~muted[x])'
    BY <2>1 DEF AudioInv
  <2> QED
    BY <2>2, <2>3, <2>4, <2>5 DEF AudioInv
<1>5. CASE AudioReady(s)
  <2>1. /\ pc[s] = "audioReady" /\ UNCHANGED <<present, frame, window, muted, suspended>>
        /\ \A x \in Session : pc'[x] = IF x = s THEN "start" ELSE pc[x]
        /\ \A x \in Session : prepared'[x] = IF x = s THEN None ELSE prepared[x]
        /\ \A x \in Session \ {s} : entry'[x] = entry[x]
        /\ present \subseteq Session
    BY <1>5 DEF AudioReady, Goto, TypeOK
  <2>m. s \in present => entry'[s].audioSink = prepared[s] /\ entry'[s].minimized = entry[s].minimized
    BY <1>5 DEF AudioReady, TypeOK, Entry
  <2>2. ASSUME NEW x \in Session, FirstRun(x)' PROVE Untouched(x)'
    <3>1. x # s
      BY <2>1, <2>2 DEF FirstRun, Early
    <3>2. Untouched(x)
      BY <2>1, <2>2, <3>1 DEF FirstRun, AudioInv
    <3> QED
      BY <2>1, <3>1, <3>2 DEF Untouched
  <2>3. FirstRun(s) /\ Untouched(s) /\ s \in present
    BY <2>1 DEF AudioInv, FirstRun, Early, Untouched
  <2>4. ASSUME NEW p \in Caller PROVE CallerInOrder(p)'
    <3>1. CallerInOrder(p) /\ window[p].id # s
      BY <2>3 DEF AudioInv, Untouched
    <3> QED
      BY <2>1, <3>1 DEF CallerInOrder
  <2>5. ASSUME NEW k \in Sink \ suspended PROVE Accounted(k)'
    <3>0. Accounted(k) /\ k # None
      BY ConstantsAssumption DEF AudioInv
    <3>1. InUse(k) => InUse(k)'
      <4>1. SUFFICES ASSUME NEW x \in present, entry[x].audioSink = k, ~entry[x].minimized
                     PROVE  InUse(k)'
        BY DEF InUse
      <4>2. x # s
        BY <2>3, <3>0, <4>1 DEF Untouched
      <4> QED
        BY <2>1, <4>1, <4>2 DEF InUse
    <3>2. Loading(k) => Loading(k)' \/ InUse(k)'
      BY <2>1, <2>m, <2>3 DEF Loading, InUse, Untouched
    <3> QED
      BY <2>1, <3>0, <3>1, <3>2 DEF Accounted, Owned, Restoring
  <2>6. (\A x \in Session : pc[x] \in {"unborn", "audioReady"} => ~muted[x])'
    BY <2>1 DEF AudioInv
  <2> QED
    BY <2>1, <2>2, <2>4, <2>5, <2>6 DEF AudioInv
<1> QED
  BY <1>1, <1>2, <1>3, <1>4, <1>5 DEF Run

\* A step of a process that has no window request under way, on its frame and
\* on sessions past their first Run, that loses no sink.
LEMMA AudioFrame ==
    ASSUME TypeOK, AudioInv, NEW p \in Process, UNCHANGED <<pc, muted, prepared, window>>,
           p \in Caller => window[p].step = "none",
           \A q \in Process \ {p} : frame'[q] = frame[q],
           \A x \in frame'[p].remove : x \in frame[p].remove \/ ~FirstRun(x),
           \A x \in Session : \/ entry'[x] = entry[x] /\ (x \in present' <=> x \in present)
                              \/ ~FirstRun(x) /\ x \notin present',
           present' \subseteq Session,
           \A k \in Sink \ suspended' : Accounted(k)'
    PROVE  AudioInv'
<1>1. ASSUME NEW x \in Session, FirstRun(x)' PROVE Untouched(x)'
  <2>1. FirstRun(x)
    BY <1>1 DEF FirstRun
  <2>2. Untouched(x)
    BY <2>1 DEF AudioInv
  <2> QED
    BY <2>1, <2>2 DEF Untouched
<1>2. ASSUME NEW q \in Caller PROVE CallerInOrder(q)'
  <2>1. CallerInOrder(q) /\ q \in Process
    BY DEF AudioInv, Process
  <2> QED
    BY <2>1 DEF CallerInOrder
<1>3. (\A x \in Session : pc[x] \in {"unborn", "audioReady"} => ~muted[x])'
  BY DEF AudioInv
<1> QED
  BY <1>1, <1>2, <1>3 DEF AudioInv

\* A step of a window request that loses no sink.
LEMMA AudioWindow ==
    ASSUME TypeOK, AudioInv, NEW p \in Caller, UNCHANGED <<present, pc, muted, prepared>>,
           \A q \in Caller \ {p} : window'[q] = window[q],
           \A q \in Process \ {p} : frame'[q] = frame[q],
           frame'[p].remove = {},
           window'[p].step # "none" => frame'[p] = Idle,
           window'[p].step \in {"unmute", "show", "shown"} /\ window'[p].id \in present =>
              entry[window'[p].id].audioSink = window'[p].sink,
           \A x \in Session : window'[p].id = x => ~FirstRun(x),
           \A x \in Session : /\ entry'[x].audioSink = entry[x].audioSink
                              /\ entry'[x].pid = entry[x].pid
                              /\ entry'[x].minimized = entry[x].minimized \/ ~FirstRun(x),
           \A k \in Sink \ suspended' : Accounted(k)'
    PROVE  AudioInv'
<1>0. present \subseteq Session
  BY DEF TypeOK
<1>1. ASSUME NEW x \in Session, FirstRun(x)' PROVE Untouched(x)'
  <2>1. FirstRun(x)
    BY <1>1 DEF FirstRun
  <2>2. Untouched(x)
    BY <2>1 DEF AudioInv
  <2> QED
    BY <2>1, <2>2 DEF Untouched
<1>2. ASSUME NEW q \in Caller PROVE CallerInOrder(q)'
  <2>1. CallerInOrder(q) /\ q \in Process
    BY DEF AudioInv, Process
  <2> QED
    BY <1>0, <2>1 DEF CallerInOrder
<1>3. (\A x \in Session : pc[x] \in {"unborn", "audioReady"} => ~muted[x])'
  BY DEF AudioInv
<1> QED
  BY <1>1, <1>2, <1>3 DEF AudioInv

\* A critical section that decides about a sink keeps it, or leaves it to a
\* session that uses it.
LEMMA SuspendedOrInUse ==
    ASSUME NEW ids, NEW table, NEW k \in Sink, SuspendAfter(ids, table, k) # k
    PROVE  \E s \in ids : table[s].audioSink = k /\ ~table[s].minimized
  BY ConstantsAssumption DEF SuspendAfter, AudioSinkInUse

LEMMA AudioOwed ==
    ASSUME TypeOK, AudioInv, NEW p \in Process, Owed(p)
    PROVE  AudioInv'
<1> USE DEF env, tableVars, ctxVars, localVars, runVars, clientVars, outVars
<1>0. frame[p] \in Frame /\ present \subseteq Session /\ None \notin Sink
  BY ConstantsAssumption DEF TypeOK
<1>1. p \in Caller => window[p].step = "none"
  <2>0. \/ frame[p].suspend # None \/ frame[p].remove # {} \/ frame[p].stop # {}
        \/ frame[p].release # {}
    BY DEF Owed, SuspendSink, RemoveSession, StopClient, ReleaseAudioIfUnused
  <2>1. frame[p] # Idle
    BY <2>0 DEF Idle
  <2> QED
    BY <2>1 DEF AudioInv, CallerInOrder
<1>2. CASE SuspendSink(p)
  <2>1. /\ frame'[p].suspend = None /\ frame'[p].remove = frame[p].remove
        /\ frame'[p].release = frame[p].release
        /\ \A q \in Process \ {p} : frame'[q] = frame[q]
        /\ UNCHANGED <<present, entry, pc, muted, prepared, window>>
        /\ suspended' = suspended \cup {frame[p].suspend}
    BY <1>0, <1>2 DEF SuspendSink, TypeOK, Frame
  <2>2. ASSUME NEW k \in Sink \ suspended' PROVE Accounted(k)'
    <3>1. Accounted(k) /\ k # frame[p].suspend
      BY <2>1, <2>2 DEF AudioInv
    <3>2. Owned(k) => Owned(k)'
      BY <2>1, <3>1 DEF Owned
    <3> QED
      BY <2>1, <3>1, <3>2 DEF Accounted, InUse, Restoring, Loading
  <2> QED
    BY <1>0, <1>1, <2>1, <2>2, AudioFrame
<1>3. ASSUME NEW id \in Session, RemoveSession(p, id) PROVE AudioInv'
  <2> DEFINE j == entry[id].audioSink
  <2>1. /\ frame[p].suspend = None /\ id \in frame[p].remove
        /\ frame'[p].suspend = SuspendAfter(present', entry', j)
        /\ frame'[p].remove = frame[p].remove \ {id}
        /\ frame'[p].release = frame[p].release
        /\ \A q \in Process \ {p} : frame'[q] = frame[q]
        /\ \A x \in Session \ {id} : entry'[x] = entry[x]
        /\ UNCHANGED <<pc, muted, prepared, window, suspended>>
        /\ present' = present \ {id}
    BY <1>0, <1>3 DEF RemoveSession, TypeOK, Frame
  <2>2. ~FirstRun(id)
    BY <2>1 DEF AudioInv, Untouched
  <2>3. ASSUME NEW k \in Sink \ suspended PROVE Accounted(k)'
    <3>1. Accounted(k)
      BY DEF AudioInv
    <3>2. Owned(k) => Owned(k)'
      BY <1>0, <2>1 DEF Owned
    <3>3. InUse(k) => InUse(k)' \/ Owned(k)'
      <4>1. SUFFICES ASSUME NEW x \in present, entry[x].audioSink = k, ~entry[x].minimized
                     PROVE  InUse(k)' \/ Owned(k)'
        BY DEF InUse
      <4>2. CASE x # id
        BY <1>0, <2>1, <4>1, <4>2 DEF InUse
      <4>3. CASE x = id
        <5>1. CASE frame'[p].suspend = k
          BY <5>1 DEF Owned
        <5>2. CASE frame'[p].suspend # k
          <6>1. \E s \in present' : entry'[s].audioSink = k /\ ~entry'[s].minimized
            BY <2>1, <4>1, <4>3, <5>2, SuspendedOrInUse
          <6> QED
            BY <6>1 DEF InUse
        <5> QED
          BY <5>1, <5>2
      <4> QED
        BY <4>2, <4>3
    <3>4. (Restoring(k) => Restoring(k)') /\ (Loading(k) => Loading(k)')
      BY <2>1 DEF Restoring, Loading
    <3> QED
      BY <3>1, <3>2, <3>3, <3>4 DEF Accounted
  <2> HIDE DEF j
  <2> QED
    BY <1>0, <1>1, <2>1, <2>2, <2>3, AudioFrame
<1>4. ASSUME NEW id \in Session, StopClient(p, id) PROVE AudioInv'
  <2>1. /\ frame'[p].suspend = frame[p].suspend /\ frame'[p].remove = frame[p].remove
        /\ frame'[p].release = frame[p].release
        /\ \A q \in Process \ {p} : frame'[q] = frame[q]
        /\ UNCHANGED <<present, entry, pc, muted, prepared, window, suspended>>
    BY <1>0, <1>4 DEF StopClient, TypeOK, Frame
  <2>2. ASSUME NEW k \in Sink \ suspended PROVE Accounted(k)'
    <3>1. Accounted(k)
      BY DEF AudioInv
    <3>2. Owned(k) => Owned(k)'
      BY <2>1 DEF Owned
    <3> QED
      BY <2>1, <3>1, <3>2 DEF Accounted, InUse, Restoring, Loading
  <2> QED
    BY <1>0, <1>1, <2>1, <2>2, AudioFrame
<1>5. ASSUME NEW j \in Sink, ReleaseAudioIfUnused(p, j) PROVE AudioInv'
  <2>1. /\ frame[p].suspend = None
        /\ frame'[p].suspend = SuspendAfter(present, entry, j)
        /\ frame'[p].remove = frame[p].remove
        /\ frame'[p].release = frame[p].release \ {j}
        /\ \A q \in Process \ {p} : frame'[q] = frame[q]
        /\ UNCHANGED <<present, entry, pc, muted, prepared, window, suspended>>
    BY <1>0, <1>5 DEF ReleaseAudioIfUnused, TypeOK, Frame
  <2>2. ASSUME NEW k \in Sink \ suspended PROVE Accounted(k)'
    <3>1. Accounted(k)
      BY DEF AudioInv
    <3>2. Owned(k) => Owned(k)' \/ InUse(k)'
      <4>1. CASE k # j
        BY <1>0, <2>1, <4>1 DEF Owned
      <4>2. CASE k = j
        <5>1. CASE frame'[p].suspend = k
          BY <5>1 DEF Owned
        <5>2. CASE frame'[p].suspend # k
          <6>1. \E s \in present : entry[s].audioSink = k /\ ~entry[s].minimized
            BY <2>1, <4>2, <5>2, SuspendedOrInUse
          <6> QED
            BY <2>1, <6>1 DEF InUse
        <5> QED
          BY <5>1, <5>2
      <4> QED
        BY <4>1, <4>2
    <3> QED
      BY <2>1, <3>1, <3>2 DEF Accounted, InUse, Restoring, Loading
  <2> QED
    BY <1>0, <1>1, <2>1, <2>2, AudioFrame
<1> QED
  BY <1>2, <1>3, <1>4, <1>5 DEF Owed

LEMMA AudioRequest ==
    ASSUME TypeOK, LaunchInv, AudioInv, NEW p \in Caller, Request(p)
    PROVE  AudioInv'
<1> USE DEF env, tableVars, ctxVars, localVars, runVars, clientVars, outVars
<1>e. entry \in [Session -> Entry] /\ present \subseteq Session /\ p \in Process
  BY DEF TypeOK, Process
<1>f. Free(p)
  BY DEF Request, CancelAll, CancelSession, ResolveAudioUnavailable,
     ResolveSSHHostKeyChange, Minimize, Resume
<1>0. frame[p] = Idle /\ window[p].step = "none"
  BY <1>f DEF Free, NoWindowCall
<1>1. CASE CancelAll(p)
  BY <1>e, <1>0, <1>1, AudioCancels DEF CancelAll
<1>2. ASSUME NEW id \in Session, CancelSession(p, id) PROVE AudioInv'
  BY <1>e, <1>0, <1>2, AudioCancels DEF CancelSession
<1>3. ASSUME NEW id \in Session, NEW a \in {"accept", "decline"},
             ResolveAudioUnavailable(p, id, a)
      PROVE  AudioInv'
  <2>1. \A x \in Session : /\ entry'[x].audioSink = entry[x].audioSink
                           /\ entry'[x].minimized = entry[x].minimized
                           /\ entry'[x].pid = entry[x].pid
    BY <1>3, <1>e DEF ResolveAudioUnavailable, Entry
  <2> QED
    BY <1>3, <2>1, AudioStill DEF ResolveAudioUnavailable, FirstRun
<1>4. ASSUME NEW id \in Session, ResolveSSHHostKeyChange(p, id) PROVE AudioInv'
  <2>1. /\ frame'[p].remove = {id} /\ frame'[p].suspend = frame[p].suspend
        /\ frame'[p].release = frame[p].release
        /\ \A q \in Process \ {p} : frame'[q] = frame[q]
        /\ UNCHANGED <<present, entry, pc, muted, prepared, window, suspended>>
    BY <1>4, <1>e DEF ResolveSSHHostKeyChange, TypeOK, Frame
  <2>2. ~FirstRun(id)
    BY <1>4 DEF ResolveSSHHostKeyChange, LaunchInv, StateMatchesRun, FirstRun, Early
  <2>3. ASSUME NEW k \in Sink \ suspended PROVE Accounted(k)'
    <3>1. Accounted(k)
      BY DEF AudioInv
    <3>2. Owned(k) => Owned(k)'
      BY <2>1 DEF Owned
    <3> QED
      BY <2>1, <3>1, <3>2 DEF Accounted, InUse, Restoring, Loading
  <2> QED
    BY <1>e, <1>0, <2>1, <2>2, <2>3, AudioFrame
<1>5. ASSUME NEW id \in Session, Minimize(p, id) \/ Resume(p, id) PROVE AudioInv'
  <2>1. /\ window'[p].step \in {"hide", "unmute"} /\ window'[p].id = id
        /\ window'[p].step = "unmute" => window'[p].sink = entry[id].audioSink
        /\ \A q \in Caller \ {p} : window'[q] = window[q]
        /\ UNCHANGED <<present, entry, pc, muted, prepared, frame, suspended>>
    BY <1>5 DEF Minimize, Resume, TypeOK
  <2>2. ~FirstRun(id)
    BY <1>5 DEF Minimize, Resume, AudioInv, Untouched
  <2>3. ASSUME NEW k \in Sink \ suspended PROVE Accounted(k)'
    <3>1. Accounted(k)
      BY DEF AudioInv
    <3>2. Restoring(k) => Restoring(k)'
      BY <1>0, <2>1 DEF Restoring
    <3> QED
      BY <2>1, <3>1, <3>2 DEF Accounted, InUse, Owned, Loading
  <2>4. frame'[p].remove = {}
    BY <1>0, <2>1 DEF Idle
  <2> QED
    BY <1>0, <2>1, <2>2, <2>3, <2>4, AudioWindow
<1> QED
  BY <1>1, <1>2, <1>3, <1>4, <1>5 DEF Request

LEMMA AudioWindowStep ==
    ASSUME TypeOK, AudioInv, NEW p \in Caller, WindowStep(p)
    PROVE  AudioInv'
<1> USE DEF env, tableVars, ctxVars, localVars, runVars, clientVars, outVars
<1>e. entry \in [Session -> Entry] /\ present \subseteq Session /\ p \in Process
         /\ frame \in [Process -> Frame]
         /\ window \in [Caller -> WindowCall \cup {NoWindowCall}] /\ None \notin Sink
  BY ConstantsAssumption DEF TypeOK, Process
<1>n. NoWindowCall.step = "none" /\ NoWindowCall.id \notin Session
  BY ConstantsAssumption DEF NoWindowCall
<1>0. window[p].step # "none" /\ window[p] \in WindowCall
  BY <1>e, WindowStepType DEF WindowStep, HideWindow, Minimized, ResumeSink, ShowWindow, Resumed
<1>1. /\ frame[p] = Idle /\ window[p].id \in Session /\ ~FirstRun(window[p].id)
      /\ window[p].sink \in Sink \cup {None}
  BY <1>0 DEF AudioInv, CallerInOrder, Untouched, WindowCall
<1>2. frame[p].suspend = None /\ frame[p].release = {} /\ frame[p].remove = {}
  BY <1>1 DEF Idle
<1>3. CASE HideWindow(p)
  <2>1. /\ UNCHANGED <<present, entry, pc, muted, prepared, frame, suspended>>
        /\ \A q \in Caller \ {p} : window'[q] = window[q]
        /\ window[p].step = "hide"
        /\ \/ window'[p] = NoWindowCall
           \/ window'[p].step = "hidden" /\ window'[p].id = window[p].id
    BY <1>3, HideEffect DEF HideWindow
  <2>2. ASSUME NEW k \in Sink \ suspended PROVE Accounted(k)'
    <3>1. Accounted(k)
      BY DEF AudioInv
    <3>2. Restoring(k) => Restoring(k)'
      BY <2>1 DEF Restoring
    <3> QED
      BY <2>1, <3>1, <3>2 DEF Accounted, InUse, Owned, Loading
  <2> QED
    BY <1>n, <1>1, <1>2, <2>1, <2>2, AudioWindow
<1>4. CASE Minimized(p)
  <2> DEFINE id == window[p].id
             j == entry[id].audioSink
  <2>0. /\ UNCHANGED <<present, pc, muted, prepared, suspended>>
        /\ \A q \in Caller \ {p} : window'[q] = window[q]
        /\ window[p].step = "hidden" /\ window'[p] = NoWindowCall
        /\ \A q \in Process \ {p} : frame'[q] = frame[q]
        /\ frame'[p].remove = {}
    BY <1>e, <1>2, <1>4 DEF Minimized, Frame
  <2>1. CASE ~(id \in present /\ entry[id].state = "active")
    <3>1. UNCHANGED <<entry, frame>>
      BY <1>4, <2>1 DEF Minimized
    <3>2. ASSUME NEW k \in Sink \ suspended PROVE Accounted(k)'
      <4>1. Accounted(k)
        BY DEF AudioInv
      <4>2. Restoring(k) => Restoring(k)'
        BY <2>0 DEF Restoring
      <4> QED
        BY <2>0, <3>1, <4>1, <4>2 DEF Accounted, InUse, Owned, Loading
    <3> QED
      BY <1>n, <2>0, <3>1, <3>2, AudioWindow
  <2>2. CASE id \in present /\ entry[id].state = "active"
    <3>1. /\ \A x \in Session : /\ entry'[x].audioSink = entry[x].audioSink
                                /\ entry'[x].pid = entry[x].pid
          /\ \A x \in Session \ {id} : entry'[x] = entry[x]
          /\ frame'[p].suspend = SuspendAfter(present', entry', j)
      BY <1>e, <1>1, <1>4, <2>2 DEF Minimized, Entry, Frame
    <3>2. ASSUME NEW k \in Sink \ suspended PROVE Accounted(k)'
      <4>1. Accounted(k)
        BY DEF AudioInv
      <4>2. Restoring(k) => Restoring(k)'
        BY <2>0 DEF Restoring
      <4>3. Owned(k) => Owned(k)'
        BY <1>e, <1>2, <2>0 DEF Owned
      <4>4. InUse(k) => InUse(k)' \/ Owned(k)'
        <5>1. CASE k # j
          BY <1>e, <2>0, <3>1, <5>1 DEF InUse
        <5>2. CASE k = j /\ frame'[p].suspend = k
          BY <1>e, <5>2 DEF Owned
        <5>3. CASE k = j /\ frame'[p].suspend # k
          <6>1. \E s \in present' : entry'[s].audioSink = k /\ ~entry'[s].minimized
            BY <3>1, <5>3, SuspendedOrInUse
          <6> QED
            BY <6>1 DEF InUse
        <5> QED
          BY <5>1, <5>2, <5>3
      <4>5. Loading(k) => Loading(k)'
        BY <2>0 DEF Loading
      <4> QED
        BY <4>1, <4>2, <4>3, <4>4, <4>5 DEF Accounted
    <3> HIDE DEF j
    <3> QED
      BY <1>n, <1>1, <2>0, <3>1, <3>2, AudioWindow
  <2> QED
    BY <2>1, <2>2
<1>5. CASE ResumeSink(p)
  <2>1. /\ UNCHANGED <<present, entry, pc, muted, prepared, frame>>
        /\ \A q \in Caller \ {p} : window'[q] = window[q]
        /\ window[p].step = "unmute" /\ window'[p].step = "show"
        /\ window'[p].id = window[p].id /\ window'[p].sink = window[p].sink
        /\ suspended' = suspended \ {window[p].sink}
    BY <1>e, <1>0, <1>5 DEF ResumeSink, WindowCall
  <2>2. ASSUME NEW k \in Sink \ suspended' PROVE Accounted(k)'
    <3>1. CASE k = window[p].sink
      BY <2>1, <3>1 DEF Accounted, Restoring
    <3>2. CASE k # window[p].sink
      <4>1. Accounted(k)
        BY <2>1, <2>2, <3>2 DEF AudioInv
      <4>2. Restoring(k) => Restoring(k)'
        BY <2>1 DEF Restoring
      <4> QED
        BY <2>1, <4>1, <4>2 DEF Accounted, InUse, Owned, Loading
    <3> QED
      BY <3>1, <3>2
  <2>3. CallerInOrder(p)
    BY DEF AudioInv
  <2> QED
    BY <1>1, <1>2, <2>1, <2>2, <2>3, AudioWindow DEF CallerInOrder
<1>6. CASE ShowWindow(p)
  <2>0. /\ UNCHANGED <<present, entry, pc, muted, prepared, suspended>>
        /\ \A q \in Caller \ {p} : window'[q] = window[q]
        /\ \A q \in Process \ {p} : frame'[q] = frame[q]
        /\ frame'[p].remove = {} /\ frame'[p].suspend = frame[p].suspend
        /\ window[p].step = "show"
    BY <1>e, <1>2, <1>6 DEF ShowWindow, Frame
  <2>1. \/ /\ window'[p].step = "shown" /\ window'[p].id = window[p].id
           /\ window'[p].sink = window[p].sink /\ frame' = frame
        \/ window'[p] = NoWindowCall /\ frame'[p].release = {window[p].sink} \ {None}
    BY <1>e, <1>0, <1>6 DEF ShowWindow, WindowCall, Frame
  <2>2. ASSUME NEW k \in Sink \ suspended PROVE Accounted(k)'
    <3>1. Accounted(k) /\ k # None
      BY <1>e DEF AudioInv
    <3>2. Restoring(k) => Restoring(k)' \/ Owned(k)'
      BY <1>e, <2>0, <2>1, <3>1 DEF Restoring, Owned
    <3>3. Owned(k) => Owned(k)'
      BY <1>2, <2>0, <2>1, <3>1 DEF Owned
    <3> QED
      BY <2>0, <3>1, <3>2, <3>3 DEF Accounted, InUse, Loading
  <2>3. CallerInOrder(p)
    BY DEF AudioInv
  <2>4. /\ window'[p].step # "none" => frame'[p] = Idle
        /\ window'[p].step \in {"unmute", "show", "shown"} /\ window'[p].id \in present =>
              entry[window'[p].id].audioSink = window'[p].sink
        /\ \A x \in Session : window'[p].id = x => ~FirstRun(x)
    BY <1>n, <1>1, <2>0, <2>1, <2>3 DEF CallerInOrder
  <2> QED
    BY <2>0, <2>2, <2>4, AudioWindow
<1>7. CASE Resumed(p)
  <2> DEFINE id == window[p].id
  <2>0. /\ UNCHANGED <<present, pc, muted, prepared, suspended>>
        /\ \A q \in Caller \ {p} : window'[q] = window[q]
        /\ \A q \in Process \ {p} : frame'[q] = frame[q]
        /\ frame'[p].remove = {} /\ frame'[p].suspend = frame[p].suspend
        /\ window[p].step = "shown" /\ window'[p] = NoWindowCall
    <3>1. CASE id \in present /\ entry[id].state = "active"
      BY <1>e, <1>2, <1>7, <3>1 DEF Resumed
    <3>2. CASE ~(id \in present /\ entry[id].state = "active")
      BY <1>e, <1>2, <1>7, <3>2 DEF Resumed, Frame
    <3> QED
      BY <3>1, <3>2
  <2>1. \/ /\ frame' = frame /\ id \in present /\ ~entry'[id].minimized
           /\ \A x \in Session : /\ entry'[x].audioSink = entry[x].audioSink
                                 /\ entry'[x].pid = entry[x].pid
           /\ \A x \in Session \ {id} : entry'[x] = entry[x]
        \/ /\ entry' = entry /\ frame'[p].release = {window[p].sink} \ {None}
    <3>1. CASE id \in present /\ entry[id].state = "active"
      BY <1>e, <1>1, <1>7, <3>1 DEF Resumed, Entry
    <3>2. CASE ~(id \in present /\ entry[id].state = "active")
      BY <1>e, <1>7, <3>2 DEF Resumed, Frame
    <3> QED
      BY <3>1, <3>2
  <2>2. CallerInOrder(p)
    BY DEF AudioInv
  <2>3. ASSUME NEW k \in Sink \ suspended PROVE Accounted(k)'
    <3>1. Accounted(k) /\ k # None
      BY <1>e DEF AudioInv
    <3>2. Restoring(k) => Restoring(k)' \/ Owned(k)' \/ InUse(k)'
      <4>1. SUFFICES ASSUME NEW q \in Caller, window[q].step \in {"show", "shown"},
                            window[q].sink = k
                     PROVE  Restoring(k)' \/ Owned(k)' \/ InUse(k)'
        BY DEF Restoring
      <4>2. CASE q # p
        BY <2>0, <4>1, <4>2 DEF Restoring
      <4>3. CASE q = p
        BY <1>e, <2>0, <2>1, <2>2, <3>1, <4>1, <4>3 DEF Owned, InUse, CallerInOrder
      <4> QED
        BY <4>2, <4>3
    <3>3. Owned(k) => Owned(k)'
      BY <1>2, <2>0, <2>1, <3>1 DEF Owned
    <3>4. InUse(k) => InUse(k)'
      BY <1>e, <2>0, <2>1 DEF InUse
    <3>5. Loading(k) => Loading(k)'
      BY <2>0 DEF Loading
    <3> QED
      BY <3>1, <3>2, <3>3, <3>4, <3>5 DEF Accounted
  <2>4. \A x \in Session : /\ entry'[x].audioSink = entry[x].audioSink
                           /\ entry'[x].pid = entry[x].pid
                           /\ entry'[x].minimized = entry[x].minimized \/ ~FirstRun(x)
    BY <1>1, <2>1
  <2> QED
    BY <1>n, <2>0, <2>3, <2>4, AudioWindow
<1> QED
  BY <1>3, <1>4, <1>5, <1>6, <1>7 DEF WindowStep

LEMMA AudioStep == TypeOK /\ LaunchInv /\ AudioInv /\ [Next]_vars => AudioInv'
<1> SUFFICES ASSUME TypeOK, LaunchInv, AudioInv, [Next]_vars PROVE AudioInv'
  OBVIOUS
<1> USE DEF env, tableVars, ctxVars, localVars, runVars, clientVars, outVars
<1>1. ASSUME NEW s \in Session, Launch(s) PROVE AudioInv'
  <2>1. /\ pc[s] = "unborn" /\ UNCHANGED <<frame, window, suspended, muted, prepared>>
        /\ \A x \in Session : pc'[x] = IF x = s THEN "redeem" ELSE pc[x]
        /\ \A x \in Session : entry'[x] = IF x = s THEN Blank ELSE entry[x]
        /\ present' = present \cup {s} /\ present \subseteq Session
    BY <1>1 DEF Launch, Goto, TypeOK
  <2>2. ASSUME NEW x \in Session, FirstRun(x)' PROVE Untouched(x)'
    <3>1. FirstRun(x)
      BY <2>1, <2>2 DEF FirstRun, Early
    <3>2. Untouched(x)
      BY <3>1 DEF AudioInv
    <3> QED
      BY <2>1, <3>2 DEF Untouched, Blank
  <2>3. s \notin present /\ \A p \in Caller : window[p].id # s
    BY <2>1 DEF AudioInv, FirstRun, Early, Untouched
  <2>4. ASSUME NEW p \in Caller PROVE CallerInOrder(p)'
    <3>1. CallerInOrder(p) /\ window[p].id # s
      BY <2>3 DEF AudioInv
    <3> QED
      BY <2>1, <3>1 DEF CallerInOrder
  <2>5. ASSUME NEW k \in Sink \ suspended PROVE Accounted(k)'
    <3>1. Accounted(k)
      BY DEF AudioInv
    <3>2. InUse(k) => InUse(k)'
      BY <2>1, <2>3 DEF InUse
    <3>3. Loading(k) => Loading(k)'
      BY <2>1 DEF Loading
    <3> QED
      BY <2>1, <3>1, <3>2, <3>3 DEF Accounted, Owned, Restoring
  <2>6. (\A x \in Session : pc[x] \in {"unborn", "audioReady"} => ~muted[x])'
    BY <2>1 DEF AudioInv
  <2> QED
    BY <2>1, <2>2, <2>4, <2>5, <2>6 DEF AudioInv
<1>2. ASSUME NEW s \in Session, Run(s) \/ AudioFails(s) PROVE AudioInv'
  BY <1>2, AudioRun
<1>3. ASSUME NEW s \in Session, Expire(s) \/ ClientExits(s) \/ ContextStopsClient(s)
      PROVE  AudioInv'
  BY <1>3, AudioStill DEF Expire, ClientExits, ContextStopsClient, FirstRun
<1>4. ASSUME NEW id \in Session, NEW n \in 1..StopAttempts, RetryStop(id, n) PROVE AudioInv'
  BY <1>4, AudioStill DEF RetryStop, FirstRun
<1>5. CASE UNCHANGED vars
  BY <1>5, AudioStill DEF vars, FirstRun
<1> QED
  BY <1>1, <1>2, <1>3, <1>4, <1>5, AudioOwed, AudioRequest, AudioWindowStep DEF Next

LEMMA InitAudio == Init => AudioInv
<1> SUFFICES ASSUME Init PROVE AudioInv
  OBVIOUS
<1>1. \A s \in Session : Untouched(s)
  BY ConstantsAssumption DEF Init, Untouched, Blank, Idle, NoWindowCall
<1>2. \A p \in Caller : CallerInOrder(p)
  BY DEF Init, CallerInOrder, NoWindowCall
<1> QED
  BY <1>1, <1>2 DEF Init, AudioInv

\* Once everything has settled every loaded sink is in use by a session on the
\* dashboard: no order of launches, removals, cancels and window requests
\* leaves one loaded for nobody (removeSession, Minimize, Resume,
\* releaseAudioIfUnused), whatever the number of sessions and callers.
THEOREM SinksReturned == Spec => []UnusedSinkReleased
<1>1. Init => AudioInv
  BY InitAudio
<1>2. AudioInv => UnusedSinkReleased
  <2> SUFFICES ASSUME AudioInv, AudioQuiet, NEW k \in Sink \ suspended
               PROVE  \E s \in present : entry[s].audioSink = k /\ ~entry[s].minimized
    BY DEF UnusedSinkReleased
  <2>1. Accounted(k) /\ k # None
    BY ConstantsAssumption DEF AudioInv
  <2> QED
    BY <2>1 DEF AudioQuiet, Accounted, InUse, Owned, Restoring, Loading
<1> QED
  BY <1>1, <1>2, AudioStep, TypeCorrect, LaunchInvariant, PTL DEF Spec
-----------------------------------------------------------------------------
(* Hidden windows under requests that do not overlap. *)

\* Some card's Resume would map the window of d, or the request that has hidden
\* it is about to mark one.
Remembered(d) ==
    \/ \E s \in present : entry[s].minimized /\ entry[s].windowState = <<d, starts[d]>>
    \/ \E p \in Caller : window[p].step = "hidden" /\ window[p].target = <<d, starts[d]>>

\* A Minimize has a session that is not marked yet; a Resume maps the window its
\* session remembers, and clears the mark when that window is back.
RequestAgrees(p) ==
    LET id == window[p].id IN
    /\ window[p].step \in {"hide", "hidden"} => ~entry[id].minimized
    /\ window[p].step \in {"unmute", "show", "shown"} =>
          entry[id].windowState = window[p].target
    /\ window[p].step = "shown" =>
          \A d \in hidden : window[p].target # <<d, starts[d]>>

Tracked == /\ \A d \in hidden : Remembered(d)
           /\ \A p \in Caller : RequestAgrees(p)

\* Marks, pids, clients, hidden windows and requests are all of sessions that have
\* started a client.
Begun(s) ==
    entry[s].pid # 0 \/ entry[s].minimized \/ client[s] = "running" \/ s \in hidden
        => starts[s] > 0

\* Inductive together with TypeOK and LaunchInv.
WindowInv ==
    /\ \A s \in Session : Begun(s)
    /\ \A p \in Caller : window[p].step # "none" => starts[window[p].id] > 0
    /\ Steady => Tracked

\* A session is made active by its own goroutine only, on its way to Run, and
\* its pid names the client that goroutine started last.
LEMMA RunActivates ==
    ASSUME TypeOK, NEW s \in Session, Run(s) \/ AudioFails(s)
    PROVE  \A x \in Session :
              /\ entry'[x].state = "active" =>
                    entry[x].state = "active" \/ (x = s /\ pc[s] = "activate")
              /\ entry'[x].pid = entry[x].pid \/ entry'[x].pid = starts[x]
<1> DEFINE Goal == \A x \in Session :
              /\ entry'[x].state = "active" =>
                    entry[x].state = "active" \/ (x = s /\ pc[s] = "activate")
              /\ entry'[x].pid = entry[x].pid \/ entry'[x].pid = starts[x]
<1>e. entry \in [Session -> Entry]
  BY DEF TypeOK
<1>0. CASE entry' = entry
  BY <1>0
<1>1. ASSUME NEW st \in States \ {"active"}, SetSession(s, st) PROVE Goal
  BY <1>1, <1>e DEF SetSession, Entry
<1>2. CASE RedeemFails(s) \/ Prepare(s) \/ PrepareFails(s) \/ Starting(s)
           \/ RestartMuted(s) \/ Finish(s)
  BY <1>1, <1>2 DEF RedeemFails, Prepare, PrepareFails, Starting, RestartMuted,
     Finish, States
<1>3. CASE Activate(s)
  BY <1>3, <1>e DEF Activate, SetSession, Goto, Entry
<1>4. ASSUME NEW c \in Connection, NEW protocol \in Protocol, Redeem(s, c, protocol)
      PROVE  Goal
  BY <1>4, <1>e DEF Redeem, Entry
<1>5. ASSUME NEW d \in Session, CancelDuplicate(s, d) PROVE Goal
  BY <1>5, <1>e DEF CancelDuplicate, Cancel, Entry
<1>6. CASE AskHostKey(s) \/ AskAudioChoice(s) \/ TakeAudioChoice(s)
  BY <1>6, <1>e DEF AskHostKey, AskAudioChoice, TakeAudioChoice, Entry
<1>7. CASE AudioReady(s)
  BY <1>7, <1>e DEF AudioReady, Entry
<1>8. CASE RegisterPid(s)
  BY <1>8, <1>e DEF RegisterPid, Entry
<1> QED
  BY <1>0, <1>2, <1>3, <1>4, <1>5, <1>6, <1>7, <1>8 DEF Run, HostKeyChanges,
     ReportKeyChanged, ReportFailed, ReportStarted, RunFails, PrepareAudio, WithoutSink,
     StartClient, ClientReturns, AbandonAudioChoice, AudioDeclined, ReportExited, AudioFails,
     tableVars

\* Steps that hide, show and start nothing.
LEMMA WindowStill ==
    ASSUME TypeOK, WindowInv, UNCHANGED <<starts, window, hidden>>,
           \A x \in Session :
              /\ entry'[x].pid # 0 => entry[x].pid # 0 \/ starts[x] > 0
              /\ entry'[x].minimized => entry[x].minimized
              /\ client'[x] = "running" => client[x] = "running",
           \A x \in Session :
              x \in present' /\ client'[x] = "running" /\ entry'[x].state = "active" =>
                 /\ x \in present /\ entry[x].state = "active"
                 /\ entry'[x].minimized = entry[x].minimized
                 /\ entry'[x].windowState = entry[x].windowState
    PROVE  WindowInv'
<1>1. (\A s \in Session : Begun(s))'
  BY DEF WindowInv, Begun
<1>2. (\A p \in Caller : window[p].step # "none" => starts[window[p].id] > 0)'
  BY DEF WindowInv
<1>3. ASSUME Steady' PROVE Tracked'
  <2>1. \A x \in Session : starts[x] > 0 =>
           /\ x \in present /\ x \in present' /\ entry[x].state = "active"
           /\ client[x] = "running" /\ starts[x] = 1
           /\ entry'[x].minimized = entry[x].minimized
           /\ entry'[x].windowState = entry[x].windowState
    BY <1>3 DEF Steady
  <2>2. Tracked
    BY <2>1 DEF WindowInv, Steady
  <2>3. ASSUME NEW d \in hidden PROVE Remembered(d)'
    <3>1. Remembered(d)
      BY <2>2, <2>3 DEF Tracked
    <3>2. ASSUME NEW s \in present, entry[s].minimized,
                 entry[s].windowState = <<d, starts[d]>>
          PROVE  Remembered(d)'
      <4>1. s \in Session
        BY DEF TypeOK
      <4>2. starts[s] > 0
        BY <3>2, <4>1 DEF WindowInv, Begun
      <4> QED
        BY <2>1, <3>2, <4>1, <4>2 DEF Remembered
    <3> QED
      BY <3>1, <3>2 DEF Remembered
  <2>4. ASSUME NEW p \in Caller PROVE RequestAgrees(p)'
    <3>1. RequestAgrees(p)
      BY <2>2 DEF Tracked
    <3>2. CASE window[p].step = "none"
      BY <3>2 DEF RequestAgrees
    <3>3. CASE window[p].step # "none"
      <4>1. window[p].id \in Session /\ starts[window[p].id] > 0
        BY <3>3, WindowStepType DEF WindowInv, WindowCall, TypeOK
      <4> QED
        BY <2>1, <3>1, <4>1 DEF RequestAgrees
    <3> QED
      BY <3>2, <3>3
  <2> QED
    BY <2>3, <2>4 DEF Tracked
<1> QED
  BY <1>1, <1>2, <1>3 DEF WindowInv

\* A step of a request.
LEMMA WindowMoves ==
    ASSUME TypeOK, WindowInv, UNCHANGED <<starts, present, client>>,
           \A x \in Session : /\ entry'[x].pid = entry[x].pid
                              /\ entry'[x].state = entry[x].state
                              /\ entry'[x].minimized => starts[x] > 0
                              /\ x \in hidden' => starts[x] > 0,
           \A q \in Caller : window'[q].step # "none" => starts[window'[q].id] > 0,
           Steady /\ Tracked => Tracked'
    PROVE  WindowInv'
<1>1. (\A s \in Session : Begun(s))'
  BY DEF WindowInv, Begun
<1>2. Steady' => Steady
  BY DEF Steady
<1> QED
  BY <1>1, <1>2 DEF WindowInv

\* With one caller, the request that takes a step is the only one.
LEMMA WindowRequests ==
    ASSUME TypeOK, WindowInv, OneCaller, NEW p \in Caller, NEW id \in Session,
           Minimize(p, id) \/ Resume(p, id)
    PROVE  WindowInv'
<1> USE DEF env, tableVars, ctxVars, localVars, runVars, clientVars, outVars
<1>1. /\ UNCHANGED <<starts, present, client, entry, hidden>> /\ starts[id] > 0
      /\ window'[p].id = id /\ window[p].step = "none" /\ \A q \in Caller : q = p
      /\ \/ ~entry[id].minimized /\ window'[p].step = "hide"
         \/ window'[p].step = "unmute" /\ window'[p].target = entry[id].windowState
  <2>1. Free(p) /\ (entry[id].pid # 0 \/ entry[id].minimized)
    BY DEF Minimize, Resume
  <2>2. starts[id] > 0 /\ window[p].step = "none"
    BY <2>1 DEF WindowInv, Begun, Free, NoWindowCall
  <2>3. \A q \in Caller : q = p
    BY DEF OneCaller
  <2> QED
    BY <2>2, <2>3 DEF Minimize, Resume, TypeOK
<1>2. Tracked => Tracked'
  BY <1>1 DEF Tracked, Remembered, RequestAgrees
<1>3. \A x \in Session : entry[x].minimized \/ x \in hidden => starts[x] > 0
  BY DEF WindowInv, Begun
<1> QED
  BY <1>1, <1>2, <1>3, WindowMoves

LEMMA WindowSteps ==
    ASSUME TypeOK, WindowInv, OneCaller, NEW p \in Caller, WindowStep(p)
    PROVE  WindowInv'
<1> USE DEF env, tableVars, ctxVars, localVars, runVars, clientVars, outVars
<1> DEFINE id == window[p].id
<1>e. entry \in [Session -> Entry] /\ present \subseteq Session /\ hidden \subseteq Session
         /\ window \in [Caller -> WindowCall \cup {NoWindowCall}]
         /\ starts \in [Session -> Nat]
  BY DEF TypeOK
<1>n. NoWindowCall.step = "none"
  BY DEF NoWindowCall
<1>0. window[p].step # "none" /\ window[p] \in WindowCall
  BY <1>e, WindowStepType DEF WindowStep, HideWindow, Minimized, ResumeSink, ShowWindow, Resumed
<1>1. /\ id \in Session /\ starts[id] > 0 /\ \A q \in Caller : q = p
      /\ UNCHANGED <<starts, present, client>>
  <2>1. UNCHANGED <<starts, present, client>>
    BY DEF WindowStep, HideWindow, Minimized, ResumeSink, ShowWindow, Resumed
  <2> QED
    BY <1>0, <2>1 DEF OneCaller, WindowInv, WindowCall
<1>m. \A x \in Session : /\ entry[x].minimized \/ x \in hidden => starts[x] > 0
                         /\ client[x] = "running" => starts[x] > 0
  BY DEF WindowInv, Begun
<1>s. ASSUME Steady PROVE /\ id \in present /\ entry[id].state = "active"
                          /\ \A d \in hidden : client[d] = "running"
  BY <1>s, <1>e, <1>1, <1>m DEF Steady
<1>3. ASSUME NEW st \in {"show", "shown"}, window' = [window EXCEPT ![p].step = st]
      PROVE  /\ window'[p].step = st /\ window'[p].id = id
             /\ window'[p].target = window[p].target
  BY <1>3, <1>0, <1>e DEF WindowCall
<1>4. ASSUME window' = [window EXCEPT ![p] = NoWindowCall]
      PROVE  window'[p].step = "none"
  BY <1>4, <1>e, <1>n
<1>5. CASE HideWindow(p)
  <2>1. UNCHANGED entry /\ window[p].step = "hide"
    BY <1>5 DEF HideWindow
  <2>2. CASE window'[p] = NoWindowCall /\ hidden' = hidden
    <3>1. Tracked => Tracked'
      BY <1>1, <1>n, <2>1, <2>2 DEF Tracked, Remembered, RequestAgrees
    <3> QED
      BY <1>e, <1>1, <1>m, <1>n, <2>1, <2>2, <3>1, WindowMoves
  <2>3. CASE /\ window'[p].step = "hidden" /\ window'[p].id = id
             /\ \/ hidden' = hidden
                \/ \E d \in Session :
                      /\ client[d] = "running" /\ hidden' = hidden \cup {d}
                      /\ window'[p].target = <<d, starts[d]>>
    <3>1. Tracked => Tracked'
      BY <1>1, <2>1, <2>3 DEF Tracked, Remembered, RequestAgrees
    <3> QED
      BY <1>e, <1>1, <1>m, <2>1, <2>3, <3>1, WindowMoves
  <2> QED
    BY <1>5, <2>2, <2>3, HideEffect
<1>6. CASE Minimized(p)
  <2>1. UNCHANGED hidden /\ window[p].step = "hidden" /\ window'[p].step = "none"
    BY <1>4, <1>6 DEF Minimized
  <2>2. CASE id \in present /\ entry[id].state = "active"
    <3>1. /\ entry'[id].minimized /\ entry'[id].pid = entry[id].pid
          /\ entry'[id].state = entry[id].state
          /\ entry'[id].windowState = window[p].target
          /\ \A x \in Session \ {id} : entry'[x] = entry[x]
      BY <1>e, <1>1, <1>6, <2>2 DEF Minimized, Entry
    <3>2. ASSUME Tracked PROVE Tracked'
      <4>1. ~entry[id].minimized
        BY <2>1, <3>2 DEF Tracked, RequestAgrees
      <4>2. ASSUME NEW d \in hidden PROVE Remembered(d)'
        <5>1. Remembered(d)
          BY <3>2 DEF Tracked
        <5>2. ASSUME NEW s \in present, entry[s].minimized,
                     entry[s].windowState = <<d, starts[d]>>
              PROVE  Remembered(d)'
          <6>1. s # id /\ entry'[s] = entry[s]
            BY <1>e, <3>1, <4>1, <5>2
          <6> QED
            BY <1>1, <5>2, <6>1 DEF Remembered
        <5>3. CASE window[p].target = <<d, starts[d]>>
          BY <1>1, <2>2, <3>1, <5>3 DEF Remembered
        <5> QED
          BY <1>1, <5>1, <5>2, <5>3 DEF Remembered
      <4> QED
        BY <1>1, <2>1, <4>2 DEF Tracked, RequestAgrees
    <3> QED
      BY <1>1, <1>m, <2>1, <3>1, <3>2, WindowMoves
  <2>3. CASE ~(id \in present /\ entry[id].state = "active")
    <3>1. UNCHANGED entry /\ ~Steady
      BY <1>6, <1>s, <2>3 DEF Minimized
    <3> QED
      BY <1>1, <1>m, <2>1, <3>1, WindowMoves
  <2> QED
    BY <2>2, <2>3
<1>7. CASE ResumeSink(p)
  <2>1. UNCHANGED <<entry, hidden>> /\ window[p].step = "unmute"
           /\ window'[p].step = "show" /\ window'[p].id = id
           /\ window'[p].target = window[p].target
    BY <1>3, <1>7 DEF ResumeSink
  <2>2. Tracked => Tracked'
    BY <1>1, <2>1 DEF Tracked, Remembered, RequestAgrees
  <2> QED
    BY <1>1, <1>m, <2>1, <2>2, WindowMoves
<1>8. CASE ShowWindow(p)
  <2> DEFINE shown == {d \in Session : /\ client[d] = "running"
                                       /\ window[p].target = <<d, starts[d]>>}
  <2>1. UNCHANGED entry /\ window[p].step = "show"
    BY <1>8 DEF ShowWindow
  <2>2. CASE window' = [window EXCEPT ![p] = NoWindowCall] /\ hidden' \subseteq hidden
    <3>1. Tracked => Tracked'
      BY <1>1, <1>4, <2>1, <2>2 DEF Tracked, Remembered, RequestAgrees
    <3> QED
      BY <1>1, <1>m, <1>4, <2>1, <2>2, <3>1, WindowMoves
  <2>3. CASE window' = [window EXCEPT ![p].step = "shown"] /\ hidden' = hidden \ shown
    <3>1. window'[p].step = "shown" /\ window'[p].id = id
             /\ window'[p].target = window[p].target
      BY <1>3, <2>3
    <3>2. ASSUME Steady, Tracked PROVE Tracked'
      <4>1. \A d \in hidden' : window[p].target # <<d, starts[d]>>
        BY <1>e, <1>s, <2>3, <3>2
      <4>2. \A d \in hidden' : Remembered(d)'
        BY <1>1, <2>1, <2>3, <3>2 DEF Tracked, Remembered
      <4>3. RequestAgrees(p)'
        BY <1>1, <2>1, <3>1, <3>2, <4>1 DEF Tracked, RequestAgrees
      <4> QED
        BY <1>1, <4>2, <4>3 DEF Tracked
    <3> QED
      BY <1>1, <1>m, <2>1, <2>3, <3>1, <3>2, WindowMoves
  <2>4. \/ window' = [window EXCEPT ![p] = NoWindowCall] /\ hidden' \subseteq hidden
        \/ window' = [window EXCEPT ![p].step = "shown"] /\ hidden' = hidden \ shown
    BY <1>8 DEF ShowWindow
  <2> QED
    BY <2>2, <2>3, <2>4
<1>9. CASE Resumed(p)
  <2>1. UNCHANGED hidden /\ window[p].step = "shown" /\ window'[p].step = "none"
    BY <1>4, <1>9 DEF Resumed
  <2>2. CASE id \in present /\ entry[id].state = "active"
    <3>1. /\ ~entry'[id].minimized /\ entry'[id].pid = entry[id].pid
          /\ entry'[id].state = entry[id].state
          /\ \A x \in Session \ {id} : entry'[x] = entry[x]
      BY <1>e, <1>1, <1>9, <2>2 DEF Resumed, Entry
    <3>2. ASSUME Tracked PROVE Tracked'
      <4>1. \A d \in hidden : entry[id].windowState # <<d, starts[d]>>
        BY <2>1, <3>2 DEF Tracked, RequestAgrees
      <4>2. ASSUME NEW d \in hidden PROVE Remembered(d)'
        <5>1. Remembered(d) /\ \A q \in Caller : window[q].step # "hidden"
          BY <1>1, <2>1, <3>2 DEF Tracked
        <5>2. PICK s \in present :
                 entry[s].minimized /\ entry[s].windowState = <<d, starts[d]>>
          BY <5>1 DEF Remembered
        <5>3. s # id /\ entry'[s] = entry[s]
          BY <1>e, <3>1, <4>1, <5>2
        <5> QED
          BY <1>1, <5>2, <5>3 DEF Remembered
      <4> QED
        BY <1>1, <2>1, <4>2 DEF Tracked, RequestAgrees
    <3> QED
      BY <1>1, <1>m, <2>1, <3>1, <3>2, WindowMoves
  <2>3. CASE ~(id \in present /\ entry[id].state = "active")
    <3>1. UNCHANGED entry /\ ~Steady
      BY <1>9, <1>s, <2>3 DEF Resumed
    <3> QED
      BY <1>1, <1>m, <2>1, <3>1, WindowMoves
  <2> QED
    BY <2>2, <2>3
<1> QED
  BY <1>5, <1>6, <1>7, <1>8, <1>9 DEF WindowStep

LEMMA WindowInvStep ==
    TypeOK /\ LaunchInv /\ OneCaller /\ WindowInv /\ [Next]_vars => WindowInv'
<1> SUFFICES ASSUME TypeOK, LaunchInv, OneCaller, WindowInv, [Next]_vars
             PROVE  WindowInv'
  OBVIOUS
<1> USE DEF env, tableVars, ctxVars, localVars, runVars, clientVars, outVars
<1>e. entry \in [Session -> Entry] /\ present \subseteq Session /\ hidden \subseteq Session
  BY DEF TypeOK
<1>c. \A s \in Session : pc[s] \notin {"started", "wait"} => client[s] # "running"
  BY DEF LaunchInv, ClientInsideRun
<1>1. ASSUME NEW s \in Session, Launch(s) PROVE WindowInv'
  <2>1. /\ \A x \in Session : entry'[x] = IF x = s THEN Blank ELSE entry[x]
        /\ present' = present \cup {s} /\ client' = client /\ client[s] # "running"
    BY <1>1, <1>e, <1>c DEF Launch, Goto
  <2> QED
    BY <1>e, <1>1, <2>1, WindowStill DEF Launch, Blank
<1>2. ASSUME NEW s \in Session, Run(s) \/ AudioFails(s), ~StartClient(s) PROVE WindowInv'
  <2>1. /\ UNCHANGED <<starts, hidden>>
        /\ \A x \in Session : client'[x] = "running" => client[x] = "running"
    BY <1>2 DEF Run, RedeemFails, Redeem, CancelDuplicate, Prepare, HostKeyChanges, AskHostKey,
       ReportKeyChanged, PrepareFails, ReportFailed, Starting, ReportStarted, Activate,
       RunFails, PrepareAudio, AudioReady, WithoutSink, RegisterPid,
       ClientReturns, AskAudioChoice, TakeAudioChoice, AbandonAudioChoice, AudioDeclined,
       RestartMuted, ReportExited, Finish, AudioFails, TypeOK
  <2>2. /\ UNCHANGED <<present, window>>
        /\ \A x \in Session : /\ entry'[x].minimized = entry[x].minimized
                              /\ entry'[x].windowState = entry[x].windowState
    BY <1>2, RunKeepsMarks
  <2>3. \A x \in Session :
           /\ client[x] = "running" /\ entry'[x].state = "active" => entry[x].state = "active"
           /\ entry'[x].pid # 0 => entry[x].pid # 0 \/ starts[x] > 0
    <3>1. \A x \in Session :
             /\ entry'[x].state = "active" =>
                   entry[x].state = "active" \/ (x = s /\ pc[s] = "activate")
             /\ entry'[x].pid = entry[x].pid \/ entry'[x].pid = starts[x]
      BY <1>2, RunActivates
    <3>2. starts \in [Session -> Nat]
      BY DEF TypeOK
    <3> QED
      BY <1>c, <3>1, <3>2
  <2> QED
    BY <1>e, <2>1, <2>2, <2>3, WindowStill
<1>3. ASSUME NEW s \in Session, StartClient(s) PROVE WindowInv'
  <2>1. /\ UNCHANGED <<present, entry, window>>
        /\ starts \in [Session -> Nat] /\ starts'[s] = starts[s] + 1
        /\ \A x \in Session \ {s} : client'[x] = client[x] /\ starts'[x] = starts[x]
        /\ hidden' = hidden \ {s}
    BY <1>3 DEF StartClient, TypeOK
  <2>2. \A p \in Caller : window[p].step # "none" => window[p].id \in Session
    BY DEF TypeOK, WindowCall, NoWindowCall
  <2>3. (\A x \in Session : Begun(x))'
    BY <2>1 DEF WindowInv, Begun
  <2>4. (\A p \in Caller : window[p].step # "none" => starts[window[p].id] > 0)'
    BY <2>1, <2>2 DEF WindowInv
  <2>5. ASSUME Steady' PROVE Tracked'
    <3>1. starts[s] = 0 /\ s \notin hidden
      BY <1>e, <2>1, <2>5 DEF Steady, WindowInv, Begun
    <3>2. Steady
      BY <2>1, <2>5, <3>1 DEF Steady
    <3>3. hidden' = hidden /\ \A d \in hidden : starts'[d] = starts[d]
      BY <1>e, <2>1, <3>1
    <3>4. Tracked
      BY <3>2 DEF WindowInv
    <3>5. ASSUME NEW d \in hidden PROVE Remembered(d)'
      BY <2>1, <3>3, <3>4, <3>5 DEF Tracked, Remembered
    <3> QED
      BY <2>1, <3>3, <3>4, <3>5 DEF Tracked, RequestAgrees
  <2> QED
    BY <2>3, <2>4, <2>5 DEF WindowInv
<1>4. ASSUME NEW s \in Session, Expire(s) \/ ClientExits(s) \/ ContextStopsClient(s)
      PROVE  WindowInv'
  BY <1>4, <1>e, WindowStill DEF Expire, ClientExits, ContextStopsClient, TypeOK
<1>5. ASSUME NEW p \in Process, SuspendSink(p) \/ \E k \in Sink : ReleaseAudioIfUnused(p, k)
      PROVE  WindowInv'
  BY <1>5, <1>e, WindowStill DEF SuspendSink, ReleaseAudioIfUnused
<1>6. ASSUME NEW p \in Process, NEW id \in Session, RemoveSession(p, id) PROVE WindowInv'
  <2>1. \A x \in Session : entry'[x] = IF x = id THEN Blank ELSE entry[x]
    BY <1>6, <1>e DEF RemoveSession
  <2> QED
    BY <1>6, <1>e, <2>1, WindowStill DEF RemoveSession, Blank
<1>7. ASSUME NEW p \in Process, NEW id \in Session, StopClient(p, id) PROVE WindowInv'
  BY <1>7, <1>e, StopEffect, WindowStill, ConstantsAssumption
     DEF StopClient, EnsureSessionStopped, TypeOK
<1>8. ASSUME NEW id \in Session, NEW n \in 1..StopAttempts, RetryStop(id, n)
      PROVE  WindowInv'
  BY <1>8, <1>e, StopEffect, WindowStill DEF RetryStop, EnsureSessionStopped, TypeOK
<1>9. ASSUME NEW p \in Caller, NEW ids \in SUBSET Session, Cancel(p, ids),
             UNCHANGED <<present, starts, client, window, hidden>>
      PROVE  WindowInv'
  <2>1. p \in Process
    BY DEF Process
  <2>2. \A x \in Session : entry'[x].state = "active" => entry[x].state = "active"
    BY <1>9, <1>e DEF Cancel, Entry
  <2> QED
    BY <1>9, <1>e, <2>1, <2>2, CancelKeepsMarks, WindowStill
<1>10. ASSUME NEW p \in Caller, Request(p) PROVE WindowInv'
  <2>1. CASE CancelAll(p)
    BY <2>1, <1>e, <1>9 DEF CancelAll
  <2>2. ASSUME NEW id \in Session, CancelSession(p, id) PROVE WindowInv'
    BY <2>2, <1>9 DEF CancelSession
  <2>3. ASSUME NEW id \in Session, NEW a \in {"accept", "decline"},
               ResolveAudioUnavailable(p, id, a)
        PROVE  WindowInv'
    <3>1. \A x \in Session : /\ entry'[x].pid = entry[x].pid
                             /\ entry'[x].minimized = entry[x].minimized
                             /\ entry'[x].windowState = entry[x].windowState
                             /\ entry'[x].state = entry[x].state
      BY <2>3, <1>e DEF ResolveAudioUnavailable, Entry
    <3> QED
      BY <2>3, <1>e, <3>1, WindowStill DEF ResolveAudioUnavailable
  <2>4. ASSUME NEW id \in Session, ResolveSSHHostKeyChange(p, id) PROVE WindowInv'
    BY <2>4, <1>e, WindowStill DEF ResolveSSHHostKeyChange
  <2> QED
    BY <1>10, <2>1, <2>2, <2>3, <2>4, WindowRequests DEF Request
<1>11. CASE UNCHANGED vars
  BY <1>11, <1>e, WindowStill DEF vars
<1> QED
  BY <1>1, <1>2, <1>3, <1>4, <1>5, <1>6, <1>7, <1>8, <1>10, <1>11, WindowSteps
     DEF Next, Owed

\* For requests that do not overlap: no window of a live session is lost, with
\* any number of sessions on the dashboard, whichever windows Minimize took for
\* them, and whichever of Resume's two commands failed (Minimize, Resume and the
\* window commands they run with the mutex released).
THEOREM HiddenWindowsAreRestorable == Spec => []HiddenWindowsRestorable
<1> DEFINE I == OneCaller => WindowInv
<1>1. Init => I
  BY DEF Init, WindowInv, Begun, Tracked, RequestAgrees, Blank, NoWindowCall
<1>2. TypeOK /\ LaunchInv /\ I /\ [Next]_vars => I'
  BY WindowInvStep DEF OneCaller
<1>3. I => HiddenWindowsRestorable
  <2> SUFFICES ASSUME WindowInv, \A p \in Caller : window[p].step = "none", Steady,
                      NEW d \in hidden
               PROVE  \E s \in present :
                         entry[s].minimized /\ entry[s].windowState = <<d, starts[d]>>
    BY DEF HiddenWindowsRestorable
  <2>1. Remembered(d)
    BY DEF WindowInv, Tracked
  <2> QED
    BY <2>1 DEF Remembered
<1> HIDE DEF I
<1> QED
  BY <1>1, <1>2, <1>3, TypeCorrect, LaunchInvariant, PTL DEF Spec

-----------------------------------------------------------------------------
(* The sole session keeps its sound. *)

\* No other session has been launched.
SoleLaunch(s) == \A d \in Session \ {s} : pc[d] = "unborn"

\* A sink is taken from the sole session only while it is minimised.
SinkHeld(s) ==
    /\ \A d \in Session : frame[d].suspend = None /\ frame[d].release = {}
    /\ \A p \in Caller :
          /\ frame[p].suspend # None \/ frame[p].release # {} => entry[s].minimized
          /\ window[p].step \in {"unmute", "show", "shown"} => entry[s].minimized
          /\ window[p].step \in {"show", "shown"} => entry[s].audioSink \notin suspended
    /\ ~entry[s].minimized => entry[s].audioSink \notin suspended
    /\ pc[s] = "audioReady" => prepared[s] \notin suspended

\* A cancelled session that still has its client is not active.
CancelledInactive ==
    \A s \in present : s \in cancelled /\ client[s] = "running" => entry[s].state # "active"

\* Nobody owes anything to the sinks before the first launch.
NothingOwedYet ==
    (\A s \in Session : pc[s] = "unborn") =>
        \A p \in Process : frame[p].suspend = None /\ frame[p].release = {}

\* Inductive together with TypeOK, LaunchInv and AudioInv.
SinkInv ==
    /\ CancelledInactive
    /\ NothingOwedYet
    /\ \A s \in present \ cancelled : SoleLaunch(s) => SinkHeld(s)

\* What the goroutine of a session does to its place in run.
LEMMA RunGoesOn ==
    ASSUME TypeOK, NEW s \in Session, Run(s) \/ AudioFails(s)
    PROVE  /\ pc[s] # "unborn" /\ pc'[s] # "unborn"
           /\ \A x \in Session \ {s} : pc'[x] = pc[x]
<1> USE DEF env, tableVars, ctxVars, localVars, runVars, clientVars, outVars
<1>0. pc \in [Session -> RunPCs]
  BY DEF TypeOK
<1>1. CASE RedeemFails(s) \/ ReportFailed(s) \/ AudioDeclined(s) \/ Finish(s)
  BY <1>0, <1>1 DEF RedeemFails, ReportFailed, AudioDeclined, Finish, ReturnAndRemove
<1>2. CASE \/ \E c \in Connection, protocol \in Protocol : Redeem(s, c, protocol)
           \/ \E d \in Session : CancelDuplicate(s, d)
           \/ Prepare(s) \/ HostKeyChanges(s) \/ AskHostKey(s) \/ ReportKeyChanged(s)
           \/ PrepareFails(s) \/ Starting(s) \/ ReportStarted(s) \/ Activate(s)
  BY <1>0, <1>2 DEF Redeem, CancelDuplicate, Prepare, HostKeyChanges, AskHostKey,
     ReportKeyChanged, PrepareFails, Starting, ReportStarted, Activate, Goto
<1>3. CASE \/ RunFails(s) \/ (\E k \in Sink : PrepareAudio(s, k)) \/ AudioReady(s)
           \/ WithoutSink(s) \/ StartClient(s) \/ RegisterPid(s)
           \/ (\E err \in BOOLEAN : ClientReturns(s, err))
  BY <1>0, <1>3 DEF RunFails, PrepareAudio, AudioReady, WithoutSink, StartClient, RegisterPid,
     ClientReturns, Goto
<1>4. CASE AskAudioChoice(s) \/ AudioFails(s)
  BY <1>0, <1>4 DEF AskAudioChoice, AudioFails
<1>5. CASE TakeAudioChoice(s)
  BY <1>0, <1>5 DEF TakeAudioChoice
<1>6. CASE AbandonAudioChoice(s) \/ RestartMuted(s) \/ ReportExited(s)
  BY <1>0, <1>6 DEF AbandonAudioChoice, RestartMuted, ReportExited, Goto
<1> QED
  BY <1>1, <1>2, <1>3, <1>4, <1>5, <1>6 DEF Run

\* Unless it cancels a duplicate it owes the sinks nothing new, and the sink it
\* has prepared is loaded.
LEMMA RunKeepsSinks ==
    ASSUME TypeOK, NEW s \in Session, Run(s) \/ AudioFails(s),
           \A d \in present : ~CancelDuplicate(s, d)
    PROVE  /\ \A p \in Process : /\ frame'[p].suspend = frame[p].suspend
                                 /\ frame'[p].release = frame[p].release
           /\ suspended' \subseteq suspended /\ cancelled' = cancelled
           /\ pc'[s] = "audioReady" => prepared'[s] \notin suspended'
<1> USE DEF env, tableVars, ctxVars, localVars, runVars, clientVars, outVars
<1>0. pc \in [Session -> RunPCs] /\ frame \in [Process -> Frame]
         /\ prepared \in [Session -> Sink \cup {None}] /\ s \in Process
  BY DEF TypeOK, Process
<1>1. CASE RedeemFails(s) \/ ReportFailed(s) \/ AudioDeclined(s) \/ Finish(s)
  <2>1. ReturnAndRemove(s) /\ UNCHANGED <<suspended, cancelled>>
    BY <1>1 DEF RedeemFails, ReportFailed, AudioDeclined, Finish
  <2> QED
    BY <1>0, <2>1 DEF ReturnAndRemove, Frame
<1>2. CASE \/ \E c \in Connection, protocol \in Protocol : Redeem(s, c, protocol)
           \/ \E d \in Session : CancelDuplicate(s, d)
           \/ Prepare(s) \/ HostKeyChanges(s) \/ AskHostKey(s) \/ ReportKeyChanged(s)
           \/ PrepareFails(s) \/ Starting(s) \/ ReportStarted(s) \/ Activate(s)
  BY <1>0, <1>2 DEF Redeem, CancelDuplicate, Prepare, HostKeyChanges, AskHostKey,
     ReportKeyChanged, PrepareFails, Starting, ReportStarted, Activate, Goto
<1>3. CASE \/ RunFails(s) \/ (\E k \in Sink : PrepareAudio(s, k)) \/ AudioReady(s)
           \/ WithoutSink(s) \/ StartClient(s) \/ RegisterPid(s)
           \/ (\E err \in BOOLEAN : ClientReturns(s, err))
  BY <1>0, <1>3 DEF RunFails, PrepareAudio, AudioReady, WithoutSink, StartClient, RegisterPid,
     ClientReturns, Goto
<1>4. CASE AskAudioChoice(s) \/ AudioFails(s)
  BY <1>0, <1>4 DEF AskAudioChoice, AudioFails
<1>5. CASE TakeAudioChoice(s)
  BY <1>0, <1>5 DEF TakeAudioChoice
<1>6. CASE AbandonAudioChoice(s) \/ RestartMuted(s) \/ ReportExited(s)
  BY <1>0, <1>6 DEF AbandonAudioChoice, RestartMuted, ReportExited, Goto
<1> QED
  BY <1>1, <1>2, <1>3, <1>4, <1>5, <1>6 DEF Run

\* A session nobody has launched is in nobody's hands.
LEMMA UnbornUntouched ==
    ASSUME AudioInv, NEW d \in Session, pc[d] = "unborn"
    PROVE  /\ d \notin present /\ \A p \in Process : d \notin frame[p].remove
           /\ \A p \in Caller : window[p].id # d
  BY DEF AudioInv, FirstRun, Early, Untouched

LEMMA NothingOwedYetStep ==
    TypeOK /\ AudioInv /\ NothingOwedYet /\ [Next]_vars => NothingOwedYet'
<1> SUFFICES ASSUME TypeOK, AudioInv, NothingOwedYet, [Next]_vars,
                    \A s \in Session : pc'[s] = "unborn", NEW p \in Process
             PROVE  frame'[p].suspend = None /\ frame'[p].release = {}
  BY DEF NothingOwedYet
<1> USE DEF env, tableVars, ctxVars, localVars, runVars, clientVars, outVars
<1>1. \A s \in Session : ~Launch(s) /\ ~Run(s) /\ ~AudioFails(s)
  BY RunGoesOn DEF Launch, Goto, TypeOK
<1>2. pc' = pc
  <2>1. CASE \E s \in Session :
                Launch(s) \/ Run(s) \/ AudioFails(s) \/ Expire(s) \/ ClientExits(s)
                \/ ContextStopsClient(s)
    BY <1>1, <2>1 DEF Expire, ClientExits, ContextStopsClient
  <2>2. CASE \E q \in Process : Owed(q)
    BY <2>2 DEF Owed, SuspendSink, RemoveSession, StopClient, ReleaseAudioIfUnused
  <2>3. CASE \E q \in Caller : Request(q)
    <3>1. ASSUME NEW q \in Caller, CancelAll(q) PROVE pc' = pc
      BY <3>1 DEF CancelAll
    <3>2. ASSUME NEW q \in Caller, NEW id \in Session,
                 CancelSession(q, id) \/ Minimize(q, id) \/ Resume(q, id)
          PROVE  pc' = pc
      BY <3>2 DEF CancelSession, Minimize, Resume
    <3>3. ASSUME NEW q \in Caller, NEW id \in Session, NEW a \in {"accept", "decline"},
                 ResolveAudioUnavailable(q, id, a)
          PROVE  pc' = pc
      BY <3>3 DEF ResolveAudioUnavailable
    <3>4. ASSUME NEW q \in Caller, NEW id \in Session, ResolveSSHHostKeyChange(q, id)
          PROVE  pc' = pc
      BY <3>4 DEF ResolveSSHHostKeyChange
    <3> QED
      BY <2>3, <3>1, <3>2, <3>3, <3>4 DEF Request
  <2>4. CASE \E q \in Caller : WindowStep(q)
    BY <2>4 DEF WindowStep, HideWindow, Minimized, ResumeSink, ShowWindow, Resumed
  <2>5. CASE UNCHANGED vars \/ \E id \in Session, n \in 1..StopAttempts : RetryStop(id, n)
    BY <2>5 DEF RetryStop, vars
  <2> QED
    BY <2>1, <2>2, <2>3, <2>4, <2>5 DEF Next
<1>3. /\ \A q \in Process : frame[q].suspend = None /\ frame[q].release = {}
      /\ \A s \in Session : s \notin present
      /\ \A q \in Process : \A s \in Session : s \notin frame[q].remove
      /\ \A q \in Caller : \A s \in Session : window[q].id # s
  BY <1>2, UnbornUntouched DEF NothingOwedYet
<1>4. present = {} /\ \A q \in Caller : window[q].step = "none"
  <2>1. \A q \in Caller : window[q] \notin WindowCall
    BY <1>3 DEF WindowCall
  <2> QED
    BY <1>3, <2>1 DEF TypeOK, NoWindowCall
<1>5. ASSUME NEW q \in Process, NEW id \in Session, StopClient(q, id)
      PROVE  frame'[p].suspend = frame[p].suspend /\ frame'[p].release = frame[p].release
  BY <1>5 DEF StopClient, TypeOK, Frame
<1>6. ASSUME NEW q \in Process, Owed(q) PROVE \E id \in Session : StopClient(q, id)
  BY <1>3, <1>6 DEF Owed, SuspendSink, RemoveSession, ReleaseAudioIfUnused
<1>7. \A q \in Caller : ~Request(q) /\ ~WindowStep(q)
  <2>1. ASSUME NEW q \in Caller, Request(q) PROVE FALSE
    BY <1>4, <2>1 DEF Request, CancelAll, CancelSession, ResolveAudioUnavailable,
       ResolveSSHHostKeyChange, Minimize, Resume
  <2>2. ASSUME NEW q \in Caller, WindowStep(q) PROVE FALSE
    BY <1>4, <2>2 DEF WindowStep, HideWindow, Minimized, ResumeSink, ShowWindow, Resumed
  <2> QED
    BY <2>1, <2>2
<1>8. (\E q \in Process : Owed(q)) \/ UNCHANGED frame
  BY <1>1, <1>7 DEF Next, Expire, ClientExits, ContextStopsClient, RetryStop, vars
<1> QED
  BY <1>3, <1>5, <1>6, <1>8

\* Steps that cancel nobody, start nothing and make nobody active.
LEMMA InactiveStill ==
    ASSUME CancelledInactive, present' \subseteq present,
           \A x \in present : /\ x \in cancelled' => x \in cancelled
                              /\ client'[x] = "running" => client[x] = "running"
                              /\ x \in present' /\ client[x] = "running"
                                    /\ entry'[x].state = "active" => entry[x].state = "active"
    PROVE  CancelledInactive'
  BY DEF CancelledInactive
\* Whom Cancel tells to stop is stopping, and nobody else changes.
LEMMA CancelStops ==
    ASSUME TypeOK, CancelledInactive, NEW p \in Process, NEW ids \in SUBSET Session,
           Cancel(p, ids), UNCHANGED <<present, client>>
    PROVE  CancelledInactive'
<1>1. \A x \in Session : /\ x \in ids => entry'[x].state = "stopping"
                         /\ x \notin ids => entry'[x] = entry[x]
  BY DEF Cancel, TypeOK, Entry
<1>2. cancelled' = cancelled \cup ids /\ present \subseteq Session
  BY DEF Cancel, TypeOK
<1> QED
  BY <1>1, <1>2 DEF CancelledInactive

LEMMA CancelledInactiveStep ==
    TypeOK /\ LaunchInv /\ CancelledInactive /\ [Next]_vars => CancelledInactive'
<1> SUFFICES ASSUME TypeOK, LaunchInv, CancelledInactive, [Next]_vars
             PROVE  CancelledInactive'
  OBVIOUS
<1> USE DEF env, tableVars, ctxVars, localVars, runVars, clientVars, outVars
<1>e. entry \in [Session -> Entry] /\ present \subseteq Session
         /\ client \in [Session -> {"none", "running", "exited"}]
  BY DEF TypeOK
<1>c. \A s \in Session : pc[s] \notin {"started", "wait"} => client[s] # "running"
  BY DEF LaunchInv, ClientInsideRun
<1>1. ASSUME NEW s \in Session, Launch(s) PROVE CancelledInactive'
  <2>1. /\ \A x \in Session \ {s} : entry'[x] = entry[x]
        /\ present' = present \cup {s} /\ UNCHANGED <<client, cancelled>>
        /\ client[s] # "running"
    BY <1>1, <1>e, <1>c DEF Launch, Goto
  <2> QED
    BY <1>e, <2>1 DEF CancelledInactive
<1>2. ASSUME NEW s \in Session, Run(s) \/ AudioFails(s) PROVE CancelledInactive'
  <2>1. CASE \E d \in present : CancelDuplicate(s, d)
    <3>1. PICK d \in present : CancelDuplicate(s, d)
      BY <2>1
    <3>2. s \in Process /\ {d} \in SUBSET Session
      BY <1>e DEF Process
    <3> QED
      BY <3>1, <3>2, CancelStops DEF CancelDuplicate
  <2>2. CASE ~\E d \in present : CancelDuplicate(s, d)
    <3>1. UNCHANGED <<present, cancelled>>
      BY <1>2, <2>2, RunKeepsMarks, RunKeepsSinks
    <3>2. \A x \in Session :
             client[x] = "running" /\ entry'[x].state = "active" => entry[x].state = "active"
      <4>1. \A x \in Session : entry'[x].state = "active" =>
               entry[x].state = "active" \/ (x = s /\ pc[s] = "activate")
        BY <1>2, RunActivates
      <4> QED
        BY <1>c, <4>1
    <3>3. CASE StartClient(s)
      <4>1. s \notin cancelled /\ \A x \in Session \ {s} : client'[x] = client[x]
        BY <1>e, <3>3 DEF StartClient, CtxDone
      <4> QED
        BY <1>e, <3>1, <3>2, <4>1 DEF CancelledInactive
    <3>4. CASE ~StartClient(s)
      <4>1. \A x \in Session : client'[x] = "running" => client[x] = "running"
        BY <1>2, <1>e, <3>4 DEF Run, RedeemFails, Redeem, CancelDuplicate, Prepare,
           HostKeyChanges, AskHostKey,
           ReportKeyChanged, PrepareFails, ReportFailed, Starting, ReportStarted, Activate,
           RunFails, PrepareAudio, AudioReady, WithoutSink, RegisterPid,
           ClientReturns, AskAudioChoice, TakeAudioChoice, AbandonAudioChoice, AudioDeclined,
           RestartMuted, ReportExited, Finish, AudioFails
      <4> QED
        BY <1>e, <3>1, <3>2, <4>1, InactiveStill
    <3> QED
      BY <3>3, <3>4
  <2> QED
    BY <2>1, <2>2
<1>3. ASSUME NEW s \in Session, Expire(s) \/ ClientExits(s) \/ ContextStopsClient(s)
      PROVE  CancelledInactive'
  BY <1>3, <1>e, InactiveStill DEF Expire, ClientExits, ContextStopsClient
<1>4. ASSUME NEW p \in Process, SuspendSink(p) \/ \E k \in Sink : ReleaseAudioIfUnused(p, k)
      PROVE  CancelledInactive'
  BY <1>4, InactiveStill DEF SuspendSink, ReleaseAudioIfUnused
<1>5. ASSUME NEW p \in Process, NEW id \in Session, RemoveSession(p, id)
      PROVE  CancelledInactive'
  <2>1. \A x \in Session \ {id} : entry'[x] = entry[x]
    BY <1>5, <1>e DEF RemoveSession
  <2> QED
    BY <1>5, <1>e, <2>1, InactiveStill DEF RemoveSession
<1>6. ASSUME NEW p \in Process, NEW id \in Session, StopClient(p, id) PROVE CancelledInactive'
  BY <1>6, <1>e, InactiveStill DEF StopClient, EnsureSessionStopped
<1>7. ASSUME NEW id \in Session, NEW n \in 1..StopAttempts, RetryStop(id, n)
      PROVE  CancelledInactive'
  BY <1>7, <1>e, InactiveStill DEF RetryStop, EnsureSessionStopped
<1>8. ASSUME NEW p \in Caller, Request(p) PROVE CancelledInactive'
  <2>0. p \in Process
    BY DEF Process
  <2>1. CASE CancelAll(p)
    BY <1>e, <2>0, <2>1, CancelStops DEF CancelAll
  <2>2. ASSUME NEW id \in Session, CancelSession(p, id) PROVE CancelledInactive'
    BY <2>0, <2>2, CancelStops DEF CancelSession
  <2>3. ASSUME NEW id \in Session, NEW a \in {"accept", "decline"},
               ResolveAudioUnavailable(p, id, a)
        PROVE  CancelledInactive'
    <3>1. \A x \in Session : entry'[x].state = entry[x].state
      BY <2>3, <1>e DEF ResolveAudioUnavailable, Entry
    <3> QED
      BY <2>3, <1>e, <3>1, InactiveStill DEF ResolveAudioUnavailable
  <2>4. ASSUME NEW id \in Session,
               ResolveSSHHostKeyChange(p, id) \/ Minimize(p, id) \/ Resume(p, id)
        PROVE  CancelledInactive'
    BY <2>4, InactiveStill DEF ResolveSSHHostKeyChange, Minimize, Resume
  <2> QED
    BY <1>8, <2>1, <2>2, <2>3, <2>4 DEF Request
<1>9. ASSUME NEW p \in Caller, WindowStep(p) PROVE CancelledInactive'
  <2>1. UNCHANGED <<present, cancelled, client>>
    BY <1>9 DEF WindowStep, HideWindow, Minimized, ResumeSink, ShowWindow, Resumed
  <2>2. \A x \in Session : entry'[x].state = entry[x].state
    <3>1. CASE UNCHANGED entry
      BY <3>1
    <3>2. CASE Minimized(p) /\ ~UNCHANGED entry
      BY <1>e, <3>2 DEF Minimized, Entry
    <3>3. CASE Resumed(p) /\ ~UNCHANGED entry
      BY <1>e, <3>3 DEF Resumed, Entry
    <3> QED
      BY <1>9, <3>1, <3>2, <3>3 DEF WindowStep, HideWindow, ResumeSink, ShowWindow
  <2> QED
    BY <1>e, <2>1, <2>2, InactiveStill
<1>10. CASE UNCHANGED vars
  BY <1>10, InactiveStill DEF vars
<1> QED
  BY <1>1, <1>2, <1>3, <1>4, <1>5, <1>6, <1>7, <1>8, <1>9, <1>10 DEF Next, Owed
\* Steps that take no sink and owe none.
LEMMA HeldStill ==
    ASSUME NEW s \in Session, SinkHeld(s), UNCHANGED window, suspended' \subseteq suspended,
           \A p \in Process : /\ frame'[p].suspend = frame[p].suspend
                              /\ frame'[p].release = frame[p].release,
           entry'[s].minimized = entry[s].minimized,
           entry'[s].audioSink = entry[s].audioSink \/ entry'[s].audioSink \notin suspended,
           pc'[s] = "audioReady" => prepared'[s] \notin suspended'
    PROVE  SinkHeld(s)'
  BY DEF SinkHeld, Process

\* The sole session is the only one anybody can reach.
LEMMA SoleFacts ==
    ASSUME TypeOK, AudioInv, NEW s \in Session, SoleLaunch(s)
    PROVE  /\ present \subseteq {s} /\ \A p \in Process : frame[p].remove \subseteq {s}
           /\ \A p \in Caller : window[p].step # "none" => window[p].id = s
<1>1. \A d \in Session \ {s} : /\ d \notin present
                               /\ \A p \in Process : d \notin frame[p].remove
                               /\ \A p \in Caller : window[p].id # d
  BY UnbornUntouched DEF SoleLaunch
<1>2. \A p \in Process : frame[p].remove \subseteq Session
  BY DEF TypeOK, Frame
<1>3. \A p \in Caller : window[p].step # "none" => window[p].id \in Session
  BY DEF TypeOK, WindowCall, NoWindowCall
<1> QED
  BY <1>1, <1>2, <1>3 DEF TypeOK

\* A request that takes a step: nobody else is at work on the sinks.
LEMMA HeldByWindowStep ==
    ASSUME TypeOK, AudioInv, OneCaller, NEW p \in Caller, WindowStep(p),
           NEW s \in present, SoleLaunch(s), SinkHeld(s)
    PROVE  SinkHeld(s)'
<1> USE DEF env, tableVars, ctxVars, localVars, runVars, clientVars, outVars
<1>e. entry \in [Session -> Entry] /\ s \in Session
         /\ window \in [Caller -> WindowCall \cup {NoWindowCall}]
         /\ frame \in [Process -> Frame] /\ p \in Process
  BY DEF TypeOK, Process
<1>n. NoWindowCall.step = "none"
  BY DEF NoWindowCall
<1>0. window[p].step # "none" /\ window[p] \in WindowCall
  BY <1>e, WindowStepType DEF WindowStep, HideWindow, Minimized, ResumeSink, ShowWindow, Resumed
<1>1. /\ window[p].id = s /\ frame[p] = Idle /\ \A q \in Caller : q = p
      /\ window[p].step \in {"unmute", "show", "shown"} => entry[s].audioSink = window[p].sink
  BY <1>e, <1>0, SoleFacts DEF OneCaller, AudioInv, CallerInOrder
<1>2. frame[p].suspend = None /\ frame[p].release = {}
  BY <1>1 DEF Idle
<1>3. ASSUME NEW st \in {"show", "shown"}, window' = [window EXCEPT ![p].step = st]
      PROVE  window'[p].step = st
  BY <1>3, <1>0, <1>e DEF WindowCall
<1>4. ASSUME window' = [window EXCEPT ![p] = NoWindowCall]
      PROVE  window'[p].step = "none"
  BY <1>4, <1>e, <1>n
<1>d. /\ UNCHANGED <<pc, prepared>>
      /\ \A d \in Session : frame'[d] = frame[d] /\ d \in Process
  <2>1. \A d \in Session : d # p /\ d \in Process
    BY ConstantsAssumption DEF Process
  <2>2. \A d \in Process \ {p} : frame'[d] = frame[d]
    BY <1>e DEF WindowStep, HideWindow, Minimized, ResumeSink, ShowWindow, Resumed
  <2> QED
    BY <2>1, <2>2 DEF WindowStep, HideWindow, Minimized, ResumeSink, ShowWindow, Resumed
<1>5. CASE HideWindow(p)
  <2>1. UNCHANGED <<entry, suspended, frame>>
    BY <1>5 DEF HideWindow
  <2>2. window'[p].step \in {"hidden", "none"}
    BY <1>5, HideEffect DEF NoWindowCall
  <2> QED
    BY <1>1, <1>d, <2>1, <2>2 DEF SinkHeld
<1>6. CASE Minimized(p)
  <2>1. UNCHANGED suspended /\ window'[p].step = "none"
    BY <1>4, <1>6 DEF Minimized
  <2>2. CASE entry[s].state = "active"
    <3>1. entry'[s].minimized
      BY <1>e, <1>1, <1>6, <2>2 DEF Minimized, Entry
    <3> QED
      BY <1>1, <1>d, <2>1, <3>1 DEF SinkHeld
  <2>3. CASE entry[s].state # "active"
    <3>1. UNCHANGED <<entry, frame>>
      BY <1>1, <1>6, <2>3 DEF Minimized
    <3> QED
      BY <1>1, <1>d, <2>1, <3>1 DEF SinkHeld
  <2> QED
    BY <2>2, <2>3
<1>7. CASE ResumeSink(p)
  <2>1. /\ UNCHANGED <<entry, frame>> /\ window[p].step = "unmute" /\ window'[p].step = "show"
        /\ suspended' = suspended \ {entry[s].audioSink}
    BY <1>1, <1>3, <1>7 DEF ResumeSink
  <2> QED
    BY <1>1, <1>d, <2>1 DEF SinkHeld
<1>8. CASE ShowWindow(p)
  <2>1. /\ UNCHANGED <<entry, suspended>> /\ window[p].step = "show"
        /\ window'[p].step \in {"shown", "none"}
    BY <1>3, <1>4, <1>8 DEF ShowWindow
  <2> QED
    BY <1>1, <1>d, <2>1 DEF SinkHeld
<1>9. CASE Resumed(p)
  <2>1. UNCHANGED suspended /\ window[p].step = "shown" /\ window'[p].step = "none"
    BY <1>4, <1>9 DEF Resumed
  <2>2. CASE entry[s].state = "active"
    <3>1. entry'[s].audioSink = entry[s].audioSink /\ UNCHANGED frame
      BY <1>e, <1>1, <1>9, <2>2 DEF Resumed, Entry
    <3> QED
      BY <1>1, <1>2, <1>d, <2>1, <3>1 DEF SinkHeld
  <2>3. CASE entry[s].state # "active"
    <3>1. UNCHANGED entry
      BY <1>1, <1>9, <2>3 DEF Resumed
    <3> QED
      BY <1>1, <1>d, <2>1, <3>1 DEF SinkHeld
  <2> QED
    BY <2>2, <2>3
<1> QED
  BY <1>5, <1>6, <1>7, <1>8, <1>9 DEF WindowStep

\* What a goroutine owes: it takes the sink of a minimised session only.
LEMMA HeldByOwed ==
    ASSUME TypeOK, AudioInv, OneCaller, NEW p \in Process, Owed(p),
           NEW s \in present, s \in present', SoleLaunch(s), SinkHeld(s)
    PROVE  SinkHeld(s)'
<1> USE DEF env, tableVars, ctxVars, localVars, runVars, clientVars, outVars
<1>e. frame \in [Process -> Frame] /\ s \in Session
  BY DEF TypeOK
<1>1. CASE \E id \in Session : RemoveSession(p, id)
  BY <1>1, <1>e, SoleFacts DEF RemoveSession
<1>2. CASE \E id \in Session : StopClient(p, id)
  <2>1. /\ \A q \in Process : /\ frame'[q].suspend = frame[q].suspend
                              /\ frame'[q].release = frame[q].release
        /\ UNCHANGED <<entry, window, suspended, pc, prepared>>
    BY <1>2, <1>e DEF StopClient, Frame
  <2> QED
    BY <1>e, <2>1, HeldStill DEF SinkHeld
<1>3. CASE SuspendSink(p) \/ \E k \in Sink : ReleaseAudioIfUnused(p, k)
  <2>1. frame[p].suspend # None \/ frame[p].release # {}
    BY <1>3 DEF SuspendSink, ReleaseAudioIfUnused
  <2>2. p \in Caller /\ entry[s].minimized /\ \A q \in Caller : q = p
    BY <2>1 DEF SinkHeld, Process, OneCaller
  <2>3. window[p].step = "none"
    BY <2>1, <2>2 DEF AudioInv, CallerInOrder, Idle
  <2>4. pc[s] # "audioReady"
    BY <1>e, <2>2 DEF AudioInv, FirstRun, Early, Untouched
  <2>5. UNCHANGED <<entry, window, pc>> /\ \A d \in Session : frame'[d] = frame[d]
    <3>1. \A d \in Session : d # p /\ d \in Process
      BY <2>2, ConstantsAssumption DEF Process
    <3> QED
      BY <1>3, <1>e, <3>1 DEF SuspendSink, ReleaseAudioIfUnused
  <2> QED
    BY <2>2, <2>3, <2>4, <2>5 DEF SinkHeld
<1> QED
  BY <1>1, <1>2, <1>3 DEF Owed

LEMMA HeldByRequest ==
    ASSUME TypeOK, AudioInv, OneCaller, NEW p \in Caller, Request(p),
           NEW s \in present, s \notin cancelled', SoleLaunch(s), SinkHeld(s)
    PROVE  SinkHeld(s)'
<1> USE DEF env, tableVars, ctxVars, localVars, runVars, clientVars, outVars
<1>e. entry \in [Session -> Entry] /\ frame \in [Process -> Frame] /\ s \in Session
         /\ p \in Process
  BY DEF TypeOK, Process
<1>1. CASE CancelAll(p) \/ \E id \in Session : CancelSession(p, id)
  BY <1>1, <1>e, SoleFacts DEF CancelAll, CancelSession, Cancel
<1>2. ASSUME NEW id \in Session, NEW a \in {"accept", "decline"},
             ResolveAudioUnavailable(p, id, a)
      PROVE  SinkHeld(s)'
  <2>1. /\ entry'[s].minimized = entry[s].minimized
        /\ entry'[s].audioSink = entry[s].audioSink
        /\ UNCHANGED <<frame, window, suspended, pc, prepared>>
    BY <1>2, <1>e DEF ResolveAudioUnavailable, Entry
  <2> QED
    BY <1>e, <2>1, HeldStill DEF SinkHeld
<1>3. ASSUME NEW id \in Session, ResolveSSHHostKeyChange(p, id) PROVE SinkHeld(s)'
  <2>1. /\ \A q \in Process : /\ frame'[q].suspend = frame[q].suspend
                              /\ frame'[q].release = frame[q].release
        /\ UNCHANGED <<entry, window, suspended, pc, prepared>>
    BY <1>3, <1>e DEF ResolveSSHHostKeyChange, Frame
  <2> QED
    BY <1>e, <2>1, HeldStill DEF SinkHeld
<1>4. ASSUME NEW id \in Session, Minimize(p, id) \/ Resume(p, id) PROVE SinkHeld(s)'
  <2>1. /\ UNCHANGED <<entry, frame, suspended, pc, prepared>> /\ id = s
        /\ \A q \in Caller : q = p
    BY <1>4, <1>e, SoleFacts DEF Minimize, Resume, OneCaller
  <2>2. \/ window'[p].step = "hide"
        \/ window'[p].step = "unmute" /\ entry[s].minimized
    BY <1>4, <2>1 DEF Minimize, Resume, TypeOK
  <2> QED
    BY <2>1, <2>2 DEF SinkHeld
<1> QED
  BY <1>1, <1>2, <1>3, <1>4 DEF Request
LEMMA SinkInvStep ==
    TypeOK /\ LaunchInv /\ AudioInv /\ OneCaller /\ SinkInv /\ [Next]_vars => SinkInv'
<1> SUFFICES ASSUME TypeOK, LaunchInv, AudioInv, OneCaller, SinkInv, [Next]_vars
             PROVE  SinkInv'
  OBVIOUS
<1>1. CancelledInactive' /\ NothingOwedYet'
  BY CancelledInactiveStep, NothingOwedYetStep DEF SinkInv
<1>2. SUFFICES ASSUME NEW s \in present', s \notin cancelled', SoleLaunch(s)'
               PROVE  SinkHeld(s)'
  BY <1>1 DEF SinkInv
<1> USE DEF env, tableVars, ctxVars, localVars, runVars, clientVars, outVars
<1>e. /\ present \subseteq Session /\ entry \in [Session -> Entry] /\ suspended \subseteq Sink
      /\ pc \in [Session -> RunPCs]
  BY DEF TypeOK
<1>3. ASSUME NEW x \in Session, Launch(x) PROVE SinkHeld(s)'
  <2>1. /\ pc[x] = "unborn" /\ UNCHANGED <<frame, window, suspended>> /\ s \in Session
        /\ \A d \in Session : pc'[d] = IF d = x THEN "redeem" ELSE pc[d]
        /\ entry'[x] = Blank
    BY <1>2, <1>3, <1>e DEF Launch, Goto
  <2>2. s = x /\ \A d \in Session : pc[d] = "unborn"
    BY <1>2, <2>1 DEF SoleLaunch
  <2>3. \A p \in Process : frame[p].suspend = None /\ frame[p].release = {}
    BY <2>2 DEF SinkInv, NothingOwedYet
  <2>4. \A p \in Caller : window[p].step = "none"
    <3>1. \A p \in Caller : \A d \in Session : window[p].id # d
      BY <2>2, UnbornUntouched
    <3> QED
      BY <3>1 DEF TypeOK, WindowCall, NoWindowCall
  <2>5. None \notin suspended /\ Blank.audioSink = None
    BY <1>e, ConstantsAssumption DEF Blank
  <2> QED
    BY <2>1, <2>2, <2>3, <2>4, <2>5 DEF SinkHeld, Process
<1>4. ASSUME s \in present, s \notin cancelled, SoleLaunch(s) PROVE SinkHeld(s) /\ s \in Session
  BY <1>4, <1>e DEF SinkInv
<1>5. ASSUME NEW x \in Session, Run(x) \/ AudioFails(x) PROVE SinkHeld(s)'
  <2>1. UNCHANGED <<present, window>> /\ cancelled \subseteq cancelled'
    <3>1. ASSUME NEW d \in present, CancelDuplicate(x, d) PROVE cancelled \subseteq cancelled'
      BY <3>1 DEF CancelDuplicate, Cancel
    <3> QED
      BY <1>5, <3>1, RunKeepsMarks, RunKeepsSinks
  <2>2. x = s /\ SoleLaunch(s)
    BY <1>2, <1>5, <1>e, <2>1, RunGoesOn DEF SoleLaunch
  <2>3. SinkHeld(s) /\ s \in Session
    BY <1>2, <1>4, <2>1, <2>2
  <2>4. \A d \in present : ~CancelDuplicate(s, d)
    <3>1. present \subseteq {s}
      BY <2>2, <2>3, SoleFacts
    <3> QED
      BY <1>2, <3>1 DEF CancelDuplicate, Cancel
  <2>5. /\ \A p \in Process : /\ frame'[p].suspend = frame[p].suspend
                              /\ frame'[p].release = frame[p].release
        /\ suspended' \subseteq suspended
        /\ pc'[s] = "audioReady" => prepared'[s] \notin suspended'
    BY <1>5, <2>2, <2>4, RunKeepsSinks
  <2>6. /\ entry'[s].minimized = entry[s].minimized
        /\ entry'[s].audioSink = entry[s].audioSink \/ AudioReady(s)
    BY <1>5, <2>2, <2>3, RunKeepsMarks
  <2>7. AudioReady(s) => entry'[s].audioSink \notin suspended
    <3> SUFFICES ASSUME AudioReady(s) PROVE entry'[s].audioSink \notin suspended
      OBVIOUS
    <3>1. entry'[s].audioSink = prepared[s] /\ pc[s] = "audioReady"
      BY <1>2, <1>e, <2>1, <2>3 DEF AudioReady, Goto, Entry
    <3> QED
      BY <2>3, <3>1 DEF SinkHeld
  <2> QED
    BY <2>1, <2>3, <2>5, <2>6, <2>7, HeldStill
<1>6. ASSUME UNCHANGED <<entry, window, suspended, frame, pc, prepared, present, cancelled>>
      PROVE  SinkHeld(s)'
  <2>1. SinkHeld(s) /\ s \in Session
    BY <1>2, <1>4, <1>6 DEF SoleLaunch
  <2> QED
    BY <1>6, <2>1, HeldStill DEF SinkHeld
<1>7. ASSUME NEW x \in Session, Expire(x) \/ ClientExits(x) \/ ContextStopsClient(x)
      PROVE  SinkHeld(s)'
  BY <1>6, <1>7 DEF Expire, ClientExits, ContextStopsClient
<1>8. ASSUME NEW id \in Session, NEW n \in 1..StopAttempts, RetryStop(id, n)
      PROVE  SinkHeld(s)'
  BY <1>6, <1>8 DEF RetryStop
<1>9. ASSUME NEW p \in Process, Owed(p) PROVE SinkHeld(s)'
  <2>1. UNCHANGED <<pc, cancelled>> /\ s \in present
    BY <1>2, <1>9 DEF Owed, SuspendSink, RemoveSession, StopClient, ReleaseAudioIfUnused
  <2>2. SoleLaunch(s) /\ SinkHeld(s)
    BY <1>2, <1>4, <2>1 DEF SoleLaunch
  <2> QED
    BY <1>2, <1>9, <2>1, <2>2, HeldByOwed
<1>10. ASSUME NEW p \in Caller, Request(p) PROVE SinkHeld(s)'
  <2>1. UNCHANGED <<pc, present>> /\ cancelled \subseteq cancelled'
    BY <1>10 DEF Request, CancelAll, CancelSession, Cancel, ResolveAudioUnavailable,
       ResolveSSHHostKeyChange, Minimize, Resume
  <2>2. SoleLaunch(s) /\ SinkHeld(s) /\ s \in present
    BY <1>2, <1>4, <2>1 DEF SoleLaunch
  <2> QED
    BY <1>2, <1>10, <2>2, HeldByRequest
<1>11. ASSUME NEW p \in Caller, WindowStep(p) PROVE SinkHeld(s)'
  <2>1. UNCHANGED <<pc, present, cancelled>>
    BY <1>11 DEF WindowStep, HideWindow, Minimized, ResumeSink, ShowWindow, Resumed
  <2>2. SoleLaunch(s) /\ SinkHeld(s) /\ s \in present
    BY <1>2, <1>4, <2>1 DEF SoleLaunch
  <2> QED
    BY <1>11, <2>2, HeldByWindowStep
<1>12. CASE UNCHANGED vars
  BY <1>6, <1>12 DEF vars
<1> QED
  BY <1>3, <1>5, <1>7, <1>8, <1>9, <1>10, <1>11, <1>12 DEF Next

\* For requests that do not overlap: the sole session, not minimised, keeps its
\* sound, however often Minimize and Resume gave its sink back and took it again
\* and however a request failed half way.
THEOREM SoleSessionKeepsSound == Spec => []SoleSessionHasAudio
<1> DEFINE I == OneCaller => SinkInv
<1>0. Init => AudioInv
  BY InitAudio
<1>1. Init => I
  BY DEF Init, SinkInv, CancelledInactive, NothingOwedYet, Idle
<1>2. TypeOK /\ LaunchInv /\ AudioInv /\ I /\ [Next]_vars => I'
  BY SinkInvStep DEF OneCaller
<1>3. I => SoleSessionHasAudio
  <2> SUFFICES ASSUME SinkInv, NEW s \in present, entry[s].state = "active",
                      ~entry[s].minimized, client[s] = "running",
                      \A d \in Session \ {s} : pc[d] = "unborn"
               PROVE  entry[s].audioSink \notin suspended
    BY DEF SoleSessionHasAudio
  <2>1. SinkHeld(s)
    BY DEF SinkInv, CancelledInactive, SoleLaunch
  <2> QED
    BY <2>1 DEF SinkHeld
<1> HIDE DEF I
<1> QED
  BY <1>0, <1>1, <1>2, <1>3, AudioStep, TypeCorrect, LaunchInvariant, PTL DEF Spec

-----------------------------------------------------------------------------
(* Progress of a launch: what a liveness argument needs besides fairness. *)

\* The order in which run passes through its places.
Stage == [unborn |-> 0, redeem |-> 1, replace |-> 2, prepare |-> 3, keyChanged |-> 4,
          reportKey |-> 5, reportFailed |-> 6, reportStarted |-> 7, activate |-> 8,
          launch |-> 9, audioReady |-> 10, start |-> 11, started |-> 12, wait |-> 13,
          audioUnavailable |-> 14, choose |-> 15, declined |-> 16, restart |-> 17,
          returned |-> 18, finish |-> 19, done |-> 20]

\* How far the goroutine of s is; the second Run, without audio, is a second pass.
Rank(s) == Stage[pc[s]] + IF muted[s] THEN Stage["done"] ELSE 0

\* Where the goroutine can be on its second pass, and where it has started the
\* client of this pass or given up on it.
SecondPass == {"activate", "launch", "start", "started", "wait", "returned", "finish", "done"}
Attempted  == {"started", "wait", "audioUnavailable", "choose", "declined", "restart",
               "returned", "finish", "done"}

PassInv ==
    \A s \in Session :
        /\ muted[s] => pc[s] \in SecondPass
        /\ starts[s] <= (IF muted[s] THEN 1 ELSE 0) + (IF pc[s] \in Attempted THEN 1 ELSE 0)

\* The goroutine of a launch never goes back: each step of its own advances it, or
\* takes one session off the list it replaces, which then only becomes shorter; and
\* no step of anybody else sets it back or makes the list longer.  So a launch takes
\* at most some forty steps and one for each session it replaces, although run loops
\* around Run and asks the user in the middle.
RunAdvances ==
    [][\A s \in Session :
          /\ Rank(s)' >= Rank(s)
          /\ Run(s) \/ AudioFails(s) =>
                \/ Rank(s)' > Rank(s)
                \/ \E d \in duplicates[s] : duplicates'[s] = duplicates[s] \ {d}
          /\ pc[s] # "redeem" => duplicates'[s] \subseteq duplicates[s]]_vars

\* A cancel is never undone: whatever is under way when it comes, a cancelled session
\* starts no client any more, so that stopping the one it has is enough (Cancel; exec
\* does not start a command whose context is done).
CancelIsFinal ==
    [][\A s \in cancelled :
          /\ s \in cancelled'
          /\ starts'[s] = starts[s]
          /\ client'[s] = "running" => client[s] = "running"]_vars

\* What a step can do to one session.  It leaves its goroutine where it is,
Stays(s) ==
    /\ pc'[s] = pc[s] /\ muted'[s] = muted[s] /\ starts'[s] = starts[s]
    /\ duplicates'[s] \subseteq duplicates[s]
    /\ client'[s] = "running" => client[s] = "running"

\* or goes on within a pass,
GoesOn(s) ==
    /\ muted'[s] = muted[s] /\ starts'[s] = starts[s]
    /\ Stage[pc'[s]] > Stage[pc[s]]
    /\ pc'[s] \in Attempted \/ pc[s] \notin Attempted
    /\ muted[s] => pc'[s] \in SecondPass
    /\ duplicates'[s] = duplicates[s] \/ pc[s] = "redeem"
    /\ client'[s] = "running" => client[s] = "running"

\* or starts the client of this pass,
Starts(s) ==
    /\ pc[s] = "start" /\ pc'[s] = "started" /\ ~CtxDone(s)
    /\ muted'[s] = muted[s] /\ starts'[s] = starts[s] + 1
    /\ duplicates'[s] = duplicates[s]

\* or begins the second pass.
Restarts(s) ==
    /\ pc[s] = "restart" /\ pc'[s] = "activate" /\ muted'[s]
    /\ starts'[s] = starts[s] /\ duplicates'[s] = duplicates[s] /\ client'[s] = client[s]

LEMMA StageValues ==
    /\ Stage["unborn"] = 0 /\ Stage["redeem"] = 1 /\ Stage["replace"] = 2
    /\ Stage["prepare"] = 3 /\ Stage["keyChanged"] = 4 /\ Stage["reportKey"] = 5
    /\ Stage["reportFailed"] = 6 /\ Stage["reportStarted"] = 7 /\ Stage["activate"] = 8
    /\ Stage["launch"] = 9 /\ Stage["audioReady"] = 10 /\ Stage["start"] = 11
    /\ Stage["started"] = 12 /\ Stage["wait"] = 13 /\ Stage["audioUnavailable"] = 14
    /\ Stage["choose"] = 15 /\ Stage["declined"] = 16 /\ Stage["restart"] = 17
    /\ Stage["returned"] = 18 /\ Stage["finish"] = 19 /\ Stage["done"] = 20
  BY DEF Stage

LEMMA StageTypes == \A at \in RunPCs : Stage[at] \in 0..20
  BY StageValues DEF RunPCs

\* What run does: its own session moves, and no other.
LEMMA RunMoves ==
    ASSUME TypeOK, PassInv, NEW s \in Session, Run(s) \/ AudioFails(s)
    PROVE  /\ cancelled \subseteq cancelled'
           /\ \A x \in Session \ {s} : Stays(x)
           /\ \/ GoesOn(s) \/ Starts(s) \/ Restarts(s)
              \/ Stays(s) /\ \E d \in duplicates[s] : duplicates'[s] = duplicates[s] \ {d}
<1> USE DEF env, tableVars, ctxVars, localVars, runVars, clientVars, outVars
<1>0. /\ pc \in [Session -> RunPCs] /\ muted \in [Session -> BOOLEAN]
      /\ starts \in [Session -> Nat] /\ duplicates \in [Session -> SUBSET Session]
      /\ client \in [Session -> {"none", "running", "exited"}]
  BY DEF TypeOK
<1>s. muted[s] => pc[s] \in SecondPass
  BY DEF PassInv
<1>1. CASE RedeemFails(s) \/ ReportFailed(s) \/ AudioDeclined(s) \/ Finish(s)
  BY <1>0, <1>1, <1>s, StageValues DEF RedeemFails, ReportFailed, AudioDeclined, Finish,
     ReturnAndRemove, Stays, GoesOn, Attempted, SecondPass
<1>2. CASE \/ \E c \in Connection, protocol \in Protocol : Redeem(s, c, protocol)
           \/ Prepare(s) \/ HostKeyChanges(s) \/ AskHostKey(s) \/ ReportKeyChanged(s)
           \/ PrepareFails(s) \/ Starting(s)
  BY <1>0, <1>2, <1>s, StageValues DEF Redeem, Prepare, HostKeyChanges, AskHostKey,
     ReportKeyChanged, PrepareFails, Starting, Goto, Stays, GoesOn, Attempted, SecondPass
<1>3. CASE \E d \in Session : CancelDuplicate(s, d)
  BY <1>0, <1>3 DEF CancelDuplicate, Cancel, Stays
<1>4. CASE \/ ReportStarted(s) \/ Activate(s) \/ RunFails(s) \/ WithoutSink(s)
           \/ (\E k \in Sink : PrepareAudio(s, k)) \/ AudioReady(s) \/ RegisterPid(s)
  BY <1>0, <1>4, <1>s, StageValues DEF ReportStarted, Activate, RunFails, WithoutSink,
     PrepareAudio, AudioReady, RegisterPid, Goto, Stays, GoesOn, Attempted, SecondPass
<1>5. CASE StartClient(s)
  BY <1>0, <1>5 DEF StartClient, Goto, Stays, Starts
<1>6. CASE RestartMuted(s)
  BY <1>0, <1>6 DEF RestartMuted, Goto, Stays, Restarts
<1>7. CASE (\E err \in BOOLEAN : ClientReturns(s, err)) \/ AbandonAudioChoice(s) \/ ReportExited(s)
  BY <1>0, <1>7, <1>s, StageValues DEF ClientReturns, AbandonAudioChoice, ReportExited, Goto,
     Stays, GoesOn, Attempted, SecondPass
<1>8. CASE AskAudioChoice(s) \/ TakeAudioChoice(s)
  BY <1>0, <1>8, <1>s, StageValues DEF AskAudioChoice, TakeAudioChoice, Stays, GoesOn,
     Attempted, SecondPass
<1>9. CASE AudioFails(s)
  BY <1>0, <1>9, <1>s, StageValues DEF AudioFails, Stays, GoesOn, Attempted, SecondPass
<1> QED
  BY <1>1, <1>2, <1>3, <1>4, <1>5, <1>6, <1>7, <1>8, <1>9 DEF Run

\* Everybody else leaves the goroutines where they are.
LEMMA OthersStay ==
    ASSUME TypeOK, [Next]_vars,
           \A s \in Session : ~Launch(s) /\ ~Run(s) /\ ~AudioFails(s)
    PROVE  cancelled \subseteq cancelled' /\ \A x \in Session : Stays(x)
<1> USE DEF env, tableVars, ctxVars, localVars, runVars, clientVars, outVars
<1> DEFINE Same == /\ UNCHANGED <<pc, muted, duplicates, starts>>
                   /\ \A x \in Session : client'[x] = "running" => client[x] = "running"
                   /\ cancelled \subseteq cancelled'
<1>0. client \in [Session -> {"none", "running", "exited"}]
  BY DEF TypeOK
<1>1. ASSUME NEW s \in Session, Expire(s) \/ ClientExits(s) \/ ContextStopsClient(s) PROVE Same
  BY <1>0, <1>1 DEF Expire, ClientExits, ContextStopsClient
<1>2. ASSUME NEW p \in Process, Owed(p) PROVE Same
  <2>1. ASSUME NEW id \in Session, StopClient(p, id) PROVE Same
    BY <1>0, <2>1 DEF StopClient, EnsureSessionStopped
  <2>2. ASSUME NEW id \in Session, RemoveSession(p, id) PROVE Same
    BY <2>2 DEF RemoveSession
  <2>3. CASE SuspendSink(p) \/ \E k \in Sink : ReleaseAudioIfUnused(p, k)
    BY <2>3 DEF SuspendSink, ReleaseAudioIfUnused
  <2> QED
    BY <1>2, <2>1, <2>2, <2>3 DEF Owed
<1>3. ASSUME NEW p \in Caller, Request(p) PROVE Same
  <2>1. ASSUME CancelAll(p) PROVE Same
    BY <2>1 DEF CancelAll, Cancel
  <2>2. ASSUME NEW id \in Session, CancelSession(p, id) PROVE Same
    BY <2>2 DEF CancelSession, Cancel
  <2>3. ASSUME NEW id \in Session, NEW a \in {"accept", "decline"},
               ResolveAudioUnavailable(p, id, a)
        PROVE  Same
    BY <2>3 DEF ResolveAudioUnavailable
  <2>4. ASSUME NEW id \in Session,
               ResolveSSHHostKeyChange(p, id) \/ Minimize(p, id) \/ Resume(p, id)
        PROVE  Same
    BY <2>4 DEF ResolveSSHHostKeyChange, Minimize, Resume
  <2> QED
    BY <1>3, <2>1, <2>2, <2>3, <2>4 DEF Request
<1>4. ASSUME NEW p \in Caller, WindowStep(p) PROVE Same
  BY <1>4 DEF WindowStep, HideWindow, Minimized, ResumeSink, ShowWindow, Resumed
<1>5. ASSUME NEW id \in Session, NEW n \in 1..StopAttempts, RetryStop(id, n) PROVE Same
  BY <1>0, <1>5 DEF RetryStop, EnsureSessionStopped
<1>6. UNCHANGED vars => Same
  BY DEF vars
<1>7. Same
  <2> HIDE DEF Same
  <2> QED
    BY <1>1, <1>2, <1>3, <1>4, <1>5, <1>6 DEF Next
<1> QED
  BY <1>7 DEF Stays

\* So in every step each session does one of these.
LEMMA StepMoves ==
    ASSUME TypeOK, PassInv, [Next]_vars
    PROVE  /\ cancelled \subseteq cancelled'
           /\ \A x \in Session : Stays(x) \/ GoesOn(x) \/ Starts(x) \/ Restarts(x)
<1>1. CASE \E s \in Session : Run(s) \/ AudioFails(s)
  BY <1>1, RunMoves
<1>2. ASSUME NEW s \in Session, Launch(s)
      PROVE  /\ cancelled \subseteq cancelled' /\ GoesOn(s)
             /\ \A x \in Session \ {s} : Stays(x)
  <2>1. pc[s] = "unborn" /\ pc' = [pc EXCEPT ![s] = "redeem"]
    BY <1>2 DEF Launch, Goto
  <2>2. UNCHANGED <<cancelled, muted, starts, duplicates, client>>
    BY <1>2 DEF Launch, env, ctxVars, localVars, clientVars
  <2>3. ~muted[s]
    BY <2>1 DEF PassInv, SecondPass
  <2>4. pc \in [Session -> RunPCs]
    BY DEF TypeOK
  <2> QED
    BY <2>1, <2>2, <2>3, <2>4, StageValues DEF Stays, GoesOn, Attempted
<1> QED
  BY <1>1, <1>2, OthersStay

LEMMA PassStep == TypeOK /\ PassInv /\ [Next]_vars => PassInv'
<1> SUFFICES ASSUME TypeOK, PassInv, [Next]_vars, NEW s \in Session
             PROVE  /\ muted'[s] => pc'[s] \in SecondPass
                    /\ starts'[s] <= (IF muted'[s] THEN 1 ELSE 0)
                                        + (IF pc'[s] \in Attempted THEN 1 ELSE 0)
  BY DEF PassInv
<1>1. /\ muted[s] => pc[s] \in SecondPass
      /\ starts[s] <= (IF muted[s] THEN 1 ELSE 0) + (IF pc[s] \in Attempted THEN 1 ELSE 0)
      /\ starts[s] \in Nat
  BY DEF PassInv, TypeOK
<1>2. CASE Stays(s)
  BY <1>1, <1>2 DEF Stays
<1>3. CASE GoesOn(s)
  BY <1>1, <1>3 DEF GoesOn
<1>4. CASE Starts(s)
  BY <1>1, <1>4 DEF Starts, Attempted, SecondPass
<1>5. CASE Restarts(s)
  BY <1>1, <1>5 DEF Restarts, Attempted, SecondPass
<1> QED
  BY <1>2, <1>3, <1>4, <1>5, StepMoves

THEOREM PassInvariant == Spec => []PassInv
<1>1. Init => PassInv
  BY DEF Init, PassInv, Attempted
<1> QED
  BY <1>1, PassStep, TypeCorrect, PTL DEF Spec

\* The measure behind liveness: a launch only goes forward.
THEOREM LaunchesAdvance == Spec => RunAdvances
<1>1. TypeOK /\ TypeOK' /\ PassInv /\ [Next]_vars =>
          [\A s \in Session :
              /\ Rank(s)' >= Rank(s)
              /\ Run(s) \/ AudioFails(s) =>
                    \/ Rank(s)' > Rank(s)
                    \/ \E d \in duplicates[s] : duplicates'[s] = duplicates[s] \ {d}
              /\ pc[s] # "redeem" => duplicates'[s] \subseteq duplicates[s]]_vars
  <2> SUFFICES ASSUME TypeOK, TypeOK', PassInv, [Next]_vars, NEW s \in Session
               PROVE  /\ Rank(s)' >= Rank(s)
                      /\ Run(s) \/ AudioFails(s) =>
                            \/ Rank(s)' > Rank(s)
                            \/ \E d \in duplicates[s] :
                                  duplicates'[s] = duplicates[s] \ {d}
                      /\ pc[s] # "redeem" => duplicates'[s] \subseteq duplicates[s]
    OBVIOUS
  <2>1. /\ pc[s] \in RunPCs /\ pc'[s] \in RunPCs
        /\ muted[s] \in BOOLEAN /\ muted'[s] \in BOOLEAN
    BY DEF TypeOK
  <2>2. Stage[pc[s]] \in 0..20 /\ Stage[pc'[s]] \in 0..20
    BY <2>1, StageTypes
  <2>3. Stays(s) => Rank(s)' = Rank(s)
    BY DEF Stays, Rank
  <2>4. ASSUME GoesOn(s) \/ Starts(s) PROVE Rank(s)' > Rank(s)
    <3>1. muted'[s] = muted[s] /\ Stage[pc'[s]] > Stage[pc[s]]
      BY <2>4, StageValues DEF GoesOn, Starts
    <3> QED
      BY <2>1, <2>2, <3>1, StageValues DEF Rank
  <2>5. ASSUME Restarts(s) PROVE Rank(s)' > Rank(s)
    <3>1. muted'[s] /\ ~muted[s]
      BY <2>5 DEF Restarts, PassInv, SecondPass
    <3> QED
      BY <2>5, <3>1, StageValues DEF Restarts, Rank
  <2>6. Rank(s) \in Nat /\ Rank(s)' \in Nat
    BY <2>1, <2>2, StageValues DEF Rank
  <2>7. Stays(s) \/ GoesOn(s) \/ Starts(s) \/ Restarts(s)
    BY StepMoves
  <2>8. Run(s) \/ AudioFails(s) =>
           \/ Rank(s)' > Rank(s)
           \/ \E d \in duplicates[s] : duplicates'[s] = duplicates[s] \ {d}
    BY <2>4, <2>5, RunMoves
  <2>9. pc[s] # "redeem" => duplicates'[s] \subseteq duplicates[s]
    BY <2>7 DEF Stays, GoesOn, Starts, Restarts
  <2>10. Rank(s)' >= Rank(s)
    BY <2>3, <2>4, <2>5, <2>6, <2>7
  <2> QED
    BY <2>8, <2>9, <2>10
<1> QED
  BY <1>1, TypeCorrect, PassInvariant, PTL DEF Spec, RunAdvances

\* Stopping the client of a cancelled session is enough.
THEOREM CancelsAreFinal == Spec => CancelIsFinal
<1>1. TypeOK /\ PassInv /\ [Next]_vars =>
          [\A s \in cancelled :
              /\ s \in cancelled'
              /\ starts'[s] = starts[s]
              /\ client'[s] = "running" => client[s] = "running"]_vars
  <2> SUFFICES ASSUME TypeOK, PassInv, [Next]_vars, NEW s \in cancelled
               PROVE  /\ s \in cancelled'
                      /\ starts'[s] = starts[s]
                      /\ client'[s] = "running" => client[s] = "running"
    OBVIOUS
  <2>1. s \in Session /\ CtxDone(s)
    BY DEF TypeOK, CtxDone
  <2> QED
    BY <2>1, StepMoves DEF Stays, GoesOn, Starts, Restarts
<1> QED
  BY <1>1, TypeCorrect, PassInvariant, PTL DEF Spec, CancelIsFinal

\* The restart without audio happens once.
THEOREM ClientStartsBounded == Spec => []TwoClientsAtMost
<1>1. TypeOK /\ PassInv => TwoClientsAtMost
  <2> SUFFICES ASSUME TypeOK, PassInv, NEW s \in Session
               PROVE  starts[s] <= 2 /\ (starts[s] = 2 => muted[s])
    BY DEF TwoClientsAtMost
  <2>1. starts[s] \in Nat
    BY DEF TypeOK
  <2>2. starts[s] <= (IF muted[s] THEN 1 ELSE 0) + (IF pc[s] \in Attempted THEN 1 ELSE 0)
    BY DEF PassInv
  <2> QED
    BY <2>1, <2>2
<1> QED
  BY <1>1, TypeCorrect, PassInvariant, PTL DEF Spec
=============================================================================
