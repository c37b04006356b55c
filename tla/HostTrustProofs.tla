--------------------------- MODULE HostTrustProofs ---------------------------
(***************************************************************************)
(* Proofs about HostTrust: the inductive invariant TrustInv, that a        *)
(* changed identity gets no password, and that trusted keys survive.       *)
(***************************************************************************)
EXTENDS HostTrust, TLAPS

-----------------------------------------------------------------------------
(* Types. *)

SSHTasks == [next: SSHSteps, store: {"ssh"}, host: Host, seen: SUBSET Key, lines: Lines,
             approved: BOOLEAN, stale: BOOLEAN]
PairTasks == [next: PairSteps, store: {"sunshine"}, host: Host, seen: SUBSET Key,
              lines: Lines, approved: {FALSE}, stale: BOOLEAN]

\* What kind of task a task is.
LEMMA TaskTypes ==
    ASSUME TypeOK, NEW p \in Task
    PROVE  /\ task[p] \in Tasks
           /\ task[p] = Idle \/ task[p] \in SSHTasks \/ task[p] \in PairTasks
           /\ task[p] = Idle => task[p].next = "idle" /\ task[p].store = None
           /\ task[p] \in SSHTasks => task[p].next \in SSHSteps /\ task[p].store = "ssh"
           /\ task[p] \in PairTasks => /\ task[p].next \in PairSteps /\ task[p].store = "sunshine"
                                       /\ task[p].approved = FALSE
           /\ task[p].next # "idle" => /\ task[p].host \in Host /\ task[p].seen \subseteq Key
                                       /\ task[p].lines \in Lines /\ task[p].store \in Store
  <1>. DEFINE t == task[p]
  <1>1. t \in Tasks
    BY DEF TypeOK
  <1>. HIDE DEF t
  <1>2. t = Idle \/ t \in SSHTasks \/ t \in PairTasks
    BY <1>1 DEF Tasks, SSHTasks, PairTasks
  <1>3. t = Idle => t.next = "idle" /\ t.store = None
    BY DEF Idle
  <1>4. t \in SSHTasks => /\ t.next \in SSHSteps /\ t.store = "ssh"
                          /\ t.host \in Host /\ t.seen \subseteq Key /\ t.lines \in Lines
    BY DEF SSHTasks
  <1>5. t \in PairTasks => /\ t.next \in PairSteps /\ t.store = "sunshine" /\ t.approved = FALSE
                           /\ t.host \in Host /\ t.seen \subseteq Key /\ t.lines \in Lines
    BY DEF PairTasks
  <1>. QED  BY <1>1, <1>2, <1>3, <1>4, <1>5 DEF t, Store

\* A step that only SSH, or only a pairing, takes.
LEMMA TaskKinds ==
    ASSUME TypeOK, NEW p \in Task
    PROVE  /\ task[p].next \in {"lock", "scan", "ask", "acceptLock", "accept"} =>
                 task[p] \in SSHTasks
           /\ task[p].next \in {"list", "select", "approved", "cancelled"} =>
                 task[p] \in PairTasks
           /\ task[p].next \in StoreSteps => task[p] \in SSHTasks \/ task[p] \in PairTasks
           /\ task[p].store = "ssh" => task[p] \in SSHTasks
           /\ task[p].store = "sunshine" => task[p] \in PairTasks
  BY TaskTypes, TrustAssumption DEF SSHSteps, PairSteps, StoreSteps

\* A task that goes on to n.
LEMMA GotoTypes ==
    ASSUME TypeOK, NEW p \in Task, NEW n,
           \/ task[p] \in SSHTasks /\ n \in SSHSteps
           \/ task[p] \in PairTasks /\ n \in PairSteps
    PROVE  LET v == [task[p] EXCEPT !.next = n] IN
           /\ v \in Tasks /\ v.next = n /\ v.store = task[p].store /\ v.host = task[p].host
           /\ v.seen = task[p].seen /\ v.lines = task[p].lines
           /\ v.approved = task[p].approved /\ v.stale = task[p].stale
  BY DEF Tasks, SSHTasks, PairTasks

\* A step of task p to v, which writes no file.
Move(p, v) ==
    /\ task' = [task EXCEPT ![p] = v]
    /\ UNCHANGED <<hostVars, file, earned, overlap>>

\* What a task must be to fit the files, the pins and the lock.
Locked(v) ==
    v.store = "ssh" /\ v.next \in {"scan", "read", "accept", "write", "rename"}
FitsSSH(v) ==
    v.store = "ssh" =>
        /\ v.next \in {"read", "ask", "acceptLock", "accept", "write", "rename"} => v.seen # {}
        /\ v.next \in {"write", "rename"} =>
              /\ v.lines = [file["ssh"] EXCEPT ![v.host] = v.seen]
              /\ v.approved \/ file["ssh"][v.host] = {}
FitsPins(v) ==
    v.store = "sunshine" =>
        /\ v.next \in {"write", "rename"} /\ ~v.stale =>
              /\ v.lines = [file["sunshine"] EXCEPT ![v.host] = v.seen]
              /\ file["sunshine"][v.host] = {}
        /\ ~overlap /\ v.next = "use" =>
              \A k \in v.seen : <<"sunshine", v.host, k>> \in earned
Reaped(v) == v.store = "sunshine" /\ v.next # "list"

\* The parts of the invariant beside the types.
Rest == LockMatches /\ KnownHostsEarned /\ PinsEarned /\ PairingReaped

LEMMA Fits ==
    ASSUME Rest, NEW p \in Task
    PROVE  /\ (sshMu = p) <=> Locked(task[p])
           /\ FitsSSH(task[p]) /\ FitsPins(task[p])
           /\ pair[p] # "none" => Reaped(task[p])
  BY DEF Rest, LockMatches, KnownHostsEarned, PinsEarned, PairingReaped, Locked, FitsSSH,
     FitsPins, Reaped

\* One task moves to a state that fits; the others are as they were.
LEMMA MoveRest ==
    ASSUME TypeOK, Rest, NEW p \in Task, NEW v, Move(p, v), FitsSSH(v), FitsPins(v),
           (sshMu' = p) <=> Locked(v),
           \A q \in Task \ {p} : (sshMu' = q <=> sshMu = q) /\ pair'[q] = pair[q],
           pair'[p] # "none" => Reaped(v)
    PROVE  Rest'
  <1>1. task'[p] = v /\ \A q \in Task \ {p} : task'[q] = task[q]
    BY DEF Move, TypeOK
  <1>2. file' = file /\ earned' = earned /\ overlap' = overlap
    BY DEF Move
  <1>3. LockMatches'
    BY <1>1 DEF Rest, LockMatches, Locked
  <1>4. KnownHostsEarned'
    BY <1>1, <1>2 DEF Rest, KnownHostsEarned, FitsSSH
  <1>5. PinsEarned'
    BY <1>1, <1>2 DEF Rest, PinsEarned, FitsPins
  <1>6. PairingReaped'
    BY <1>1 DEF Rest, PairingReaped, Reaped
  <1>. QED  BY <1>3, <1>4, <1>5, <1>6 DEF Rest

\* The same for a step that leaves the lock and the processes alone.
LEMMA MoveQuietly ==
    ASSUME TypeOK, Rest, NEW p \in Task, NEW v, Move(p, v), FitsSSH(v), FitsPins(v),
           sshMu' = sshMu, pair' = pair, Locked(v) <=> Locked(task[p]),
           pair[p] # "none" => Reaped(v)
    PROVE  Rest'
  BY MoveRest, Fits

\* The idle task fits everywhere, once it has no lock and no process.
LEMMA IdleFits ==
    Idle \in Tasks /\ FitsSSH(Idle) /\ FitsPins(Idle) /\ ~Locked(Idle)
  BY TrustAssumption DEF Tasks, Idle, FitsSSH, FitsPins, Locked

\* A task of the SSH store has no pairing process.
LEMMA NoPairing ==
    ASSUME Rest, NEW p \in Task, task[p].store = "ssh"
    PROVE  pair[p] = "none"
  BY DEF Rest, PairingReaped

LEMMA MoveTypes ==
    ASSUME TypeOK, NEW p \in Task, NEW v \in Tasks, Move(p, v),
           sshMu' \in Task \cup {None}, pair' \in [Task -> {"none", "running", "exited"}],
           used' \subseteq Store \X Host \X Key
    PROVE  TypeOK'
  BY DEF TypeOK, Move, hostVars

\* The same, for a step that changes only the task.
LEMMA MoveOnly ==
    ASSUME TypeOK, Rest, NEW p \in Task, NEW v \in Tasks, Move(p, v), FitsSSH(v), FitsPins(v),
           UNCHANGED <<sshMu, pair, used>>, Locked(v) <=> Locked(task[p]),
           pair[p] # "none" => Reaped(v)
    PROVE  TypeOK' /\ Rest'
  <1>1. TypeOK'
    <2>1. /\ sshMu' \in Task \cup {None} /\ used' \subseteq Store \X Host \X Key
          /\ pair' \in [Task -> {"none", "running", "exited"}]
      BY DEF TypeOK
    <2>. QED  BY <2>1, MoveTypes
  <1>2. Rest'
    BY MoveQuietly
  <1>. QED  BY <1>1, <1>2

\* A task without a process ends, and gives up the lock if it holds it.
LEMMA EndStep ==
    ASSUME TypeOK, Rest, NEW p \in Task, Move(p, Idle), pair' = pair, pair[p] = "none",
           sshMu' = IF sshMu = p THEN None ELSE sshMu,
           used' \subseteq Store \X Host \X Key
    PROVE  TypeOK' /\ Rest'
  <1>1. sshMu' \in Task \cup {None} /\ pair' \in [Task -> {"none", "running", "exited"}]
    BY DEF TypeOK
  <1>2. sshMu' # p /\ \A q \in Task \ {p} : sshMu' = q <=> sshMu = q
    BY TrustAssumption
  <1>. QED  BY <1>1, <1>2, IdleFits, MoveTypes, MoveRest

-----------------------------------------------------------------------------
(* The steps of SSH. *)

LEMMA PrepareSSHStep ==
    ASSUME TypeOK, Rest, NEW p \in Task, NEW h \in Host, PrepareSSH(p, h)
    PROVE  TypeOK' /\ Rest'
  <1>. DEFINE v == [Idle EXCEPT !.next = "lock", !.store = "ssh", !.host = h]
  <1>1. v \in Tasks /\ v.next = "lock" /\ v.store = "ssh"
    BY DEF Idle, Tasks, SSHSteps, Lines, NoLines
  <1>2. Move(p, v) /\ UNCHANGED <<sshMu, pair, used>>
    BY DEF PrepareSSH, Move, observed
  <1>3. ~Locked(task[p]) /\ pair[p] = "none"
    <2>1. task[p] = Idle
      BY DEF PrepareSSH
    <2>. QED  BY <2>1, TrustAssumption, Fits DEF Locked, Reaped, Idle
  <1>. HIDE DEF v
  <1>4. FitsSSH(v) /\ FitsPins(v) /\ ~Locked(v)
    BY <1>1 DEF FitsSSH, FitsPins, Locked
  <1>. QED  BY <1>1, <1>2, <1>3, <1>4, MoveOnly

LEMMA LockStep ==
    ASSUME TypeOK, Rest, NEW p \in Task, Lock(p)
    PROVE  TypeOK' /\ Rest'
  <1>. DEFINE n == IF task[p].next = "lock" THEN "scan" ELSE "accept"
              v == [task[p] EXCEPT !.next = n]
  <1>1. task[p] \in SSHTasks /\ n \in SSHSteps /\ task[p].store = "ssh"
    BY TaskKinds, TaskTypes DEF Lock, SSHSteps
  <1>2. v \in Tasks /\ v.next = n /\ v.store = "ssh" /\ v.seen = task[p].seen
    BY <1>1, GotoTypes
  <1>3. Move(p, v) /\ sshMu = None /\ sshMu' = p /\ UNCHANGED <<pair, used>>
    BY DEF Lock, Goto, Move, observed
  <1>4. n = "scan" \/ (n = "accept" /\ task[p].next = "acceptLock")
    BY DEF Lock
  <1>5. FitsSSH(v) /\ FitsPins(v) /\ Locked(v)
    <2>1. FitsSSH(task[p])
      BY Fits
    <2>. HIDE DEF v, n
    <2>. QED  BY <2>1, <1>1, <1>2, <1>4 DEF FitsSSH, FitsPins, Locked
  <1>6. \A q \in Task \ {p} : sshMu' = q <=> sshMu = q
    BY <1>3, TrustAssumption
  <1>7. pair[p] = "none"
    BY <1>1, NoPairing
  <1>. HIDE DEF v, n
  <1>8. TypeOK'
    BY <1>2, <1>3, MoveTypes DEF TypeOK
  <1>9. Rest'
    BY <1>3, <1>5, <1>6, <1>7, MoveRest
  <1>. QED  BY <1>8, <1>9

LEMMA ScanStep ==
    ASSUME TypeOK, Rest, NEW p \in Task, NEW K \in SUBSET Key, Scan(p, K)
    PROVE  TypeOK' /\ Rest'
  <1>. DEFINE v == [task[p] EXCEPT !.next = "read", !.seen = K]
  <1>1. task[p] \in SSHTasks /\ task[p].store = "ssh" /\ task[p].next = "scan" /\ K # {}
    BY TaskKinds, TaskTypes DEF Scan
  <1>2. v \in Tasks /\ v.next = "read" /\ v.store = "ssh" /\ v.seen = K
    BY <1>1 DEF Tasks, SSHTasks, SSHSteps, StoreSteps
  <1>3. Move(p, v) /\ UNCHANGED <<sshMu, pair, used>>
    BY DEF Scan, Move, observed
  <1>. HIDE DEF v
  <1>4. FitsSSH(v) /\ FitsPins(v) /\ Locked(v) /\ Locked(task[p])
    BY <1>1, <1>2 DEF FitsSSH, FitsPins, Locked
  <1>5. pair[p] = "none"
    BY <1>1, NoPairing
  <1>. QED  BY <1>2, <1>3, <1>4, <1>5, MoveOnly

\* The steps that end an SSH task.
LEMMA SSHEnds ==
    ASSUME TypeOK, Rest, NEW p \in Task,
           \/ ScanFails(p) \/ ConnectFails(p) \/ Decline(p)
           \/ \E k \in Key : ConnectSSH(p, k)
    PROVE  TypeOK' /\ Rest'
  <1>1. task[p] \in SSHTasks /\ task[p].store = "ssh"
    BY TaskKinds, TaskTypes DEF ScanFails, ConnectFails, Decline, ConnectSSH
  <1>2. task[p].host \in Host /\ used \subseteq Store \X Host \X Key
    BY <1>1 DEF SSHTasks, TypeOK
  <1>3. Move(p, Idle) /\ pair' = pair
    BY DEF ScanFails, ConnectFails, Decline, ConnectSSH, End, Move, observed
  <1>4. used' \subseteq Store \X Host \X Key
    BY <1>2 DEF ScanFails, ConnectFails, Decline, ConnectSSH, observed, Store
  <1>5. sshMu = p <=> Locked(task[p])
    BY Fits
  <1>6. sshMu' = IF sshMu = p THEN None ELSE sshMu
    BY <1>1, <1>5 DEF ScanFails, ConnectFails, Decline, ConnectSSH, Locked
  <1>7. pair[p] = "none"
    BY <1>1, NoPairing
  <1>. QED  BY <1>3, <1>4, <1>6, <1>7, EndStep

LEMMA ApproveStep ==
    ASSUME TypeOK, Rest, NEW p \in Task, Approve(p)
    PROVE  TypeOK' /\ Rest'
  <1>. DEFINE v == [task[p] EXCEPT !.next = "acceptLock"]
  <1>1. task[p] \in SSHTasks /\ task[p].store = "ssh" /\ task[p].next = "ask"
    BY TaskKinds, TaskTypes DEF Approve
  <1>2. v \in Tasks /\ v.next = "acceptLock" /\ v.store = "ssh" /\ v.seen = task[p].seen
    BY <1>1, GotoTypes DEF SSHSteps
  <1>3. Move(p, v) /\ UNCHANGED <<sshMu, pair, used>>
    BY DEF Approve, Goto, Move, observed
  <1>4. FitsSSH(task[p])
    BY Fits
  <1>. HIDE DEF v
  <1>5. FitsSSH(v) /\ FitsPins(v) /\ ~Locked(v) /\ ~Locked(task[p])
    BY <1>1, <1>2, <1>4 DEF FitsSSH, FitsPins, Locked
  <1>6. pair[p] = "none"
    BY <1>1, NoPairing
  <1>. QED  BY <1>2, <1>3, <1>5, <1>6, MoveOnly

LEMMA AcceptStep ==
    ASSUME TypeOK, Rest, NEW p \in Task, Accept(p)
    PROVE  TypeOK' /\ Rest'
  <1>. DEFINE L == [file["ssh"] EXCEPT ![task[p].host] = task[p].seen]
              v == [task[p] EXCEPT !.next = "write", !.approved = TRUE, !.lines = L]
  <1>1. task[p] \in SSHTasks /\ task[p].store = "ssh" /\ task[p].next = "accept"
    BY TaskKinds, TaskTypes DEF Accept
  <1>2. L \in Lines
    <2>1. file["ssh"] \in Lines
      BY DEF TypeOK, Store
    <2>2. task[p].host \in Host /\ task[p].seen \in SUBSET Key
      BY <1>1 DEF SSHTasks
    <2>. QED  BY <2>1, <2>2 DEF Lines
  <1>3. /\ v \in Tasks /\ v.next = "write" /\ v.store = "ssh" /\ v.seen = task[p].seen
        /\ v.approved /\ v.lines = L /\ v.host = task[p].host
    BY <1>1, <1>2 DEF Tasks, SSHTasks, SSHSteps, StoreSteps
  <1>4. Move(p, v) /\ UNCHANGED <<sshMu, pair, used>>
    BY DEF Accept, Move, observed
  <1>5. FitsSSH(task[p])
    BY Fits
  <1>. HIDE DEF v
  <1>6. FitsSSH(v) /\ FitsPins(v) /\ Locked(v) /\ Locked(task[p])
    BY <1>1, <1>3, <1>5 DEF FitsSSH, FitsPins, Locked
  <1>7. pair[p] = "none"
    BY <1>1, NoPairing
  <1>. QED  BY <1>3, <1>4, <1>6, <1>7, MoveOnly

-----------------------------------------------------------------------------
(* The steps of a pairing. *)

LEMMA PrepareMoonlightStep ==
    ASSUME TypeOK, Rest, NEW p \in Task, NEW h \in Host, PrepareMoonlight(p, h)
    PROVE  TypeOK' /\ Rest'
  <1>. DEFINE v == [Idle EXCEPT !.next = "list", !.store = "sunshine", !.host = h]
  <1>1. v \in Tasks /\ v.next = "list" /\ v.store = "sunshine"
    BY DEF Idle, Tasks, PairSteps, Lines, NoLines
  <1>2. Move(p, v) /\ UNCHANGED <<sshMu, pair, used>>
    BY DEF PrepareMoonlight, Move, observed
  <1>3. ~Locked(task[p]) /\ pair[p] = "none"
    <2>1. task[p] = Idle
      BY DEF PrepareMoonlight
    <2>. QED  BY <2>1, TrustAssumption, Fits DEF Locked, Reaped, Idle
  <1>. HIDE DEF v
  <1>4. FitsSSH(v) /\ FitsPins(v) /\ ~Locked(v)
    BY <1>1 DEF FitsSSH, FitsPins, Locked
  <1>. QED  BY <1>1, <1>2, <1>3, <1>4, MoveOnly

LEMMA ListedStep ==
    ASSUME TypeOK, Rest, NEW p \in Task, Listed(p)
    PROVE  TypeOK' /\ Rest'
  <1>1. task[p] \in PairTasks /\ task[p].store = "sunshine" /\ task[p].next = "list"
    BY TaskKinds, TaskTypes DEF Listed
  <1>2. Move(p, Idle) /\ UNCHANGED <<sshMu, pair, used>>
    BY DEF Listed, End, Move, observed
  <1>3. pair[p] = "none" /\ sshMu # p
    BY <1>1, Fits DEF Reaped, Locked
  <1>. QED  BY <1>2, <1>3, EndStep DEF TypeOK

LEMMA StartPairingStep ==
    ASSUME TypeOK, Rest, NEW p \in Task, StartPairing(p)
    PROVE  TypeOK' /\ Rest'
  <1>. DEFINE v == [task[p] EXCEPT !.next = "select"]
  <1>1. task[p] \in PairTasks /\ task[p].store = "sunshine" /\ task[p].next = "list"
    BY TaskKinds, TaskTypes DEF StartPairing
  <1>2. v \in Tasks /\ v.next = "select" /\ v.store = "sunshine"
    BY <1>1, GotoTypes DEF PairSteps
  <1>3. Move(p, v) /\ UNCHANGED <<sshMu, used>> /\ pair' = [pair EXCEPT ![p] = "running"]
    BY DEF StartPairing, Goto, Move, observed
  <1>4. sshMu # p
    BY <1>1, Fits DEF Locked
  <1>. HIDE DEF v
  <1>5. FitsSSH(v) /\ FitsPins(v) /\ ~Locked(v) /\ Reaped(v)
    BY <1>2 DEF FitsSSH, FitsPins, Locked, Reaped
  <1>6. /\ pair' \in [Task -> {"none", "running", "exited"}]
        /\ \A q \in Task \ {p} : pair'[q] = pair[q]
    BY <1>3 DEF TypeOK
  <1>7. TypeOK'
    BY <1>2, <1>3, <1>6, MoveTypes DEF TypeOK
  <1>8. Rest'
    BY <1>3, <1>4, <1>5, <1>6, MoveRest
  <1>. QED  BY <1>7, <1>8

LEMMA WaitedStep ==
    ASSUME TypeOK, Rest, NEW p \in Task, Waited(p)
    PROVE  TypeOK' /\ Rest'
  <1>1. task[p] \in PairTasks /\ task[p].store = "sunshine"
    BY TaskKinds, TaskTypes DEF Waited
  <1>2. Move(p, Idle) /\ UNCHANGED <<sshMu, used>> /\ pair' = [pair EXCEPT ![p] = "none"]
    BY DEF Waited, End, Move, observed
  <1>3. sshMu # p
    BY <1>1, Fits DEF Locked
  <1>4. /\ pair' \in [Task -> {"none", "running", "exited"}] /\ pair'[p] = "none"
        /\ \A q \in Task \ {p} : pair'[q] = pair[q]
    BY <1>2 DEF TypeOK
  <1>5. TypeOK'
    BY <1>2, <1>4, IdleFits, MoveTypes DEF TypeOK
  <1>6. Rest'
    BY <1>2, <1>3, <1>4, IdleFits, MoveRest
  <1>. QED  BY <1>5, <1>6

LEMMA PairExitsStep ==
    ASSUME TypeOK, Rest, NEW p \in Task, PairExits(p)
    PROVE  TypeOK' /\ Rest'
  <1>1. pair' = [pair EXCEPT ![p] = "exited"] /\ pair[p] = "running"
    BY DEF PairExits
  <1>2. UNCHANGED <<hostVars, file, task, sshMu, observed>>
    BY DEF PairExits
  <1>3. TypeOK'
    BY <1>1, <1>2 DEF TypeOK, hostVars, observed
  <1>4. Rest'
    BY <1>1, <1>2 DEF Rest, LockMatches, KnownHostsEarned, PinsEarned, PairingReaped,
       TypeOK, observed
  <1>. QED  BY <1>3, <1>4

LEMMA DeadlineStep ==
    ASSUME TypeOK, Rest, NEW p \in Task, Deadline(p)
    PROVE  TypeOK' /\ Rest'
  <1>. DEFINE v == [task[p] EXCEPT !.next = "cancelled"]
  <1>1. task[p] \in PairTasks /\ task[p].store = "sunshine"
    BY TaskKinds, TaskTypes DEF Deadline
  <1>2. v \in Tasks /\ v.next = "cancelled" /\ v.store = "sunshine"
    BY <1>1, GotoTypes DEF PairSteps
  <1>3. Move(p, v) /\ UNCHANGED <<sshMu, pair, used>>
    BY DEF Deadline, Goto, Move, observed
  <1>. HIDE DEF v
  <1>4. FitsSSH(v) /\ FitsPins(v) /\ ~Locked(v) /\ ~Locked(task[p]) /\ Reaped(v)
    BY <1>1, <1>2 DEF FitsSSH, FitsPins, Locked, Reaped
  <1>. QED  BY <1>2, <1>3, <1>4, MoveOnly

LEMMA TickStep ==
    ASSUME TypeOK, Rest, NEW p \in Task, Tick(p)
    PROVE  TypeOK' /\ Rest'
  <1>. DEFINE K == keys["sunshine"][task[p].host]
              v == [task[p] EXCEPT !.next = "read", !.seen = K]
  <1>1. task[p] \in PairTasks /\ task[p].store = "sunshine"
    BY TaskKinds, TaskTypes DEF Tick
  <1>2. K \in SUBSET Key
    BY <1>1 DEF PairTasks, TypeOK, Store
  <1>3. v \in Tasks /\ v.next = "read" /\ v.store = "sunshine"
    BY <1>1, <1>2 DEF Tasks, PairTasks, PairSteps, StoreSteps
  <1>4. Move(p, v) /\ UNCHANGED <<sshMu, pair, used>>
    BY DEF Tick, Move, observed
  <1>. HIDE DEF v
  <1>5. FitsSSH(v) /\ FitsPins(v) /\ ~Locked(v) /\ ~Locked(task[p]) /\ Reaped(v)
    BY <1>1, <1>3 DEF FitsSSH, FitsPins, Locked, Reaped
  <1>. QED  BY <1>3, <1>4, <1>5, MoveOnly

LEMMA SubmitStep ==
    ASSUME TypeOK, Rest, NEW p \in Task, NEW n \in {"use", "select", "approved", "cancelled"},
           Submit(p, n)
    PROVE  TypeOK' /\ Rest'
  <1>. DEFINE K == IF n = "use" THEN task[p].seen ELSE {}
              v == [task[p] EXCEPT !.next = n, !.seen = K]
  <1>1. task[p] \in PairTasks /\ task[p].store = "sunshine"
    BY TaskKinds, TaskTypes DEF Submit
  <1>2. /\ v \in Tasks /\ v.next = n /\ v.store = "sunshine" /\ v.host = task[p].host
        /\ v.seen = K
    <2>1. K \in SUBSET Key
      BY <1>1 DEF PairTasks
    <2>. HIDE DEF K
    <2>. QED  BY <2>1, <1>1 DEF Tasks, PairTasks, PairSteps, StoreSteps
  <1>3. Move(p, v) /\ UNCHANGED <<sshMu, pair>>
    BY DEF Submit, Move, observed
  <1>4. used' \subseteq Store \X Host \X Key
    <2>1. used \subseteq Store \X Host \X Key
      BY DEF TypeOK
    <2>2. task[p].host \in Host /\ task[p].seen \subseteq Key /\ "sunshine" \in Store
      BY <1>1 DEF PairTasks, Store
    <2>3. used' = used \cup {<<"sunshine", task[p].host, k>> : k \in task[p].seen}
      BY DEF Submit
    <2>4. \A k \in task[p].seen : <<"sunshine", task[p].host, k>> \in Store \X Host \X Key
      BY <2>2
    <2>5. \A e \in used' : e \in used \/ \E k \in task[p].seen : e = <<"sunshine", task[p].host, k>>
      BY <2>3
    <2>. QED  BY <2>1, <2>4, <2>5
  <1>. HIDE DEF v
  <1>5. FitsSSH(v) /\ FitsPins(v) /\ ~Locked(v) /\ ~Locked(task[p]) /\ Reaped(v)
    <2>1. FitsPins(task[p]) /\ task[p].next = "use"
      BY Fits DEF Submit
    <2>. QED  BY <2>1, <1>1, <1>2 DEF FitsSSH, FitsPins, Locked, Reaped
  <1>6. TypeOK'
    BY <1>2, <1>3, <1>4, MoveTypes DEF TypeOK
  <1>7. Rest'
    BY <1>3, <1>5, MoveQuietly
  <1>. QED  BY <1>6, <1>7

-----------------------------------------------------------------------------
(* The steps of the stores. *)

LEMMA WriteTempStep ==
    ASSUME TypeOK, Rest, NEW p \in Task, WriteTemp(p)
    PROVE  TypeOK' /\ Rest'
  <1>. DEFINE v == [task[p] EXCEPT !.next = "rename"]
  <1>1. task[p].next = "write" /\ (task[p] \in SSHTasks \/ task[p] \in PairTasks)
    BY TaskKinds DEF WriteTemp, StoreSteps
  <1>2. /\ v \in Tasks /\ v.next = "rename" /\ v.store = task[p].store
        /\ v.host = task[p].host /\ v.seen = task[p].seen /\ v.lines = task[p].lines
        /\ v.approved = task[p].approved /\ v.stale = task[p].stale
    BY <1>1, GotoTypes DEF SSHSteps, PairSteps, StoreSteps
  <1>3. Move(p, v) /\ UNCHANGED <<sshMu, pair, used>>
    BY DEF WriteTemp, Goto, Move, observed
  <1>4. FitsSSH(task[p]) /\ FitsPins(task[p]) /\ (pair[p] # "none" => Reaped(task[p]))
    BY Fits
  <1>. HIDE DEF v
  <1>5. /\ FitsSSH(v) /\ FitsPins(v) /\ (Locked(v) <=> Locked(task[p]))
        /\ pair[p] # "none" => Reaped(v)
    BY <1>1, <1>2, <1>4 DEF FitsSSH, FitsPins, Locked, Reaped
  <1>. QED  BY <1>2, <1>3, <1>5, MoveOnly

LEMMA StoreFailsStep ==
    ASSUME TypeOK, Rest, NEW p \in Task, StoreFails(p)
    PROVE  TypeOK' /\ Rest'
  <1>. DEFINE t == task[p]
              n == IF t.store = "sunshine" THEN "select" ELSE "ask"
              v == [t EXCEPT !.next = n, !.lines = NoLines, !.approved = FALSE,
                             !.stale = FALSE]
  <1>1. /\ t.next \in {"read", "accept", "write", "rename"}
        /\ t \in SSHTasks \/ t \in PairTasks
    BY TaskKinds DEF StoreFails, StoreSteps
  <1>2. /\ t \in SSHTasks => t.store = "ssh"
        /\ t \in PairTasks => t.store = "sunshine"
    BY TaskTypes
  <1>3. /\ sshMu' = IF sshMu = p THEN None ELSE sshMu
        /\ UNCHANGED <<hostVars, file, pair, observed>>
    BY DEF StoreFails
  <1>4. used' \subseteq Store \X Host \X Key /\ sshMu' \in Task \cup {None}
        /\ pair' \in [Task -> {"none", "running", "exited"}]
    BY <1>3 DEF TypeOK, observed
  <1>5. CASE t.store = "ssh" /\ t.next # "accept" /\ ~t.approved
    <2>1. Move(p, Idle)
      BY <1>3, <1>5 DEF StoreFails, Move, observed
    <2>2. pair[p] = "none"
      BY <1>5, NoPairing
    <2>. QED  BY <2>1, <2>2, <1>3, <1>4, EndStep
  <1>6. CASE ~(t.store = "ssh" /\ t.next # "accept" /\ ~t.approved)
    <2>1. Move(p, v)
      BY <1>3, <1>6 DEF StoreFails, Move, observed
    <2>2. v \in Tasks /\ v.next = n /\ v.store = t.store /\ v.seen = t.seen
      <3>. HIDE DEF t
      <3>. QED  BY <1>1, <1>2 DEF Tasks, SSHTasks, PairTasks, SSHSteps, PairSteps, Lines, NoLines
    <2>3. FitsSSH(t) /\ (pair[p] # "none" => Reaped(t))
      BY Fits
    <2>. HIDE DEF v, t
    <2>4. /\ FitsSSH(v) /\ FitsPins(v) /\ ~Locked(v)
          /\ pair[p] # "none" => Reaped(v)
      BY <2>2, <2>3, <1>1, <1>2 DEF FitsSSH, FitsPins, Locked, Reaped
    <2>5. sshMu' # p /\ \A q \in Task \ {p} : sshMu' = q <=> sshMu = q
      BY <1>3, TrustAssumption
    <2>6. TypeOK'
      BY <2>1, <2>2, <1>4, MoveTypes
    <2>7. Rest'
      BY <2>1, <2>4, <2>5, <1>3, MoveRest
    <2>. QED  BY <2>6, <2>7
  <1>. QED  BY <1>5, <1>6

\* The three verdicts, and what they say of the file.
LEMMA Verdicts ==
    ASSUME NEW lines, NEW h, NEW K
    PROVE  \/ Verdict(lines, h, K) = "write" /\ lines[h] = {}
           \/ Verdict(lines, h, K) = "use" /\ lines[h] = K
           \/ Verdict(lines, h, K) = "ask"
  BY DEF Verdict

LEMMA ReadStep ==
    ASSUME TypeOK, Rest, NEW p \in Task, Read(p)
    PROVE  TypeOK' /\ Rest'
  <1>. DEFINE t == task[p]
              lines == file[t.store]
              verdict == Verdict(lines, t.host, t.seen)
              new == [lines EXCEPT ![t.host] = t.seen]
              n == IF t.store = "ssh" THEN "ask" ELSE "cancelled"
              v1 == [t EXCEPT !.next = "write", !.lines = new]
              v2 == [t EXCEPT !.next = "use"]
              v3 == [t EXCEPT !.next = n]
  <1>1. t.next = "read" /\ (t \in SSHTasks \/ t \in PairTasks)
    BY TaskKinds DEF Read, StoreSteps
  <1>2. /\ t \in SSHTasks => t.store = "ssh"
        /\ t \in PairTasks => t.store = "sunshine"
        /\ t.host \in Host /\ t.seen \subseteq Key
    BY <1>1, TaskTypes
  <1>3. new \in Lines
    <2>1. lines \in Lines
      BY <1>1, <1>2 DEF TypeOK, Store
    <2>. QED  BY <2>1, <1>2 DEF Lines
  <1>4. /\ FitsSSH(t) /\ FitsPins(t) /\ (pair[p] # "none" => Reaped(t))
        /\ sshMu = p <=> Locked(t)
    BY Fits
  <1>5. /\ sshMu' = IF sshMu = p /\ verdict # "write" THEN None ELSE sshMu
        /\ UNCHANGED <<hostVars, file, pair, observed>>
    BY DEF Read
  <1>6. used' \subseteq Store \X Host \X Key /\ sshMu' \in Task \cup {None}
        /\ pair' \in [Task -> {"none", "running", "exited"}]
    BY <1>5 DEF TypeOK, observed
  <1>7. \A q \in Task \ {p} : sshMu' = q <=> sshMu = q
    BY <1>5, TrustAssumption
  <1>8. CASE verdict = "write" /\ lines[t.host] = {}
    <2>1. Move(p, v1) /\ sshMu' = sshMu
      BY <1>5, <1>8 DEF Read, Move, observed
    <2>2. /\ v1 \in Tasks /\ v1.next = "write" /\ v1.store = t.store /\ v1.host = t.host
          /\ v1.seen = t.seen /\ v1.lines = new
      <3>. HIDE DEF t, new
      <3>. QED  BY <1>1, <1>3 DEF Tasks, SSHTasks, PairTasks, SSHSteps, PairSteps, StoreSteps
    <2>. HIDE DEF v1
    <2>3. FitsSSH(v1) /\ FitsPins(v1)
      BY <2>2, <1>1, <1>2, <1>4, <1>8 DEF FitsSSH, FitsPins
    <2>4. (Locked(v1) <=> Locked(t)) /\ (pair[p] # "none" => Reaped(v1))
      BY <2>2, <1>1, <1>4 DEF Locked, Reaped
    <2>5. TypeOK'
      BY <2>1, <2>2, <1>6, MoveTypes
    <2>6. Rest'
      BY <2>1, <2>3, <2>4, <1>5, MoveQuietly
    <2>. QED  BY <2>5, <2>6
  <1>9. CASE verdict = "use" /\ lines[t.host] = t.seen
    <2>1. Move(p, v2) /\ sshMu' # p
      BY <1>5, <1>9, TrustAssumption DEF Read, Move, observed
    <2>2. v2 \in Tasks /\ v2.next = "use" /\ v2.store = t.store /\ v2.host = t.host
          /\ v2.seen = t.seen
      BY <1>1, GotoTypes DEF SSHSteps, PairSteps, StoreSteps
    <2>3. t.store = "sunshine" /\ ~overlap =>
              \A k \in t.seen : <<"sunshine", t.host, k>> \in earned
      BY <1>2, <1>9 DEF Rest, PinsEarned
    <2>. HIDE DEF v2
    <2>4. FitsSSH(v2) /\ FitsPins(v2) /\ ~Locked(v2) /\ (pair[p] # "none" => Reaped(v2))
      BY <2>2, <2>3, <1>4 DEF FitsSSH, FitsPins, Locked, Reaped
    <2>5. TypeOK'
      BY <2>1, <2>2, <1>6, MoveTypes
    <2>6. Rest'
      BY <2>1, <2>4, <1>5, <1>7, MoveRest
    <2>. QED  BY <2>5, <2>6
  <1>10. CASE verdict = "ask"
    <2>1. Move(p, v3) /\ sshMu' # p
      BY <1>5, <1>10, TrustAssumption DEF Read, Move, observed
    <2>2. v3 \in Tasks /\ v3.next = n /\ v3.store = t.store /\ v3.seen = t.seen
      BY <1>1, <1>2, GotoTypes DEF SSHSteps, PairSteps
    <2>. HIDE DEF v3
    <2>3. FitsSSH(v3) /\ FitsPins(v3) /\ ~Locked(v3) /\ (pair[p] # "none" => Reaped(v3))
      BY <2>2, <1>1, <1>2, <1>4 DEF FitsSSH, FitsPins, Locked, Reaped
    <2>4. TypeOK'
      BY <2>1, <2>2, <1>6, MoveTypes
    <2>5. Rest'
      BY <2>1, <2>3, <1>5, <1>7, MoveRest
    <2>. QED  BY <2>4, <2>5
  <1>. QED  BY <1>8, <1>9, <1>10, Verdicts

\* What a rename makes of the tasks.
Renamed(p, q) ==
    IF q = p THEN IF task[p].approved THEN Idle
                  ELSE [task[p] EXCEPT !.next = "use", !.lines = NoLines, !.stale = FALSE]
    ELSE IF task[q].store = task[p].store /\ task[q].next \in {"write", "rename"}
         THEN [task[q] EXCEPT !.stale = TRUE] ELSE task[q]

\* Task q has read the file that p replaces, and is about to replace it too.
Overtaken(p, q) == task[q].store = task[p].store /\ task[q].next \in {"write", "rename"}

LEMMA RenamedTask ==
    ASSUME TypeOK, NEW p \in Task, Rename(p)
    PROVE  /\ \/ task'[p] = Idle
              \/ /\ task'[p].next = "use" /\ task'[p].store = task[p].store
                 /\ task'[p].host = task[p].host /\ task'[p].seen = task[p].seen
           /\ task[p].store = "sunshine" => task'[p] # Idle
           /\ \A q \in Task \ {p} :
                 /\ task'[q].next = task[q].next /\ task'[q].store = task[q].store
                 /\ task'[q].host = task[q].host /\ task'[q].seen = task[q].seen
                 /\ task'[q].lines = task[q].lines /\ task'[q].approved = task[q].approved
                 /\ Overtaken(p, q) => task'[q].stale = TRUE
                 /\ ~Overtaken(p, q) => task'[q].stale = task[q].stale
           /\ task' \in [Task -> Tasks]
  <1>1. task[p].next = "rename" /\ (task[p] \in SSHTasks \/ task[p] \in PairTasks)
    BY TaskKinds DEF Rename, StoreSteps
  <1>2. task' = [q \in Task |-> Renamed(p, q)]
    BY DEF Rename, Renamed
  <1>3. Renamed(p, p) \in Tasks /\ task'[p] = Renamed(p, p)
    <2>. DEFINE t == task[p]
                v == [t EXCEPT !.next = "use", !.lines = NoLines, !.stale = FALSE]
    <2>1. v \in Tasks
      <3>. HIDE DEF t
      <3>. QED  BY <1>1 DEF t, Tasks, SSHTasks, PairTasks, SSHSteps, PairSteps, StoreSteps,
                Lines, NoLines
    <2>. QED  BY <2>1, <1>2, IdleFits DEF Renamed
  <1>4. /\ \/ task'[p] = Idle
           \/ /\ task'[p].next = "use" /\ task'[p].store = task[p].store
              /\ task'[p].host = task[p].host /\ task'[p].seen = task[p].seen
        /\ task[p].store = "sunshine" => task'[p] # Idle
    <2>. DEFINE t == task[p]
                v == [t EXCEPT !.next = "use", !.lines = NoLines, !.stale = FALSE]
    <2>1. v.next = "use" /\ v.store = t.store /\ v.host = t.host /\ v.seen = t.seen
      <3>. HIDE DEF t
      <3>. QED  BY <1>1 DEF t, SSHTasks, PairTasks
    <2>2. v # Idle
      BY <2>1 DEF Idle
    <2>3. t.store = "sunshine" => ~t.approved
      BY TaskKinds, TaskTypes
    <2>4. Renamed(p, p) = IF t.approved THEN Idle ELSE v
      BY DEF Renamed
    <2>. HIDE DEF v
    <2>. QED  BY <2>1, <2>2, <2>3, <2>4, <1>3
  <1>5. ASSUME NEW q \in Task, q # p
        PROVE  /\ task'[q].next = task[q].next /\ task'[q].store = task[q].store
               /\ task'[q].host = task[q].host /\ task'[q].seen = task[q].seen
               /\ task'[q].lines = task[q].lines /\ task'[q].approved = task[q].approved
               /\ Overtaken(p, q) => task'[q].stale = TRUE
               /\ ~Overtaken(p, q) => task'[q].stale = task[q].stale
               /\ task'[q] \in Tasks
    <2>. DEFINE t == task[q]
                v == [t EXCEPT !.stale = TRUE]
    <2>1. CASE Overtaken(p, q)
      <3>1. task'[q] = v
        BY <1>2, <1>5, <2>1 DEF Renamed, Overtaken
      <3>2. t \in SSHTasks \/ t \in PairTasks
        BY <2>1, TaskKinds DEF StoreSteps, Overtaken
      <3>3. /\ v.next = t.next /\ v.store = t.store /\ v.host = t.host /\ v.seen = t.seen
            /\ v.lines = t.lines /\ v.approved = t.approved /\ v.stale = TRUE /\ v \in Tasks
        <4>. HIDE DEF t
        <4>. QED  BY <3>2 DEF SSHTasks, PairTasks, Tasks
      <3>. QED  BY <3>1, <3>3, <2>1
    <2>2. CASE ~Overtaken(p, q)
      BY <1>2, <1>5, <2>2, TaskTypes DEF Renamed, Overtaken
    <2>. QED  BY <2>1, <2>2
  <1>6. task' \in [Task -> Tasks]
    <2>1. \A q \in Task : task'[q] \in Tasks
      BY <1>3, <1>5
    <2>2. \A q \in Task : Renamed(p, q) \in Tasks
      BY <2>1, <1>2
    <2>. QED  BY <2>2, <1>2
  <1>. QED  BY <1>4, <1>5, <1>6

\* What a rename makes of the files and of what is known of them.
LEMMA RenamedFile ==
    ASSUME TypeOK, Rest, NEW p \in Task, Rename(p)
    PROVE  /\ task[p].store \in Store /\ task[p].host \in Host
           /\ file' \in [Store -> Lines] /\ file'[task[p].store] = task[p].lines
           /\ \A s \in Store \ {task[p].store} : file'[s] = file[s]
           /\ earned \subseteq earned' /\ earned' \subseteq Store \X Host \X Key
           /\ \A e \in earned' \ earned :
                 e[1] = task[p].store /\ e[2] = task[p].host /\ e[3] \in task[p].seen
           /\ (task[p].approved \/ \A e \in earned : ~(e[1] = task[p].store /\ e[2] = task[p].host))
                 => \A k \in task[p].seen : <<task[p].store, task[p].host, k>> \in earned'
  <1>. DEFINE t == task[p]
              new == {<<t.store, t.host, k>> : k \in t.seen}
  <1>1. t.store \in Store /\ t.host \in Host /\ t.seen \subseteq Key /\ t.lines \in Lines
    BY TaskTypes DEF Rename
  <1>2. /\ file' = [file EXCEPT ![t.store] = t.lines]
        /\ earned' = IF t.approved \/ {e \in earned : e[1] = t.store /\ e[2] = t.host} = {}
                     THEN earned \cup new ELSE earned
    BY DEF Rename
  <1>. HIDE DEF t
  <1>3. /\ file' \in [Store -> Lines] /\ file'[t.store] = t.lines
        /\ \A s \in Store \ {t.store} : file'[s] = file[s]
    BY <1>1, <1>2 DEF TypeOK
  <1>4. \A e \in new : /\ e \in Store \X Host \X Key
                       /\ e[1] = t.store /\ e[2] = t.host /\ e[3] \in t.seen
    BY <1>1
  <1>5. earned \subseteq earned' /\ earned' \subseteq earned \cup new
    BY <1>2
  <1>6. /\ earned' \subseteq Store \X Host \X Key
        /\ \A e \in earned' \ earned : e[1] = t.store /\ e[2] = t.host /\ e[3] \in t.seen
    <2>. HIDE DEF new
    <2>. QED  BY <1>4, <1>5 DEF TypeOK
  <1>7. (t.approved \/ \A e \in earned : ~(e[1] = t.store /\ e[2] = t.host))
            => \A k \in t.seen : <<t.store, t.host, k>> \in earned'
    <2>1. \A k \in t.seen : <<t.store, t.host, k>> \in new
      OBVIOUS
    <2>. HIDE DEF new
    <2>. QED  BY <2>1, <1>2
  <1>. QED  BY <1>1, <1>3, <1>5, <1>6, <1>7 DEF t

LEMMA RenameTypes ==
    ASSUME TypeOK, Rest, NEW p \in Task, Rename(p)
    PROVE  TypeOK'
  <1>1. task' \in [Task -> Tasks]
    BY RenamedTask
  <1>2. file' \in [Store -> Lines] /\ earned' \subseteq Store \X Host \X Key
    BY RenamedFile
  <1>3. /\ sshMu' = IF sshMu = p THEN None ELSE sshMu
        /\ overlap' = (overlap \/ (task[p].store = "sunshine" /\ task[p].stale))
        /\ UNCHANGED <<hostVars, pair, used>>
    BY DEF Rename
  <1>4. overlap' \in BOOLEAN
    BY <1>3 DEF TypeOK
  <1>5. sshMu' \in Task \cup {None}
    BY <1>3 DEF TypeOK
  <1>. QED  BY <1>1, <1>2, <1>3, <1>4, <1>5 DEF TypeOK, hostVars

\* The known hosts are replaced: the lock keeps other SSH tasks from writing.
LEMMA RenameKnownHosts ==
    ASSUME TypeOK, Rest, NEW p \in Task, Rename(p), task[p].store = "ssh"
    PROVE  Rest'
  <1>. DEFINE t == task[p]
  <1>1. t.next = "rename" /\ Locked(t) /\ sshMu = p /\ pair[p] = "none"
    BY Fits, NoPairing DEF Rename, Locked
  <1>2. \A q \in Task \ {p} : ~Locked(task[q])
    BY <1>1, Fits
  <1>3. sshMu' = None /\ overlap' = overlap /\ pair' = pair
    BY <1>1 DEF Rename, TypeOK
  <1>4. /\ t.seen # {} /\ t.lines = [file["ssh"] EXCEPT ![t.host] = t.seen]
        /\ t.approved \/ file["ssh"][t.host] = {}
    BY <1>1, Fits DEF FitsSSH
  <1>5. \/ task'[p] = Idle
        \/ task'[p].next = "use" /\ task'[p].store = "ssh"
    BY RenamedTask
  <1>6. ~Locked(task'[p]) /\ FitsSSH(task[p])' /\ task'[p].store # "sunshine"
    BY <1>5, TrustAssumption DEF Locked, FitsSSH, Idle
  <1>7. \A q \in Task \ {p} :
            /\ task'[q].next = task[q].next /\ task'[q].store = task[q].store
            /\ task'[q].host = task[q].host /\ task'[q].seen = task[q].seen
            /\ task'[q].lines = task[q].lines /\ task'[q].approved = task[q].approved
            /\ task[q].store = "sunshine" => task'[q].stale = task[q].stale
    <2>. TAKE q \in Task \ {p}
    <2>1. /\ task'[q].next = task[q].next /\ task'[q].store = task[q].store
          /\ task'[q].host = task[q].host /\ task'[q].seen = task[q].seen
          /\ task'[q].lines = task[q].lines /\ task'[q].approved = task[q].approved
      BY RenamedTask
    <2>2. task[q].store = "sunshine" => task'[q].stale = task[q].stale
      BY RenamedTask DEF Overtaken
    <2>. QED  BY <2>1, <2>2
  <1>8. LockMatches'
    BY <1>2, <1>3, <1>6, <1>7, TrustAssumption DEF LockMatches, Locked
  <1>9. /\ t.host \in Host /\ file' \in [Store -> Lines] /\ file'["ssh"] = t.lines
        /\ file'["sunshine"] = file["sunshine"] /\ earned \subseteq earned'
        /\ \A e \in earned' \ earned : e[1] = "ssh" /\ e[2] = t.host
    BY RenamedFile DEF Store
  <1>10. \A k \in t.seen : <<"ssh", t.host, k>> \in earned'
    <2>1. t.approved \/ \A e \in earned : ~(e[1] = "ssh" /\ e[2] = t.host)
      BY <1>4 DEF Rest, KnownHostsEarned
    <2>. QED  BY <2>1, RenamedFile
  <1>11. /\ file'["ssh"][t.host] = t.seen
         /\ \A h \in Host \ {t.host} : file'["ssh"][h] = file["ssh"][h]
    <2>1. file["ssh"] \in Lines
      BY DEF TypeOK, Store
    <2>. QED  BY <2>1, <1>4, <1>9 DEF Lines
  <1>12. KnownHostsEarned'
    <2>1. \A h \in Host : \A k \in file'["ssh"][h] : <<"ssh", h, k>> \in earned'
      BY <1>9, <1>10, <1>11 DEF Rest, KnownHostsEarned
    <2>2. \A e \in earned' : e[1] = "ssh" => file'["ssh"][e[2]] # {}
      <3>. SUFFICES ASSUME NEW e \in earned', e[1] = "ssh"
                    PROVE  file'["ssh"][e[2]] # {}
        OBVIOUS
      <3>1. e \in earned => e[2] \in Host /\ file["ssh"][e[2]] # {}
        BY DEF Rest, KnownHostsEarned, TypeOK
      <3>. QED  BY <3>1, <1>4, <1>9, <1>11
    <2>3. \A q \in Task : FitsSSH(task[q])'
      <3>1. ASSUME NEW q \in Task \ {p}
            PROVE  FitsSSH(task[q])'
        <4>1. FitsSSH(task[q]) /\ ~Locked(task[q])
          BY <1>2, Fits
        <4>. QED  BY <4>1, <1>7 DEF FitsSSH, Locked
      <3>. QED  BY <3>1, <1>6
    <2>. QED  BY <2>1, <2>2, <2>3 DEF KnownHostsEarned, FitsSSH
  <1>13. PinsEarned'
    <2>1. \A e \in earned' : e[1] = "sunshine" => e \in earned
      BY <1>9
    <2>. QED  BY <2>1, <1>3, <1>6, <1>7, <1>9 DEF Rest, PinsEarned
  <1>14. PairingReaped'
    BY <1>1, <1>3, <1>7 DEF Rest, PairingReaped
  <1>. QED  BY <1>8, <1>12, <1>13, <1>14 DEF Rest

\* The pins are replaced: by a fresh copy with one more host, or by an old one,
\* and then overlap says so.
LEMMA RenamePins ==
    ASSUME TypeOK, Rest, NEW p \in Task, Rename(p), task[p].store = "sunshine"
    PROVE  Rest'
  <1>. DEFINE t == task[p]
  <1>1. t.next = "rename" /\ sshMu # p /\ t.approved = FALSE
    BY Fits, TaskKinds, TaskTypes DEF Rename, Locked
  <1>2. sshMu' = sshMu /\ overlap' = (overlap \/ t.stale) /\ pair' = pair
    BY <1>1 DEF Rename
  <1>3. /\ task'[p].next = "use" /\ task'[p].store = "sunshine"
        /\ task'[p].host = t.host /\ task'[p].seen = t.seen
    BY RenamedTask
  <1>4. \A q \in Task \ {p} :
            /\ task'[q].next = task[q].next /\ task'[q].store = task[q].store
            /\ task'[q].host = task[q].host /\ task'[q].seen = task[q].seen
            /\ task'[q].lines = task[q].lines /\ task'[q].approved = task[q].approved
            /\ task[q].store = "sunshine" /\ task[q].next \in {"write", "rename"} =>
                  task'[q].stale
    <2>. TAKE q \in Task \ {p}
    <2>1. /\ task'[q].next = task[q].next /\ task'[q].store = task[q].store
          /\ task'[q].host = task[q].host /\ task'[q].seen = task[q].seen
          /\ task'[q].lines = task[q].lines /\ task'[q].approved = task[q].approved
      BY RenamedTask
    <2>2. task[q].store = "sunshine" /\ task[q].next \in {"write", "rename"} =>
            task'[q].stale
      <3>. SUFFICES ASSUME Overtaken(p, q) PROVE task'[q].stale
        BY DEF Overtaken
      <3>1. task'[q].stale = TRUE
        BY RenamedTask
      <3>. QED  BY <3>1
    <2>. QED  BY <2>1, <2>2
  <1>5. /\ t.host \in Host /\ file' \in [Store -> Lines] /\ file'["sunshine"] = t.lines
        /\ file'["ssh"] = file["ssh"] /\ earned \subseteq earned'
        /\ \A e \in earned' \ earned :
              e[1] = "sunshine" /\ e[2] = t.host /\ e[3] \in t.seen
    BY RenamedFile DEF Store
  <1>6. LockMatches'
    BY <1>1, <1>2, <1>3, <1>4 DEF Rest, LockMatches
  <1>7. KnownHostsEarned'
    <2>1. \A e \in earned' : e[1] = "ssh" => e \in earned
      BY <1>5
    <2>. QED  BY <2>1, <1>3, <1>4, <1>5 DEF Rest, KnownHostsEarned
  <1>8. ASSUME ~overlap'
        PROVE  /\ \A h \in Host : \A k \in file'["sunshine"][h] : <<"sunshine", h, k>> \in earned'
               /\ \A e \in earned' : e[1] = "sunshine" => file'["sunshine"][e[2]] # {}
               /\ \A k \in t.seen : <<"sunshine", t.host, k>> \in earned'
    <2>1. ~overlap /\ ~t.stale
      BY <1>2, <1>8
    <2>2. t.lines = [file["sunshine"] EXCEPT ![t.host] = t.seen] /\ file["sunshine"][t.host] = {}
      BY <2>1, <1>1, Fits DEF FitsPins
    <2>3. \A e \in earned : ~(e[1] = "sunshine" /\ e[2] = t.host)
      BY <2>1, <2>2 DEF Rest, PinsEarned
    <2>4. \A k \in t.seen : <<"sunshine", t.host, k>> \in earned'
      BY <2>3, RenamedFile
    <2>5. /\ file'["sunshine"][t.host] = t.seen
          /\ \A h \in Host \ {t.host} : file'["sunshine"][h] = file["sunshine"][h]
      <3>1. file["sunshine"] \in Lines
        BY DEF TypeOK, Store
      <3>. QED  BY <3>1, <2>2, <1>5 DEF Lines
    <2>6. \A h \in Host : \A k \in file'["sunshine"][h] : <<"sunshine", h, k>> \in earned'
      BY <2>1, <2>4, <2>5, <1>5 DEF Rest, PinsEarned
    <2>7. \A e \in earned' : e[1] = "sunshine" => file'["sunshine"][e[2]] # {}
      <3>. SUFFICES ASSUME NEW e \in earned', e[1] = "sunshine"
                    PROVE  file'["sunshine"][e[2]] # {}
        OBVIOUS
      <3>1. CASE e \in earned
        <4>1. e[2] \in Host \ {t.host} /\ file["sunshine"][e[2]] # {}
          BY <3>1, <2>1, <2>3 DEF Rest, PinsEarned, TypeOK
        <4>. QED  BY <4>1, <2>5
      <3>2. CASE e \notin earned
        BY <3>2, <1>5, <2>5
      <3>. QED  BY <3>1, <3>2
    <2>. QED  BY <2>4, <2>6, <2>7
  <1>9. ASSUME NEW q \in Task
        PROVE  FitsPins(task[q])'
    <2>1. CASE q = p
      BY <2>1, <1>3, <1>8 DEF FitsPins
    <2>2. CASE q # p
      <3>1. FitsPins(task[q])
        BY Fits
      <3>2. ~overlap' => ~overlap
        BY <1>2
      <3>. QED  BY <2>2, <3>1, <3>2, <1>4, <1>5 DEF FitsPins
    <2>. QED  BY <2>1, <2>2
  <1>10. PinsEarned'
    BY <1>8, <1>9 DEF PinsEarned, FitsPins
  <1>11. PairingReaped'
    BY <1>1, <1>2, <1>3, <1>4 DEF Rest, PairingReaped
  <1>. QED  BY <1>6, <1>7, <1>10, <1>11 DEF Rest

-----------------------------------------------------------------------------
(* Hosts, the agent, and the whole. *)

LEMMA RekeyStep ==
    ASSUME TypeOK, Rest, NEW s \in Store, NEW h \in Host, NEW K \in Identities(s),
           Rekey(s, h, K)
    PROVE  TypeOK' /\ Rest'
  <1>1. UNCHANGED <<stores, file, task, sshMu, pair, observed>>
    BY DEF Rekey
  <1>2. rekeys' \in 0..MaxRekeys
    BY TrustAssumption DEF Rekey, TypeOK
  <1>3. keys' \in [Store -> [Host -> SUBSET Key]]
    <2>1. K \in SUBSET Key
      BY DEF Identities
    <2>2. keys' = [keys EXCEPT ![s] = [keys[s] EXCEPT ![h] = K]]
      BY DEF Rekey
    <2>3. [keys[s] EXCEPT ![h] = K] \in [Host -> SUBSET Key]
      BY <2>1 DEF TypeOK
    <2>. QED  BY <2>2, <2>3 DEF TypeOK
  <1>4. TypeOK'
    BY <1>1, <1>2, <1>3 DEF TypeOK, observed
  <1>5. Rest'
    BY <1>1 DEF Rest, LockMatches, KnownHostsEarned, PinsEarned, PairingReaped, observed
  <1>. QED  BY <1>4, <1>5

LEMMA RestartStep ==
    ASSUME TypeOK, Rest, Restart
    PROVE  TypeOK' /\ Rest'
  <1>1. /\ task' = [p \in Task |-> Idle] /\ sshMu' = None /\ pair' = [p \in Task |-> "none"]
        /\ UNCHANGED <<hostVars, file, observed>>
    BY DEF Restart
  <1>2. /\ task' \in [Task -> Tasks] /\ pair' \in [Task -> {"none", "running", "exited"}]
        /\ LockMatches' /\ PairingReaped'
        /\ \A p \in Task : task'[p].store \notin {"ssh", "sunshine"}
    <2>1. Idle \in Tasks /\ Idle.store = None
      BY IdleFits DEF Idle
    <2>2. \A p \in Task : task'[p].store = None /\ pair'[p] = "none"
      BY <1>1, <2>1
    <2>3. task' \in [Task -> Tasks] /\ pair' \in [Task -> {"none", "running", "exited"}]
      BY <1>1, <2>1
    <2>. QED  BY <1>1, <2>2, <2>3, TrustAssumption DEF LockMatches, PairingReaped
  <1>3. TypeOK'
    BY <1>1, <1>2 DEF TypeOK, hostVars, observed
  <1>4. Rest'
    BY <1>1, <1>2 DEF Rest, KnownHostsEarned, PinsEarned, observed
  <1>. QED  BY <1>3, <1>4

LEMMA InitInv ==
    ASSUME Init
    PROVE  TypeOK /\ Rest
  <1>1. task \in [Task -> Tasks] /\ pair \in [Task -> {"none", "running", "exited"}]
        /\ LockMatches /\ PairingReaped
        /\ \A p \in Task : task[p].store \notin {"ssh", "sunshine"}
    <2>1. Idle \in Tasks /\ Idle.store = None
      BY IdleFits DEF Idle
    <2>2. \A p \in Task : task[p].store = None /\ pair[p] = "none"
      BY <2>1 DEF Init
    <2>3. task \in [Task -> Tasks] /\ pair \in [Task -> {"none", "running", "exited"}]
      BY <2>1 DEF Init
    <2>. QED  BY <2>2, <2>3, TrustAssumption DEF Init, LockMatches, PairingReaped
  <1>2. file \in [Store -> Lines] /\ \A s \in Store, h \in Host : file[s][h] = {}
    BY DEF Init, NoLines, Lines
  <1>3. keys \in [Store -> [Host -> SUBSET Key]]
    BY DEF Init
  <1>4. TypeOK
    <2>1. rekeys \in 0..MaxRekeys
      BY TrustAssumption DEF Init
    <2>2. /\ stores \in Mixes /\ sshMu \in Task \cup {None} /\ overlap \in BOOLEAN
          /\ earned \subseteq Store \X Host \X Key /\ used \subseteq Store \X Host \X Key
      BY DEF Init
    <2>. QED  BY <2>1, <2>2, <1>1, <1>2, <1>3 DEF TypeOK
  <1>5. KnownHostsEarned /\ PinsEarned
    BY <1>1, <1>2 DEF Init, KnownHostsEarned, PinsEarned, Store
  <1>. QED  BY <1>1, <1>4, <1>5 DEF Rest

LEMMA NextInv ==
    ASSUME TypeOK, Rest, Next
    PROVE  TypeOK' /\ Rest'
  <1>1. ASSUME NEW p \in Task, Rename(p)
        PROVE  TypeOK' /\ Rest'
    <2>1. task[p].store = "ssh" \/ task[p].store = "sunshine"
      BY <1>1, RenamedFile DEF Store
    <2>. QED  BY <1>1, <2>1, RenameTypes, RenameKnownHosts, RenamePins
  <1>2. ASSUME NEW p \in Task, Step(p)
        PROVE  TypeOK' /\ Rest'
    BY <1>1, <1>2, ReadStep, WriteTempStep, StoreFailsStep, LockStep, ScanStep, SSHEnds,
       AcceptStep, ListedStep, StartPairingStep, WaitedStep, DeadlineStep, TickStep,
       SubmitStep DEF Step
  <1>. QED  BY <1>2, RekeyStep, PrepareSSHStep, PrepareMoonlightStep, PairExitsStep,
            ApproveStep, SSHEnds, RestartStep DEF Next

LEMMA StutterInv ==
    ASSUME TypeOK, Rest, UNCHANGED vars
    PROVE  TypeOK' /\ Rest'
  <1>1. TypeOK'
    BY DEF vars, TypeOK
  <1>2. Rest'
    BY DEF vars, Rest, LockMatches, KnownHostsEarned, PinsEarned, PairingReaped
  <1>. QED  BY <1>1, <1>2

LEMMA InvParts ==
    TrustInv <=> TypeOK /\ Rest
  BY DEF TrustInv, Rest

\* Whatever sessions, pairings, answers, failed writes, changed hosts and
\* restarts come together: sshMu is held exactly around Prepare and Accept, the
\* known hosts are the first ones seen or approved, the pins too until two
\* pairings overlap, and no pairing process is left behind.
THEOREM TrustInvariant == Spec => []TrustInv
  <1>1. Init => TrustInv
    BY InitInv, InvParts
  <1>2. TrustInv /\ [Next]_vars => TrustInv'
    <2>. SUFFICES ASSUME TypeOK, Rest, [Next]_vars
                  PROVE  TypeOK' /\ Rest'
      BY DEF TrustInv, Rest
    <2>. QED  BY NextInv, StutterInv
  <1>. QED  BY <1>1, <1>2, PTL DEF Spec

\* Credentials go to earned keys; earned and overlap only grow.
LEMMA UsedIsEarned ==
    ASSUME TypeOK, Rest, ChangedKeyBlocked, [Next]_vars
    PROVE  ChangedKeyBlocked'
  <1>1. CASE used' = used /\ earned \subseteq earned' /\ (overlap => overlap')
    BY <1>1 DEF ChangedKeyBlocked
  <1>2. ASSUME NEW p \in Task, Rename(p)
        PROVE  ChangedKeyBlocked'
    BY <1>1, <1>2, RenamedFile DEF Rename
  <1>3. ASSUME NEW p \in Task, NEW k \in Key, ConnectSSH(p, k)
        PROVE  ChangedKeyBlocked'
    <2>1. <<"ssh", task[p].host, k>> \in earned
      <3>1. task[p].host \in Host /\ k \in file["ssh"][task[p].host]
        BY <1>3, TaskTypes DEF ConnectSSH
      <3>. QED  BY <3>1 DEF Rest, KnownHostsEarned
    <2>. QED  BY <1>3, <2>1 DEF ConnectSSH, ChangedKeyBlocked
  <1>4. ASSUME NEW p \in Task, NEW n \in {"use", "select", "approved", "cancelled"}, Submit(p, n)
        PROVE  ChangedKeyBlocked'
    <2>1. ~overlap => \A k \in task[p].seen : <<"sunshine", task[p].host, k>> \in earned
      BY <1>4, Fits DEF Submit, FitsPins
    <2>2. /\ used' = used \cup {<<"sunshine", task[p].host, k>> : k \in task[p].seen}
          /\ earned' = earned /\ overlap' = overlap
      BY <1>4 DEF Submit
    <2>. QED  BY <2>1, <2>2 DEF ChangedKeyBlocked
  <1>5. ASSUME NEW p \in Task, Step(p)
        PROVE  ChangedKeyBlocked'
    BY <1>1, <1>2, <1>3, <1>4, <1>5 DEF Step, Read, WriteTemp, StoreFails, Lock, Scan,
       ScanFails, ConnectFails, Accept, Listed, StartPairing, Waited, Deadline, Tick,
       observed
  <1>6. CASE \E u \in Store, h \in Host : \E K \in Identities(u) : Rekey(u, h, K)
    BY <1>1, <1>6 DEF Rekey, observed
  <1>7. CASE \E p \in Task, h \in Host : PrepareSSH(p, h) \/ PrepareMoonlight(p, h)
    BY <1>1, <1>7 DEF PrepareSSH, PrepareMoonlight, observed
  <1>8. CASE \E p \in Task : PairExits(p) \/ Approve(p) \/ Decline(p)
    BY <1>1, <1>8 DEF PairExits, Approve, Decline, observed
  <1>9. CASE Restart \/ UNCHANGED vars
    BY <1>1, <1>9 DEF Restart, observed, vars
  <1>. QED  BY <1>5, <1>6, <1>7, <1>8, <1>9 DEF Next

\* A changed identity gets no password unless the user approved it, except by
\* pairings that overlap.
THEOREM ChangedKeysBlocked == Spec => []ChangedKeyBlocked
  <1>1. Init => ChangedKeyBlocked
    BY DEF Init, ChangedKeyBlocked
  <1>2. TrustInv /\ ChangedKeyBlocked /\ [Next]_vars => ChangedKeyBlocked'
    BY UsedIsEarned, InvParts
  <1>. QED  BY <1>1, <1>2, TrustInvariant, PTL DEF Spec

\* What the file of store s may become for host h.
LEMMA StepKeepsPins ==
    ASSUME TypeOK, Rest, [Next]_vars, NEW s \in Store, NEW h \in Host, file[s][h] # {},
           file'[s][h] # file[s][h]
    PROVE  \E p \in Task :
               /\ task[p].next = "rename" /\ task[p].store = s
               /\ IF s = "ssh" THEN task[p].approved /\ task[p].host = h
                               ELSE task[p].stale
  <1>1. PICK p \in Task : Rename(p)
    BY DEF Next, vars, Step, Read, WriteTemp, StoreFails, Lock, Scan, ScanFails, ConnectSSH,
       ConnectFails, Accept, Listed, StartPairing, Waited, Deadline, Tick, Submit, Rekey,
       PrepareSSH, PrepareMoonlight, PairExits, Approve, Decline, Restart
  <1>2. /\ task[p].store = s /\ file'[s] = task[p].lines /\ task[p].next = "rename"
        /\ task[p].host \in Host
    BY <1>1, RenamedFile DEF Rename
  <1>3. file[s] \in [Host -> SUBSET Key]
    BY DEF TypeOK, Lines
  <1>4. CASE s = "ssh"
    <2>1. /\ task[p].lines = [file[s] EXCEPT ![task[p].host] = task[p].seen]
          /\ task[p].approved \/ file[s][task[p].host] = {}
      BY <1>2, <1>4, Fits DEF FitsSSH
    <2>2. task[p].host = h
      BY <2>1, <1>2, <1>3
    <2>. QED  BY <2>1, <2>2, <1>2, <1>4
  <1>5. CASE s = "sunshine"
    <2>1. ~task[p].stale => /\ task[p].lines = [file[s] EXCEPT ![task[p].host] = task[p].seen]
                            /\ file[s][task[p].host] = {}
      BY <1>2, <1>5, Fits DEF FitsPins
    <2>2. task[p].stale
      BY <2>1, <1>2, <1>3
    <2>. QED  BY <2>2, <1>2, <1>5
  <1>. QED  BY <1>4, <1>5 DEF Store

\* A trusted key stays until the user approves another one for its host, except
\* for a pairing that writes an old copy of the pins.
THEOREM TrustSurvives == Spec => PinsSurvive
  <1>1. TrustInv /\ [Next]_vars =>
            [\A s \in Store, h \in Host :
                file[s][h] # {} /\ file'[s][h] # file[s][h] =>
                    \E p \in Task :
                        /\ task[p].next = "rename" /\ task[p].store = s
                        /\ IF s = "ssh" THEN task[p].approved /\ task[p].host = h
                                        ELSE task[p].stale]_vars
    BY StepKeepsPins, InvParts
  <1>. QED  BY <1>1, TrustInvariant, PTL DEF Spec, PinsSurvive
=============================================================================
