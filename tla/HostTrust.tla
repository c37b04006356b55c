----------------------------- MODULE HostTrust -----------------------------
(***************************************************************************)
(* Trust on first use: the SSH known-hosts file (SSHTrustStore in          *)
(* ssh_trust.go, called by run and ResolveSSHHostKeyChange in launch.go)   *)
(* and the Sunshine certificate pins (sunshineCertificateStore), with the  *)
(* pairing that consults them (ensureMoonlightPaired).                     *)
(*                                                                         *)
(* Both files are read, compared and replaced by a temporary file and a    *)
(* rename.  The manager holds sshMu around the SSH store; every pairing    *)
(* makes a store, and so a mutex, of its own.  A task is one goroutine     *)
(* that prepares a session or answers a host-key question.                 *)
(***************************************************************************)
EXTENDS Naturals, FiniteSets

CONSTANTS
    Task, Host,
    Key,        \* SSH host keys and certificates
    MaxRekeys,  \* changes of a host's identity: bounds the instance
    Mixes,      \* which stores are in use together: bounds the instance
    None

ASSUME TrustAssumption ==
    /\ Mixes \subseteq SUBSET {"ssh", "sunshine"}
    /\ Host # {} /\ Key # {}
    /\ None \notin Task \cup {"ssh", "sunshine"}
    /\ MaxRekeys \in Nat

VARIABLES
    stores,  \* the stores in use
    keys,    \* what each host presents: SSH keys, and one certificate
    rekeys,  \* number of changes of it
    file,    \* the known-hosts file and the pin file: trusted keys by host
    task,    \* the tasks
    sshMu,   \* the holder of Manager.sshMu
    pair,    \* the "moonlight pair" process of each task
    earned,  \* observed: host and key, recorded when the host was first seen
             \* or approved by the user
    used,    \* observed: host and key of connections that were given credentials
    overlap  \* observed: a pairing has replaced pins it had not read

vars == <<stores, keys, rekeys, file, task, sshMu, pair, earned, used, overlap>>
hostVars == <<stores, keys, rekeys>>
observed == <<earned, used, overlap>>

-----------------------------------------------------------------------------
Store == {"ssh", "sunshine"}
Lines == [Host -> SUBSET Key]

\* seen: what the host presented; lines: the file to be written; approved: by
\* the user; stale (observed): another task has replaced the file since this
\* one read it.
StoreSteps == {"read", "write", "rename", "use"}
SSHSteps == StoreSteps \cup {"lock", "scan", "ask", "acceptLock", "accept"}
PairSteps == StoreSteps \cup {"list", "select", "approved", "cancelled"}

NoLines == [h \in Host |-> {}]

Idle == [next |-> "idle", store |-> None, host |-> None, seen |-> {},
         lines |-> NoLines, approved |-> FALSE, stale |-> FALSE]

Tasks == {Idle}
    \cup [next: SSHSteps, store: {"ssh"}, host: Host, seen: SUBSET Key, lines: Lines,
          approved: BOOLEAN, stale: BOOLEAN]
    \cup [next: PairSteps, store: {"sunshine"}, host: Host, seen: SUBSET Key, lines: Lines,
          approved: {FALSE}, stale: BOOLEAN]

TypeOK ==
    /\ stores \in Mixes
    /\ keys \in [Store -> [Host -> SUBSET Key]]
    /\ rekeys \in 0..MaxRekeys
    /\ file \in [Store -> Lines]
    /\ task \in [Task -> Tasks]
    /\ sshMu \in Task \cup {None}
    /\ pair \in [Task -> {"none", "running", "exited"}]
    /\ earned \subseteq Store \X Host \X Key
    /\ used \subseteq Store \X Host \X Key
    /\ overlap \in BOOLEAN

\* What a host may present: any of its SSH keys, one certificate.
Identities(store) == IF store = "ssh" THEN SUBSET Key \ {{}} ELSE {{k} : k \in Key}

Init ==
    /\ stores \in Mixes
    /\ \E k \in Key : keys = [s \in Store |-> [h \in Host |-> {k}]]
    /\ rekeys = 0
    /\ file = [s \in Store |-> NoLines]
    /\ task = [p \in Task |-> Idle]
    /\ sshMu = None
    /\ pair = [p \in Task |-> "none"]
    /\ earned = {}
    /\ used = {}
    /\ overlap = FALSE

Goto(p, next) == task' = [task EXCEPT ![p].next = next]

End(p) == task' = [task EXCEPT ![p] = Idle]

\* A host is reinstalled, or another answers in its place.
Rekey(s, h, K) ==
    /\ s \in stores
    /\ rekeys < MaxRekeys
    /\ rekeys' = rekeys + 1
    /\ keys' = [keys EXCEPT ![s][h] = K]
    /\ UNCHANGED <<stores, file, task, sshMu, pair, observed>>

-----------------------------------------------------------------------------
(* The stores: Prepare and verify. *)

\* Mutant: a change is recorded like a first use.
VerdictRelearns(lines, h, K) == IF lines[h] = K THEN "use" ELSE "write"

\* First use, the same set of keys, or a change.
Verdict(lines, h, K) ==
    CASE lines[h] = {} -> "write"
      [] lines[h] = K  -> "use"
      [] OTHER         -> "ask"

\* readLines and the comparison, for keys the host has presented.  A changed
\* certificate is a permanent error that cancels the pairing.
Read(p) ==
    LET t == task[p]
        lines == file[t.store]
        verdict == Verdict(lines, t.host, t.seen)
    IN  /\ t.next = "read"
        /\ task' = [task EXCEPT ![p] =
               CASE verdict = "write" ->
                        [t EXCEPT !.next = "write", !.lines = [lines EXCEPT ![t.host] = t.seen]]
                 [] verdict = "use" -> [t EXCEPT !.next = "use"]
                 [] OTHER -> [t EXCEPT !.next = IF t.store = "ssh" THEN "ask" ELSE "cancelled"]]
        /\ sshMu' = IF sshMu = p /\ verdict # "write" THEN None ELSE sshMu
        /\ UNCHANGED <<hostVars, file, pair, observed>>

\* writeLines, writeSunshineCertificates: the temporary file is complete.
WriteTemp(p) ==
    /\ task[p].next = "write"
    /\ Goto(p, "rename")
    /\ UNCHANGED <<hostVars, file, sshMu, pair, observed>>

\* The rename; Prepare and Accept return and sshMu is released.
Rename(p) ==
    LET t == task[p]
        new == {<<t.store, t.host, k>> : k \in t.seen}
    IN  /\ t.next = "rename"
        /\ file' = [file EXCEPT ![t.store] = t.lines]
        /\ earned' = IF t.approved \/ {e \in earned : e[1] = t.store /\ e[2] = t.host} = {}
                     THEN earned \cup new ELSE earned
        /\ overlap' = (overlap \/ (t.store = "sunshine" /\ t.stale))
        /\ task' = [q \in Task |->
               IF q = p THEN IF t.approved THEN Idle
                             ELSE [t EXCEPT !.next = "use", !.lines = NoLines, !.stale = FALSE]
               ELSE IF task[q].store = t.store /\ task[q].next \in {"write", "rename"}
                    THEN [task[q] EXCEPT !.stale = TRUE] ELSE task[q]]
        /\ sshMu' = IF sshMu = p THEN None ELSE sshMu
        /\ UNCHANGED <<hostVars, pair, used>>

\* A directory, file or rename error: the old file stays.  A session fails, a
\* question stays open, and for a pairing it is one failed submission.
StoreFails(p) ==
    LET t == task[p]
        again == IF t.store = "sunshine" THEN "select" ELSE "ask"
    IN  /\ t.next \in {"read", "accept", "write", "rename"}
        /\ task' = [task EXCEPT ![p] =
               IF t.store = "ssh" /\ t.next # "accept" /\ ~t.approved THEN Idle
               ELSE [t EXCEPT !.next = again, !.lines = NoLines, !.approved = FALSE,
                              !.stale = FALSE]]
        /\ sshMu' = IF sshMu = p THEN None ELSE sshMu
        /\ UNCHANGED <<hostVars, file, pair, observed>>

-----------------------------------------------------------------------------
(* SSH: run, the client, and ResolveSSHHostKeyChange. *)

PrepareSSH(p, h) ==
    /\ task[p] = Idle
    /\ "ssh" \in stores
    /\ task' = [task EXCEPT ![p] = [Idle EXCEPT !.next = "lock", !.store = "ssh", !.host = h]]
    /\ UNCHANGED <<hostVars, file, sshMu, pair, observed>>

\* Mutant: the store is used without sshMu.
LockNothing(p) ==
    /\ task[p].next \in {"lock", "acceptLock"}
    /\ Goto(p, IF task[p].next = "lock" THEN "scan" ELSE "accept")
    /\ UNCHANGED <<hostVars, file, sshMu, pair, observed>>

\* m.sshMu.Lock(), before Prepare and before Accept.
Lock(p) ==
    /\ task[p].next \in {"lock", "acceptLock"}
    /\ sshMu = None
    /\ sshMu' = p
    /\ Goto(p, IF task[p].next = "lock" THEN "scan" ELSE "accept")
    /\ UNCHANGED <<hostVars, file, pair, observed>>

\* ssh-keyscan returns some of the host's keys: one that fails after it has
\* printed a key is good enough.
Scan(p, K) ==
    LET t == task[p] IN
    /\ t.next = "scan"
    /\ K # {} /\ K \subseteq keys["ssh"][t.host]
    /\ task' = [task EXCEPT ![p].next = "read", ![p].seen = K]
    /\ UNCHANGED <<hostVars, file, sshMu, pair, observed>>

\* No key, or the session is cancelled.
ScanFails(p) ==
    /\ task[p].next = "scan"
    /\ End(p)
    /\ sshMu' = None
    /\ UNCHANGED <<hostVars, file, pair, observed>>

\* ssh, with StrictHostKeyChecking, accepts a key of the host that is in the
\* file when it connects, and is given the password.
ConnectSSH(p, k) ==
    LET t == task[p] IN
    /\ t.next = "use" /\ t.store = "ssh"
    /\ k \in keys["ssh"][t.host] \cap file["ssh"][t.host]
    /\ used' = used \cup {<<"ssh", t.host, k>>}
    /\ End(p)
    /\ UNCHANGED <<hostVars, file, sshMu, pair, earned, overlap>>

\* The client fails or is refused.
ConnectFails(p) ==
    /\ task[p].next = "use" /\ task[p].store = "ssh"
    /\ End(p)
    /\ UNCHANGED <<hostVars, file, sshMu, pair, observed>>

\* The user approves the keys that were scanned ...
Approve(p) ==
    /\ task[p].next = "ask"
    /\ Goto(p, "acceptLock")
    /\ UNCHANGED <<hostVars, file, sshMu, pair, observed>>

\* ... or does not.
Decline(p) ==
    /\ task[p].next = "ask"
    /\ End(p)
    /\ UNCHANGED <<hostVars, file, sshMu, pair, observed>>

\* Accept: the file is read again and the host's lines are replaced in it.
Accept(p) ==
    LET t == task[p] IN
    /\ t.next = "accept"
    /\ task' = [task EXCEPT ![p] =
           [t EXCEPT !.next = "write", !.approved = TRUE,
                     !.lines = [file["ssh"] EXCEPT ![t.host] = t.seen]]]
    /\ UNCHANGED <<hostVars, file, sshMu, pair, observed>>

-----------------------------------------------------------------------------
(* Moonlight: ensureMoonlightPaired. *)

PrepareMoonlight(p, h) ==
    /\ task[p] = Idle
    /\ "sunshine" \in stores
    /\ task' = [task EXCEPT ![p] = [Idle EXCEPT !.next = "list", !.store = "sunshine",
                                                !.host = h]]
    /\ UNCHANGED <<hostVars, file, sshMu, pair, observed>>

\* "moonlight list" succeeds, so the host is paired; or it fails and there are
\* no credentials, no PIN or no process.
Listed(p) ==
    /\ task[p].next = "list"
    /\ End(p)
    /\ UNCHANGED <<hostVars, file, sshMu, pair, observed>>

StartPairing(p) ==
    /\ task[p].next = "list"
    /\ pair' = [pair EXCEPT ![p] = "running"]
    /\ Goto(p, "select")
    /\ UNCHANGED <<hostVars, file, sshMu, observed>>

\* The pairing process ends: paired, failed, or told to stop.
PairExits(p) ==
    /\ pair[p] = "running"
    /\ pair' = [pair EXCEPT ![p] = "exited"]
    /\ UNCHANGED <<hostVars, file, task, sshMu, observed>>

\* case <-wait, and <-wait after a cancellation.
Waited(p) ==
    /\ task[p].next \in {"select", "approved", "cancelled"}
    /\ pair[p] = "exited"
    /\ pair' = [pair EXCEPT ![p] = "none"]
    /\ End(p)
    /\ UNCHANGED <<hostVars, file, sshMu, observed>>

\* Mutant: the process is told to stop and not waited for.
DeadlineReturns(p) ==
    /\ task[p].next \in {"select", "approved"}
    /\ End(p)
    /\ UNCHANGED <<hostVars, file, sshMu, pair, observed>>

\* case <-pairCtx.Done(): the time limit, or the session is cancelled.
Deadline(p) ==
    /\ task[p].next \in {"select", "approved"}
    /\ Goto(p, "cancelled")
    /\ UNCHANGED <<hostVars, file, sshMu, pair, observed>>

\* case <-ticker.C: submitSunshinePIN connects and the TLS handshake shows the
\* host's certificate to verify.
Tick(p) ==
    /\ task[p].next = "select"
    /\ task' = [task EXCEPT ![p].next = "read", ![p].seen = keys["sunshine"][task[p].host]]
    /\ UNCHANGED <<hostVars, file, sshMu, pair, observed>>

\* The PIN and the administrator's password are posted.  After an acceptance the
\* loop only waits, after an answer to try again or a lost connection it goes on
\* ("use": over the same connection, without another handshake), and a refusal
\* cancels it.
Submit(p, next) ==
    LET t == task[p] IN
    /\ t.next = "use" /\ t.store = "sunshine"
    /\ used' = used \cup {<<"sunshine", t.host, k>> : k \in t.seen}
    /\ task' = [task EXCEPT ![p].next = next,
                            ![p].seen = IF next = "use" THEN t.seen ELSE {}]
    /\ UNCHANGED <<hostVars, file, sshMu, pair, earned, overlap>>

-----------------------------------------------------------------------------
\* The agent stops; systemd ends its processes and starts it again.
Restart ==
    /\ task' = [p \in Task |-> Idle]
    /\ sshMu' = None
    /\ pair' = [p \in Task |-> "none"]
    /\ UNCHANGED <<hostVars, file, observed>>

\* What the agent does for a task.
Step(p) ==
    \/ Read(p) \/ WriteTemp(p) \/ Rename(p) \/ StoreFails(p)
    \/ Lock(p) \/ (\E K \in SUBSET Key : Scan(p, K)) \/ ScanFails(p)
    \/ (\E k \in Key : ConnectSSH(p, k)) \/ ConnectFails(p) \/ Accept(p)
    \/ Listed(p) \/ StartPairing(p) \/ Waited(p) \/ Deadline(p) \/ Tick(p)
    \/ \E next \in {"use", "select", "approved", "cancelled"} : Submit(p, next)

Next ==
    \/ \E s \in Store, h \in Host : \E K \in Identities(s) : Rekey(s, h, K)
    \/ \E p \in Task, h \in Host : PrepareSSH(p, h) \/ PrepareMoonlight(p, h)
    \/ \E p \in Task : Step(p) \/ PairExits(p) \/ Approve(p) \/ Decline(p)
    \/ Restart

Spec == Init /\ [][Next]_vars

-----------------------------------------------------------------------------
(* Properties. *)

\* ADR-005: "A changed key blocks launch until the dashboard shows its
\* fingerprint and the user explicitly accepts"; docs/pi-deployment.md: "A changed
\* certificate is rejected".  Every key a password was given to was recorded when
\* the host was first seen, or approved, whatever sessions, approvals, failed
\* writes and restarts come together; but two pairings at the same time may
\* overwrite each other's pins, because verify's mutex is not shared.
ChangedKeyBlocked ==
    \A e \in used : e \in earned \/ (e[1] = "sunshine" /\ overlap)

\* A trusted key is not forgotten or replaced, except by the user's approval
\* for its host, and by a pairing whose copy of the pins is older than another
\* pairing's write (writeLines, the rename, sshMu).
PinsSurvive ==
    [][\A s \in Store, h \in Host :
          file[s][h] # {} /\ file'[s][h] # file[s][h] =>
              \E p \in Task :
                  /\ task[p].next = "rename" /\ task[p].store = s
                  /\ IF s = "ssh" THEN task[p].approved /\ task[p].host = h
                                  ELSE task[p].stale]_vars

\* No pairing process is left when ensureMoonlightPaired has returned.
PairingReaped ==
    \A p \in Task : pair[p] # "none" =>
        task[p].store = "sunshine" /\ task[p].next # "list"

\* sshMu is held exactly while Prepare or Accept is under way.
LockMatches ==
    \A p \in Task : (sshMu = p) <=>
        /\ task[p].store = "ssh"
        /\ task[p].next \in {"scan", "read", "accept", "write", "rename"}

\* The known hosts are the ones seen first or approved, and what is about to be
\* written differs from the file only for its host: one that is new, or whose
\* keys were approved.
KnownHostsEarned ==
    /\ \A h \in Host : \A k \in file["ssh"][h] : <<"ssh", h, k>> \in earned
    /\ \A e \in earned : e[1] = "ssh" => file["ssh"][e[2]] # {}
    /\ \A p \in Task :
          LET t == task[p] IN
          t.store = "ssh" =>
              /\ t.next \in {"read", "ask", "acceptLock", "accept", "write", "rename"} =>
                    t.seen # {}
              /\ t.next \in {"write", "rename"} =>
                    /\ t.lines = [file["ssh"] EXCEPT ![t.host] = t.seen]
                    /\ t.approved \/ file["ssh"][t.host] = {}

\* What a pairing is about to write adds its host to the pins, unless another
\* has written them since; as long as that has not happened, pins are of hosts
\* seen first, and a certificate that is about to get the PIN is pinned.
PinsEarned ==
    /\ \A p \in Task :
          LET t == task[p] IN
          t.store = "sunshine" /\ t.next \in {"write", "rename"} /\ ~t.stale =>
              /\ t.lines = [file["sunshine"] EXCEPT ![t.host] = t.seen]
              /\ file["sunshine"][t.host] = {}
    /\ ~overlap =>
          /\ \A h \in Host : \A k \in file["sunshine"][h] : <<"sunshine", h, k>> \in earned
          /\ \A e \in earned : e[1] = "sunshine" => file["sunshine"][e[2]] # {}
          /\ \A p \in Task :
                task[p].store = "sunshine" /\ task[p].next = "use" =>
                    \A k \in task[p].seen : <<"sunshine", task[p].host, k>> \in earned

\* The inductive invariant of the trust stores: types, the lock, where the known
\* hosts and the pins come from, and the pairing processes, none of which
\* outlives its task.
TrustInv ==
    /\ TypeOK
    /\ LockMatches
    /\ KnownHostsEarned
    /\ PinsEarned
    /\ PairingReaped
=============================================================================
