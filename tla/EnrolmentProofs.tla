--------------------------- MODULE EnrolmentProofs ---------------------------
(***************************************************************************)
(* Proofs about Enrolment: the inductive invariant EnrolmentInv, and with  *)
(* it that enrolment tokens implement SingleUse.                           *)
(***************************************************************************)
EXTENDS Enrolment, TLAPS

-----------------------------------------------------------------------------
(* Types. *)

Commands == {Idle} \cup [next: {"wait", "save", "write"}, token: Token,
                         identifier: Identifier]
Devices == {NoDevice} \cup [credential: Token, enabled: BOOLEAN, seen: 0..Horizon]

\* A command that is not idle has its token and its identifier.
LEMMA CommandTypes ==
    ASSUME TypeOK, NEW k \in Kiosk
    PROVE  /\ command[k] \in Commands
           /\ command[k].next \in {"idle", "wait", "save", "write"}
           /\ command[k].next # "idle" =>
                 /\ command[k].token \in Token /\ command[k].identifier \in Identifier
                 /\ \A n \in {"wait", "save", "write"} :
                       [command[k] EXCEPT !.next = n] \in Commands
  <1>. DEFINE C == command[k]
  <1>1. C \in Commands
    BY DEF TypeOK, Commands
  <1>. HIDE DEF C
  <1>2. C = Idle \/ C \in [next: {"wait", "save", "write"}, token: Token,
                            identifier: Identifier]
    BY <1>1 DEF Commands
  <1>3. C = Idle => C.next = "idle"
    BY DEF Idle
  <1>4. ASSUME C.next # "idle"
        PROVE  /\ C.token \in Token /\ C.identifier \in Identifier
               /\ \A n \in {"wait", "save", "write"} : [C EXCEPT !.next = n] \in Commands
    BY <1>2, <1>3, <1>4 DEF Commands
  <1>5. C.next \in {"idle", "wait", "save", "write"}
    BY <1>2, <1>3
  <1>. QED  BY <1>1, <1>4, <1>5 DEF C

\* A device that exists has a credential.
LEMMA DeviceTypes ==
    ASSUME TypeOK, NEW i \in Identifier
    PROVE  /\ devices[i] \in Devices
           /\ devices[i].seen \in 0..Horizon
           /\ devices[i].credential \in Token \cup {None}
           /\ devices[i].enabled \in BOOLEAN
           /\ devices[i].enabled => devices[i] # NoDevice
           /\ devices[i] # NoDevice <=> devices[i].credential \in Token
           /\ devices[i] # NoDevice =>
                 /\ \A b \in BOOLEAN : [devices[i] EXCEPT !.enabled = b] \in Devices
                 /\ \A n \in 0..Horizon : [devices[i] EXCEPT !.seen = n] \in Devices
  <1>. DEFINE D == devices[i]
  <1>1. D \in Devices /\ Horizon \in Nat
    BY EnrolmentAssumption DEF TypeOK, Devices
  <1>. HIDE DEF D
  <1>2. CASE D = NoDevice
    <2>1. D.seen = 0 /\ D.credential = None /\ D.enabled = FALSE
      BY <1>2 DEF NoDevice
    <2>2. D.seen \in 0..Horizon /\ D.credential \notin Token
      BY <1>1, <2>1, EnrolmentAssumption
    <2>3. D.enabled \in BOOLEAN
      BY <2>1, Zenon
    <2>. QED  BY <1>1, <1>2, <2>1, <2>2, <2>3 DEF D
  <1>3. CASE D \in [credential: Token, enabled: BOOLEAN, seen: 0..Horizon]
    <2>1. D.credential \in Token /\ D.enabled \in BOOLEAN /\ D.seen \in 0..Horizon
      BY <1>3
    <2>2. D # NoDevice
      BY <2>1, EnrolmentAssumption DEF NoDevice
    <2>3. /\ \A b \in BOOLEAN : [D EXCEPT !.enabled = b] \in Devices
          /\ \A n \in 0..Horizon : [D EXCEPT !.seen = n] \in Devices
      BY <1>3 DEF Devices
    <2>. QED  BY <1>1, <2>1, <2>2, <2>3 DEF D
  <1>. QED  BY <1>1, <1>2, <1>3 DEF Devices

LEMMA FileTypes ==
    ASSUME TypeOK, NEW k \in Kiosk
    PROVE  /\ file[k].credential \in Token \cup {None}
           /\ file[k] # NoFile => /\ file[k].credential \in Token
                                  /\ file[k].identifier \in Identifier
  BY DEF TypeOK, NoFile

LEMMA InitType == Init => TypeOK
  BY EnrolmentAssumption DEF Init, TypeOK, NoDevice, NoFile, Idle

LEMMA StepType == TypeOK /\ [Next]_vars => TypeOK'
  <1>. SUFFICES ASSUME TypeOK, [Next]_vars PROVE TypeOK'
    OBVIOUS
  <1>. USE EnrolmentAssumption DEF wire, kioskVars, observed
  <1>1. CASE Tick \/ UNCHANGED vars
    BY <1>1 DEF TypeOK, Tick, vars
  <1>2. ASSUME NEW t \in Token, CreateEnrolmentToken(t) PROVE TypeOK'
    <2>1. now + TokenTTL \in Nat
      BY DEF TypeOK
    <2>2. tokens' \in [Token -> [state: {"none", "open", "redeemed"}, expires: Nat]]
      BY <1>2, <2>1 DEF TypeOK, CreateEnrolmentToken
    <2>. QED  BY <1>2, <2>2 DEF TypeOK, CreateEnrolmentToken
  <1>3. ASSUME NEW i \in Identifier, NEW b \in BOOLEAN, UpdateDevice(i, b) PROVE TypeOK'
    <2>1. [devices[i] EXCEPT !.enabled = b] \in Devices
      BY <1>3, DeviceTypes DEF UpdateDevice
    <2>2. devices' \in [Identifier -> Devices]
      BY <1>3, <2>1 DEF TypeOK, UpdateDevice, Devices
    <2>. QED  BY <1>3, <2>2 DEF TypeOK, UpdateDevice, Devices
  <1>4. ASSUME NEW k \in Kiosk, NEW t \in Token, NEW i \in Identifier,
               \/ Enrol(k, t, i) \/ EnrolDevice(k, t, i) \/ RefuseEnrolment(k, t, i)
               \/ Receive(k, t, i) \/ LoseAnswer(k, t, i)
        PROVE  TypeOK'
    <2>1. CASE Enrol(k, t, i)
      <3>1. [next |-> "wait", token |-> t, identifier |-> i] \in Commands
        BY DEF Commands
      <3>2. command' \in [Kiosk -> Commands] /\ sent' \subseteq Kiosk \X Token \X Identifier
        BY <2>1, <3>1 DEF TypeOK, Enrol, Commands
      <3>. QED  BY <2>1, <3>2 DEF TypeOK, Enrol, Commands
    <2>2. CASE EnrolDevice(k, t, i)
      <3>1. tokens' \in [Token -> [state: {"none", "open", "redeemed"}, expires: Nat]]
        <4>. DEFINE Row == [state: {"none", "open", "redeemed"}, expires: Nat]
        <4>1. tokens \in [Token -> Row] /\ tokens' = [tokens EXCEPT ![t].state = "redeemed"]
          BY <2>2 DEF TypeOK, EnrolDevice
        <4>2. \A r \in Row : [r EXCEPT !.state = "redeemed"] \in Row
          OBVIOUS
        <4>. HIDE DEF Row
        <4>3. tokens' \in [Token -> Row]
          BY <4>1, <4>2
        <4>. QED  BY <4>3 DEF Row
      <3>2. [credential |-> t, enabled |-> TRUE, seen |-> 0] \in Devices
        BY DEF Devices
      <3>3. devices' \in [Identifier -> Devices]
        BY <2>2, <3>2 DEF TypeOK, EnrolDevice, Devices
      <3>. QED  BY <2>2, <3>1, <3>3 DEF TypeOK, EnrolDevice, Devices
    <2>3. CASE RefuseEnrolment(k, t, i)
      BY <2>3 DEF TypeOK, RefuseEnrolment
    <2>4. CASE Receive(k, t, i)
      <3>1. [command[k] EXCEPT !.next = "save"] \in Commands
        <4>1. command[k].next = "wait"
          BY <2>4 DEF Receive
        <4>. QED  BY <4>1, CommandTypes
      <3>2. Append(delivered[t], Anyone) \in Seq({Anyone})
        BY DEF TypeOK
      <3>3. delivered' \in [Token -> Seq({Anyone})]
        BY <2>4, <3>2 DEF TypeOK, Receive
      <3>. QED  BY <2>4, <3>1, <3>3 DEF TypeOK, Receive, Commands
    <2>5. CASE LoseAnswer(k, t, i)
      BY <2>5 DEF TypeOK, LoseAnswer
    <2>. QED  BY <1>4, <2>1, <2>2, <2>3, <2>4, <2>5
  <1>5. ASSUME NEW k \in Kiosk, NEW i \in Identifier, Authenticate(k, i) PROVE TypeOK'
    BY <1>5 DEF TypeOK, Authenticate
  <1>6. ASSUME NEW k \in Kiosk,
               Heartbeat(k) \/ Truncate(k) \/ Write(k) \/ Abort(k) \/ StartAgent(k)
        PROVE  TypeOK'
    <2>1. CASE Heartbeat(k)
      <3>1. beat[k] \in Identifier /\ now \in 0..Horizon
        BY <2>1 DEF TypeOK, Heartbeat
      <3>2. devices' \in [Identifier -> Devices]
        BY <2>1, <3>1, DeviceTypes DEF TypeOK, Heartbeat, Devices
      <3>. QED  BY <2>1, <3>2 DEF TypeOK, Heartbeat, Devices
    <2>2. CASE Truncate(k)
      <3>1. [command[k] EXCEPT !.next = "write"] \in Commands
        BY <2>2, CommandTypes DEF Truncate
      <3>. QED  BY <2>2, <3>1 DEF TypeOK, Truncate, Commands
    <2>3. CASE Write(k)
      BY <2>3, CommandTypes DEF TypeOK, Write
    <2>4. CASE Abort(k) \/ StartAgent(k)
      BY <2>4, FileTypes DEF TypeOK, Abort, StartAgent
    <2>. QED  BY <1>6, <2>1, <2>2, <2>3, <2>4
  <1>. QED  BY <1>1, <1>2, <1>3, <1>4, <1>5, <1>6 DEF Next

-----------------------------------------------------------------------------
(* Where a credential is. *)

\* A step that hands out no credential and stores none leaves every credential
\* where it was, or drops it.
LEMMA NothingHandedOut ==
    ASSUME TypeOK, TypeOK', OneKioskPerDevice, CredentialsPending,
           \A t \in Token : tokens[t].state = "redeemed" => tokens'[t].state = "redeemed",
           \A i \in Identifier : devices[i].credential \in Token =>
               devices'[i].credential = devices[i].credential,
           granted' \subseteq granted,
           \A k \in Kiosk : file'[k] \in {file[k], NoFile},
           delivered' = delivered,
           \A k \in Kiosk, t \in Token : Saving(k, t)' =>
               Saving(k, t) /\ command'[k].identifier = command[k].identifier
    PROVE  OneKioskPerDevice' /\ CredentialsPending'
  <1>1. \A t \in Token, i \in Identifier : Made(t, i) => Made(t, i)'
    BY DEF Made
  <1>2. \A k \in Kiosk : file'[k] # NoFile =>
            /\ file'[k] = file[k] /\ file[k] # NoFile
            /\ file[k].credential \in Token /\ file[k].identifier \in Identifier
    BY FileTypes
  <1>3. \A k \in Kiosk : file'[k].credential \in {file[k].credential, None}
    BY DEF NoFile
  <1>4. OneKioskPerDevice'
    BY <1>2, <1>3, EnrolmentAssumption DEF OneKioskPerDevice
  <1>5. \A g \in granted' :
            /\ Made(g[2], g[3])' /\ delivered'[g[2]] = <<>>
            /\ \A f \in granted' : f[2] = g[2] => f = g
    <2>. SUFFICES ASSUME NEW g \in granted'
                  PROVE  /\ Made(g[2], g[3])' /\ delivered'[g[2]] = <<>>
                         /\ \A f \in granted' : f[2] = g[2] => f = g
      OBVIOUS
    <2>1. g \in granted /\ g[2] \in Token /\ g[3] \in Identifier
      BY DEF TypeOK
    <2>. QED  BY <1>1, <2>1 DEF CredentialsPending
  <1>6. \A k \in Kiosk, t \in Token : Saving(k, t)' =>
            /\ Made(t, command[k].identifier)' /\ delivered'[t] # <<>>
            /\ \A j \in Kiosk : file'[j].credential # t /\ (Saving(j, t)' => j = k)
    <2>. SUFFICES ASSUME NEW k \in Kiosk, NEW t \in Token, Saving(k, t)'
                  PROVE  /\ Made(t, command[k].identifier)' /\ delivered'[t] # <<>>
                         /\ \A j \in Kiosk : file'[j].credential # t /\ (Saving(j, t)' => j = k)
      OBVIOUS
    <2>1. Saving(k, t) /\ command'[k].identifier = command[k].identifier
             /\ command[k].identifier \in Identifier
      BY CommandTypes DEF Saving
    <2>2. Made(t, command[k].identifier) /\ delivered[t] # <<>>
             /\ \A j \in Kiosk : file[j].credential # t /\ (Saving(j, t) => j = k)
      BY <2>1 DEF CredentialsPending
    <2>3. Made(t, command[k].identifier)'
      BY <2>1, <2>2 DEF Made
    <2>. QED  BY <1>3, <2>2, <2>3, EnrolmentAssumption
  <1>7. \A k \in Kiosk : file'[k] # NoFile =>
            Made(file[k].credential, file[k].identifier)' /\ delivered'[file'[k].credential] # <<>>
    BY <1>2 DEF CredentialsPending, Made
  <1>8. \A t \in Token : tokens'[t].state # "redeemed" => delivered'[t] = <<>>
    BY DEF CredentialsPending
  <1>. QED  BY <1>4, <1>5, <1>6, <1>7, <1>8 DEF CredentialsPending

\* EnrolDevice: the token was open, so nothing was handed out for it before, and
\* the identifier was free, so no credential is replaced.
LEMMA EnrolDeviceCredentials ==
    ASSUME TypeOK, TypeOK', OneKioskPerDevice, CredentialsPending,
           NEW k \in Kiosk, NEW t \in Token, NEW i \in Identifier, EnrolDevice(k, t, i)
    PROVE  OneKioskPerDevice' /\ CredentialsPending'
  <1>. USE DEF kioskVars, observed
  <1>1. /\ tokens[t].state = "open" /\ devices[i].credential = None
        /\ granted' = granted \cup {<<k, t, i>>}
        /\ command' = command /\ file' = file /\ delivered' = delivered
    BY DEF EnrolDevice, Redeemable, Free, NoDevice
  <1>2. /\ tokens'[t].state = "redeemed" /\ devices'[i].credential = t
        /\ \A s \in Token \ {t} : tokens'[s] = tokens[s]
        /\ \A j \in Identifier \ {i} : devices'[j] = devices[j]
    BY DEF TypeOK, EnrolDevice
  <1>3. \A s \in Token, j \in Identifier : Made(s, j) => s # t /\ j # i /\ Made(s, j)'
    BY <1>1, <1>2, EnrolmentAssumption DEF Made
  <1>4. OneKioskPerDevice'
    BY <1>1, <1>2, FileTypes, EnrolmentAssumption DEF OneKioskPerDevice
  <1>5. \A g \in granted : g[2] \in Token \ {t} /\ g[3] \in Identifier
                              /\ Made(g[2], g[3])' /\ delivered[g[2]] = <<>>
    <2>. SUFFICES ASSUME NEW g \in granted
                  PROVE  g[2] \in Token \ {t} /\ g[3] \in Identifier
                            /\ Made(g[2], g[3])' /\ delivered[g[2]] = <<>>
      OBVIOUS
    <2>1. g[2] \in Token /\ g[3] \in Identifier
      BY DEF TypeOK
    <2>. QED  BY <1>3, <2>1 DEF CredentialsPending
  <1>6. Made(t, i)' /\ delivered[t] = <<>>
    BY <1>1, <1>2 DEF Made, CredentialsPending
  <1>7. \A g \in granted' :
            /\ Made(g[2], g[3])' /\ delivered'[g[2]] = <<>>
            /\ \A f \in granted' : f[2] = g[2] => f = g
    <2>. SUFFICES ASSUME NEW g \in granted'
                  PROVE  /\ Made(g[2], g[3])' /\ delivered'[g[2]] = <<>>
                         /\ \A f \in granted' : f[2] = g[2] => f = g
      OBVIOUS
    <2>1. CASE g \in granted
      BY <1>1, <1>5, <2>1 DEF CredentialsPending
    <2>2. CASE g = <<k, t, i>>
      BY <1>1, <1>5, <1>6, <2>2
    <2>. QED  BY <1>1, <2>1, <2>2
  <1>8. \A j \in Kiosk, s \in Token : Saving(j, s)' =>
            /\ Made(s, command[j].identifier)' /\ delivered'[s] # <<>>
            /\ \A h \in Kiosk : file'[h].credential # s /\ (Saving(h, s)' => h = j)
    <2>. SUFFICES ASSUME NEW j \in Kiosk, NEW s \in Token, Saving(j, s)'
                  PROVE  /\ Made(s, command[j].identifier)' /\ delivered'[s] # <<>>
                         /\ \A h \in Kiosk : file'[h].credential # s /\ (Saving(h, s)' => h = j)
      OBVIOUS
    <2>1. Saving(j, s) /\ command[j].identifier \in Identifier
      BY <1>1, CommandTypes DEF Saving
    <2>2. Made(s, command[j].identifier) /\ delivered[s] # <<>>
             /\ \A h \in Kiosk : file[h].credential # s /\ (Saving(h, s) => h = j)
      BY <2>1 DEF CredentialsPending
    <2>3. Made(s, command[j].identifier)'
      BY <1>1, <1>2, <2>1, <2>2, EnrolmentAssumption DEF Made
    <2>. QED  BY <1>1, <2>2, <2>3 DEF Saving
  <1>9. \A j \in Kiosk : file'[j] # NoFile =>
            Made(file[j].credential, file[j].identifier)' /\ delivered'[file'[j].credential] # <<>>
    BY <1>1, <1>2, FileTypes, EnrolmentAssumption DEF CredentialsPending, Made
  <1>10. \A s \in Token : tokens'[s].state # "redeemed" => delivered'[s] = <<>>
    BY <1>1, <1>2 DEF CredentialsPending
  <1>. QED  BY <1>4, <1>7, <1>8, <1>9, <1>10 DEF CredentialsPending

\* Receive: the credential moves from the wire to the command; it was nowhere
\* else, because nothing had been received for its token.
LEMMA ReceiveCredentials ==
    ASSUME TypeOK, TypeOK', OneKioskPerDevice, CredentialsPending,
           NEW k \in Kiosk, NEW t \in Token, NEW i \in Identifier, Receive(k, t, i)
    PROVE  OneKioskPerDevice' /\ CredentialsPending'
  <1>1. /\ <<k, t, i>> \in granted /\ granted' = granted \ {<<k, t, i>>}
        /\ tokens' = tokens /\ devices' = devices /\ file' = file
    BY DEF Receive
  <1>2. Made(t, i) /\ delivered[t] = <<>> /\ \A f \in granted : f[2] = t => f = <<k, t, i>>
    BY <1>1 DEF CredentialsPending
  <1>3. /\ command'[k].next = "save" /\ command'[k].token = t /\ command'[k].identifier = i
        /\ \A j \in Kiosk \ {k} : command'[j] = command[j]
    BY DEF Receive, TypeOK
  <1>4. /\ delivered'[t] # <<>>
        /\ \A s \in Token \ {t} : delivered'[s] = delivered[s]
    BY DEF Receive, TypeOK
  <1>5. \A j \in Kiosk : ~Saving(j, t) /\ file[j].credential # t
    BY <1>2, FileTypes, EnrolmentAssumption DEF CredentialsPending, NoFile
  <1>6. OneKioskPerDevice'
    BY <1>1 DEF OneKioskPerDevice
  <1>7. \A g \in granted' :
            /\ Made(g[2], g[3])' /\ delivered'[g[2]] = <<>>
            /\ \A f \in granted' : f[2] = g[2] => f = g
    <2>. SUFFICES ASSUME NEW g \in granted'
                  PROVE  /\ Made(g[2], g[3])' /\ delivered'[g[2]] = <<>>
                         /\ \A f \in granted' : f[2] = g[2] => f = g
      OBVIOUS
    <2>1. g \in granted /\ g[2] \in Token \ {t}
      BY <1>1, <1>2 DEF TypeOK
    <2>2. Made(g[2], g[3])'
      BY <1>1, <2>1 DEF CredentialsPending, Made
    <2>. QED  BY <1>1, <1>4, <2>1, <2>2 DEF CredentialsPending
  <1>8. \A j \in Kiosk, s \in Token : Saving(j, s)' =>
            /\ Made(s, command[j].identifier)' /\ delivered'[s] # <<>>
            /\ \A h \in Kiosk : file'[h].credential # s /\ (Saving(h, s)' => h = j)
    <2>. SUFFICES ASSUME NEW j \in Kiosk, NEW s \in Token, Saving(j, s)'
                  PROVE  /\ Made(s, command[j].identifier)' /\ delivered'[s] # <<>>
                         /\ \A h \in Kiosk : file'[h].credential # s /\ (Saving(h, s)' => h = j)
      OBVIOUS
    <2>1. CASE j = k
      <3>1. s = t
        BY <1>3, <2>1 DEF Saving
      <3>2. Made(s, command[j].identifier)'
        BY <1>1, <1>2, <1>3, <2>1, <3>1 DEF Made
      <3>3. \A h \in Kiosk : Saving(h, s)' => h = j
        BY <1>3, <1>5, <2>1, <3>1 DEF Saving
      <3>. QED  BY <1>1, <1>4, <1>5, <3>1, <3>2, <3>3
    <2>2. CASE j # k
      <3>1. Saving(j, s) /\ s # t /\ command'[j] = command[j]
        BY <1>3, <1>5, <2>2 DEF Saving
      <3>2. Made(s, command[j].identifier) /\ delivered[s] # <<>>
               /\ \A h \in Kiosk : file[h].credential # s /\ (Saving(h, s) => h = j)
        BY <3>1 DEF CredentialsPending
      <3>3. Made(s, command[j].identifier)'
        BY <1>1, <3>1, <3>2 DEF Made
      <3>4. \A h \in Kiosk : Saving(h, s)' => h = j
        BY <1>3, <3>1, <3>2 DEF Saving
      <3>. QED  BY <1>1, <1>4, <3>1, <3>2, <3>3, <3>4
    <2>. QED  BY <2>1, <2>2
  <1>9. \A j \in Kiosk : file'[j] # NoFile =>
            Made(file[j].credential, file[j].identifier)' /\ delivered'[file'[j].credential] # <<>>
    BY <1>1, <1>4, <1>5, FileTypes DEF CredentialsPending, Made
  <1>10. \A s \in Token : tokens'[s].state # "redeemed" => delivered'[s] = <<>>
    BY <1>1, <1>2, <1>4 DEF CredentialsPending, Made
  <1>. QED  BY <1>6, <1>7, <1>8, <1>9, <1>10 DEF CredentialsPending

\* Write: the credential moves from the command to the file, and no other file
\* has it.
LEMMA WriteCredentials ==
    ASSUME TypeOK, TypeOK', OneKioskPerDevice, CredentialsPending,
           NEW k \in Kiosk, Write(k)
    PROVE  OneKioskPerDevice' /\ CredentialsPending'
  <1>. USE DEF wire, observed
  <1>. DEFINE t == command[k].token
              i == command[k].identifier
  <1>1. /\ tokens' = tokens /\ devices' = devices /\ granted' = granted
        /\ delivered' = delivered
    BY DEF Write
  <1>2. t \in Token /\ i \in Identifier /\ Saving(k, t)
    BY CommandTypes DEF Write, Saving
  <1>3. Made(t, i) /\ delivered[t] # <<>>
           /\ \A j \in Kiosk : file[j].credential # t /\ (Saving(j, t) => j = k)
    BY <1>2 DEF CredentialsPending
  <1>4. /\ file'[k].credential = t /\ file'[k].identifier = i
        /\ \A j \in Kiosk \ {k} : file'[j] = file[j]
        /\ command'[k].next = "idle" /\ \A j \in Kiosk \ {k} : command'[j] = command[j]
    BY DEF Write, TypeOK, Idle
  <1>. HIDE DEF t, i
  <1>5. OneKioskPerDevice'
    BY <1>1, <1>3, <1>4 DEF OneKioskPerDevice, Made
  <1>6. \A g \in granted' :
            /\ Made(g[2], g[3])' /\ delivered'[g[2]] = <<>>
            /\ \A f \in granted' : f[2] = g[2] => f = g
    BY <1>1 DEF CredentialsPending, Made
  <1>7. \A j \in Kiosk, s \in Token : Saving(j, s)' =>
            /\ Made(s, command[j].identifier)' /\ delivered'[s] # <<>>
            /\ \A h \in Kiosk : file'[h].credential # s /\ (Saving(h, s)' => h = j)
    <2>. SUFFICES ASSUME NEW j \in Kiosk, NEW s \in Token, Saving(j, s)'
                  PROVE  /\ Made(s, command[j].identifier)' /\ delivered'[s] # <<>>
                         /\ \A h \in Kiosk : file'[h].credential # s /\ (Saving(h, s)' => h = j)
      OBVIOUS
    <2>1. j # k /\ Saving(j, s) /\ command'[j] = command[j]
      BY <1>4 DEF Saving
    <2>2. Made(s, command[j].identifier) /\ delivered[s] # <<>>
             /\ \A h \in Kiosk : file[h].credential # s /\ (Saving(h, s) => h = j)
      BY <2>1 DEF CredentialsPending
    <2>3. s # t
      BY <1>3, <2>1
    <2>4. Made(s, command[j].identifier)'
      BY <1>1, <2>1, <2>2 DEF Made
    <2>5. \A h \in Kiosk : Saving(h, s)' => h = j
      BY <1>4, <2>2 DEF Saving
    <2>. QED  BY <1>1, <1>4, <2>2, <2>3, <2>4, <2>5
  <1>8. \A j \in Kiosk : file'[j] # NoFile =>
            Made(file[j].credential, file[j].identifier)' /\ delivered'[file'[j].credential] # <<>>
    BY <1>1, <1>3, <1>4 DEF CredentialsPending, Made
  <1>9. \A s \in Token : tokens'[s].state # "redeemed" => delivered'[s] = <<>>
    BY <1>1 DEF CredentialsPending
  <1>. QED  BY <1>5, <1>6, <1>7, <1>8, <1>9 DEF CredentialsPending

-----------------------------------------------------------------------------
(* The invariant. *)

\* The heartbeat of a disabled device writes nothing, and disabling a device
\* records a time no heartbeat was later than.
LEMMA StepSilent ==
    ASSUME TypeOK, DisabledIsSilent, [Next]_vars
    PROVE  DisabledIsSilent'
  <1>. USE DEF wire, kioskVars, observed
  <1>1. CASE UNCHANGED <<now, devices, disabledAt>>
    BY <1>1 DEF DisabledIsSilent
  <1>2. CASE Tick
    <2>1. /\ \A i \in Identifier : devices[i].seen \in Nat /\ devices[i].seen <= now
          /\ now \in Nat /\ now' = now + 1 /\ devices' = devices /\ disabledAt' = disabledAt
      <3>1. \A i \in Identifier : devices[i].seen \in 0..Horizon
        BY DeviceTypes
      <3>. QED  BY <1>2, <3>1, EnrolmentAssumption DEF DisabledIsSilent, TypeOK, Tick
    <2>2. \A i \in Identifier : devices[i].seen <= now + 1
      BY <2>1
    <2>. QED  BY <2>1, <2>2 DEF DisabledIsSilent
  <1>3. ASSUME NEW i \in Identifier, NEW b \in BOOLEAN, UpdateDevice(i, b)
        PROVE  DisabledIsSilent'
    <2>1. /\ now' = now /\ devices'[i].seen = devices[i].seen /\ devices'[i].enabled = b
          /\ ~b => disabledAt'[i] = now
          /\ \A j \in Identifier \ {i} : devices'[j] = devices[j] /\ disabledAt'[j] = disabledAt[j]
      BY <1>3, DeviceTypes DEF UpdateDevice, TypeOK, Devices
    <2>. QED  BY <2>1 DEF DisabledIsSilent
  <1>4. ASSUME NEW k \in Kiosk, NEW t \in Token, NEW i \in Identifier, EnrolDevice(k, t, i)
        PROVE  DisabledIsSilent'
    <2>1. /\ now' = now /\ disabledAt' = disabledAt
          /\ devices'[i].seen = 0 /\ devices'[i].enabled
          /\ \A j \in Identifier \ {i} : devices'[j] = devices[j]
      BY <1>4 DEF EnrolDevice, TypeOK
    <2>. QED  BY <2>1, EnrolmentAssumption DEF DisabledIsSilent, TypeOK
  <1>5. ASSUME NEW k \in Kiosk, Heartbeat(k) PROVE DisabledIsSilent'
    <2>. DEFINE i == beat[k]
    <2>1. CASE devices[i].enabled
      <3>1. /\ now' = now /\ disabledAt' = disabledAt /\ i \in Identifier
            /\ devices' = [devices EXCEPT ![i].seen = now]
        BY <1>5, <2>1 DEF Heartbeat, TypeOK
      <3>2. devices[i] # NoDevice
        BY <2>1, <3>1, DeviceTypes
      <3>3. /\ devices'[i].seen = now /\ devices'[i].enabled
            /\ \A j \in Identifier \ {i} : devices'[j] = devices[j]
        BY <2>1, <3>1, <3>2, DeviceTypes DEF TypeOK, Devices
      <3>. QED  BY <3>1, <3>3, EnrolmentAssumption DEF DisabledIsSilent, TypeOK
    <2>2. CASE ~devices[i].enabled
      BY <1>1, <1>5, <2>2 DEF Heartbeat
    <2>. QED  BY <2>1, <2>2
  <1>6. ASSUME NEW k \in Kiosk, NEW t \in Token, NEW i \in Identifier,
               Enrol(k, t, i) \/ RefuseEnrolment(k, t, i) \/ Receive(k, t, i) \/ LoseAnswer(k, t, i)
        PROVE  DisabledIsSilent'
    BY <1>1, <1>6 DEF Enrol, RefuseEnrolment, Receive, LoseAnswer
  <1>7. ASSUME \/ \E t \in Token : CreateEnrolmentToken(t)
               \/ \E k \in Kiosk, i \in Identifier : Authenticate(k, i)
               \/ \E k \in Kiosk : Truncate(k) \/ Write(k) \/ Abort(k) \/ StartAgent(k)
               \/ UNCHANGED vars
        PROVE  DisabledIsSilent'
    BY <1>1, <1>7 DEF CreateEnrolmentToken, Authenticate, Truncate, Write, Abort, StartAgent, vars
  <1>. QED  BY <1>2, <1>3, <1>4, <1>5, <1>6, <1>7 DEF Next

\* Every step leaves each credential in one place.
LEMMA StepCredentials ==
    ASSUME TypeOK, TypeOK', OneKioskPerDevice, CredentialsPending, [Next]_vars
    PROVE  OneKioskPerDevice' /\ CredentialsPending'
  <1>. USE DEF wire, kioskVars, observed
  <1>1. ASSUME UNCHANGED <<tokens, devices, granted, command, file, delivered>>
        PROVE  OneKioskPerDevice' /\ CredentialsPending'
    BY <1>1, NothingHandedOut DEF Saving
  <1>2. ASSUME NEW t \in Token, CreateEnrolmentToken(t)
        PROVE  OneKioskPerDevice' /\ CredentialsPending'
    <2>1. \A s \in Token : tokens[s].state = "redeemed" => tokens'[s].state = "redeemed"
      BY <1>2 DEF CreateEnrolmentToken, TypeOK
    <2>. QED  BY <1>2, <2>1, NothingHandedOut DEF CreateEnrolmentToken, Saving
  <1>3. ASSUME NEW i \in Identifier, NEW b \in BOOLEAN, UpdateDevice(i, b)
        PROVE  OneKioskPerDevice' /\ CredentialsPending'
    <2>1. \A j \in Identifier : devices'[j].credential = devices[j].credential
      BY <1>3, DeviceTypes DEF UpdateDevice, TypeOK, Devices
    <2>. QED  BY <1>3, <2>1, NothingHandedOut DEF UpdateDevice, Saving
  <1>4. ASSUME NEW k \in Kiosk, NEW t \in Token, NEW i \in Identifier,
               Enrol(k, t, i) \/ RefuseEnrolment(k, t, i) \/ LoseAnswer(k, t, i)
        PROVE  OneKioskPerDevice' /\ CredentialsPending'
    <2>1. \A j \in Kiosk : command'[j] = command[j] \/ command'[j].next \in {"idle", "wait"}
      BY <1>4 DEF Enrol, RefuseEnrolment, LoseAnswer, TypeOK, Idle
    <2>2. /\ granted' \subseteq granted
          /\ UNCHANGED <<tokens, devices, file, delivered>>
      BY <1>4 DEF Enrol, RefuseEnrolment, LoseAnswer
    <2>. QED  BY <2>1, <2>2, NothingHandedOut DEF Saving
  <1>5. ASSUME NEW k \in Kiosk, Heartbeat(k)
        PROVE  OneKioskPerDevice' /\ CredentialsPending'
    <2>1. \A j \in Identifier : devices'[j].credential = devices[j].credential
      <3>1. beat[k] \in Identifier
        BY <1>5 DEF Heartbeat, TypeOK
      <3>. QED  BY <1>5, <3>1, DeviceTypes DEF Heartbeat, TypeOK, Devices
    <2>. QED  BY <1>5, <2>1, NothingHandedOut DEF Heartbeat, Saving
  <1>6. ASSUME NEW k \in Kiosk, Truncate(k) \/ Abort(k)
        PROVE  OneKioskPerDevice' /\ CredentialsPending'
    <2>1. \A j \in Kiosk, t \in Token : Saving(j, t)' =>
              Saving(j, t) /\ command'[j].identifier = command[j].identifier
      <3>1. CASE Truncate(k)
        BY <3>1, CommandTypes DEF Truncate, TypeOK, Saving, Commands
      <3>2. CASE Abort(k)
        BY <3>2 DEF Abort, TypeOK, Saving, Idle
      <3>. QED  BY <1>6, <3>1, <3>2
    <2>2. /\ \A j \in Kiosk : file'[j] \in {file[j], NoFile}
          /\ UNCHANGED <<tokens, devices, granted, delivered>>
      BY <1>6 DEF Truncate, Abort, TypeOK
    <2>. QED  BY <2>1, <2>2, NothingHandedOut
  <1>7. ASSUME NEW k \in Kiosk, NEW t \in Token, NEW i \in Identifier,
               EnrolDevice(k, t, i) \/ Receive(k, t, i)
        PROVE  OneKioskPerDevice' /\ CredentialsPending'
    BY <1>7, EnrolDeviceCredentials, ReceiveCredentials
  <1>8. ASSUME NEW k \in Kiosk, Write(k)
        PROVE  OneKioskPerDevice' /\ CredentialsPending'
    BY <1>8, WriteCredentials
  <1>9. ASSUME \/ Tick \/ UNCHANGED vars
               \/ \E k \in Kiosk, i \in Identifier : Authenticate(k, i)
               \/ \E k \in Kiosk : StartAgent(k)
        PROVE  OneKioskPerDevice' /\ CredentialsPending'
    BY <1>1, <1>9 DEF Tick, vars, Authenticate, StartAgent
  <1>. QED  BY <1>2, <1>3, <1>4, <1>5, <1>6, <1>7, <1>8, <1>9 DEF Next

LEMMA InitInv == Init => EnrolmentInv
  <1>. SUFFICES ASSUME Init PROVE EnrolmentInv
    OBVIOUS
  <1>1. TypeOK
    BY InitType
  <1>2. OneKioskPerDevice /\ CredentialsPending
    BY EnrolmentAssumption
    DEF Init, OneKioskPerDevice, CredentialsPending, Made, Saving, Idle, NoFile
  <1>3. DisabledIsSilent
    BY DEF Init, DisabledIsSilent, NoDevice
  <1>. QED  BY <1>1, <1>2, <1>3 DEF EnrolmentInv

\* However commands are killed and repeated and answers lost or late, no two
\* kiosks are one device, a kiosk's credential is its device's, and a disabled
\* device is not seen (EnrolDevice, SaveDevice, Heartbeat).
THEOREM EnrolmentInvariant == Spec => []EnrolmentInv
  <1>1. EnrolmentInv /\ [Next]_vars => EnrolmentInv'
    BY StepType, StepSilent, StepCredentials DEF EnrolmentInv
  <1>. QED  BY InitInv, <1>1, PTL DEF Spec

-----------------------------------------------------------------------------
(* Tokens keep the promise. *)

LEMMA InitPromise == Init => Promise!Init
  BY DEF Init, Promise!Init, Slots, Outbox

\* A token that is redeemed is a slot that is used up.
LEMMA SlotUsed ==
    ASSUME TypeOK, NEW t \in Token, tokens[t].state = "open",
           tokens' = [tokens EXCEPT ![t].state = "redeemed"]
    PROVE  Slots' = [Slots EXCEPT ![t].state = "used"]
  <1>. DEFINE Row == [state: {"none", "open", "redeemed"}, expires: Nat]
              S(r) == CASE r.state = "none"     -> [state |-> "unissued", device |-> None]
                        [] r.state = "open"     -> [state |-> "open", device |-> Anyone]
                        [] r.state = "redeemed" -> [state |-> "used", device |-> Anyone]
  <1>1. tokens \in [Token -> Row]
    BY DEF TypeOK
  <1>2. Slots = [u \in Token |-> S(tokens[u])] /\ Slots' = [u \in Token |-> S(tokens'[u])]
    BY DEF Slots
  <1>3. S(tokens[t]) = [state |-> "open", device |-> Anyone]
    OBVIOUS
  <1>4. S(tokens'[t]) = [state |-> "used", device |-> Anyone]
    <2>1. tokens'[t].state = "redeemed"
      <3>. HIDE DEF S
      <3>. QED  BY <1>1
    <2>. QED  BY <2>1
  <1>5. \A u \in Token : u # t => tokens'[u] = tokens[u]
    <2>. HIDE DEF S, Row
    <2>. QED  BY <1>1
  <1>. HIDE DEF S, Row
  <1>6. Slots' = [Slots EXCEPT ![t] = [state |-> "used", device |-> Anyone]]
    BY <1>2, <1>4, <1>5
  <1>7. [Slots[t] EXCEPT !.state = "used"] = [state |-> "used", device |-> Anyone]
    BY <1>2, <1>3
  <1>. QED  BY <1>6, <1>7

LEMMA StepPromise ==
    ASSUME EnrolmentInv, [Next]_vars
    PROVE  [Promise!Next]_(Promise!vars)
  <1>. USE DEF wire, kioskVars, observed
  <1>0. TypeOK /\ CredentialsPending
    BY DEF EnrolmentInv
  <1>1. ASSUME UNCHANGED <<tokens, granted, delivered>>
        PROVE  [Promise!Next]_(Promise!vars)
    BY <1>1 DEF Slots, Outbox, Promise!vars
  <1>2. ASSUME NEW t \in Token, CreateEnrolmentToken(t)
        PROVE  [Promise!Next]_(Promise!vars)
    <2>1. Slots[t].state = "unissued"
      BY <1>2 DEF CreateEnrolmentToken, Slots
    <2>2. Slots' = [Slots EXCEPT ![t] = [state |-> "open", device |-> Anyone]]
      BY <1>0, <1>2 DEF CreateEnrolmentToken, Slots, TypeOK
    <2>3. Promise!Issue(t, Anyone)
      BY <1>2, <2>1, <2>2 DEF Promise!Issue, CreateEnrolmentToken, Outbox
    <2>. QED  BY <2>3 DEF Promise!Next
  <1>3. ASSUME NEW k \in Kiosk, NEW t \in Token, NEW i \in Identifier, EnrolDevice(k, t, i)
        PROVE  [Promise!Next]_(Promise!vars)
    <2>1. Slots[t] = [state |-> "open", device |-> Anyone]
      BY <1>3 DEF EnrolDevice, Redeemable, Slots
    <2>2. Slots' = [Slots EXCEPT ![t].state = "used"]
      BY <1>0, <1>3, SlotUsed DEF EnrolDevice, Redeemable
    <2>3. Outbox' = Outbox \cup {<<t, Anyone>>}
      BY <1>3 DEF EnrolDevice, Outbox
    <2>4. Promise!Use(t, Anyone)
      BY <1>3, <2>1, <2>2, <2>3 DEF Promise!Use, EnrolDevice
    <2>. QED  BY <2>4 DEF Promise!Next
  <1>4. ASSUME NEW k \in Kiosk, NEW t \in Token, NEW i \in Identifier,
               Receive(k, t, i) \/ LoseAnswer(k, t, i)
        PROVE  [Promise!Next]_(Promise!vars)
    <2>1. <<k, t, i>> \in granted /\ granted' = granted \ {<<k, t, i>>} /\ tokens' = tokens
      BY <1>4 DEF Receive, LoseAnswer
    <2>2. \A f \in granted : f[2] = t => f = <<k, t, i>>
      BY <1>0, <2>1 DEF CredentialsPending
    <2>3. <<t, Anyone>> \in Outbox /\ Outbox' = Outbox \ {<<t, Anyone>>} /\ Slots' = Slots
      BY <2>1, <2>2 DEF Outbox, Slots
    <2>4. CASE Receive(k, t, i)
      BY <2>3, <2>4 DEF Promise!Next, Promise!Deliver, Receive
    <2>5. CASE LoseAnswer(k, t, i)
      BY <2>3, <2>5 DEF Promise!Next, Promise!Lose, LoseAnswer
    <2>. QED  BY <1>4, <2>4, <2>5
  <1>5. ASSUME NEW k \in Kiosk, NEW t \in Token, NEW i \in Identifier,
               Enrol(k, t, i) \/ RefuseEnrolment(k, t, i)
        PROVE  [Promise!Next]_(Promise!vars)
    BY <1>1, <1>5 DEF Enrol, RefuseEnrolment
  <1>6. ASSUME \/ Tick \/ UNCHANGED vars
               \/ \E i \in Identifier, b \in BOOLEAN : UpdateDevice(i, b)
               \/ \E k \in Kiosk, i \in Identifier : Authenticate(k, i)
               \/ \E k \in Kiosk :
                     Heartbeat(k) \/ Truncate(k) \/ Write(k) \/ Abort(k) \/ StartAgent(k)
        PROVE  [Promise!Next]_(Promise!vars)
    BY <1>1, <1>6 DEF Tick, vars, UpdateDevice, Authenticate, Heartbeat, Truncate, Write,
       Abort, StartAgent
  <1>. QED  BY <1>2, <1>3, <1>4, <1>5, <1>6 DEF Next

\* An enrolment token is used once and its credential received at most once, for
\* any number of kiosks, retries and late answers (CreateEnrolmentToken,
\* EnrolDevice, the enrol command).
THEOREM TokensKeepPromise == Spec => KeepsPromise
  <1>. QED
    BY InitPromise, StepPromise, EnrolmentInvariant, PTL
    DEF Spec, KeepsPromise, Promise!Spec
=============================================================================
