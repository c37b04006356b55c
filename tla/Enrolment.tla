----------------------------- MODULE Enrolment -----------------------------
(***************************************************************************)
(* How a kiosk becomes a device of the controller and shows that it lives: *)
(* the one-time token (CreateEnrolmentToken, EnrolDevice), the "enrol"     *)
(* command that stores the credential (thinpi-agent/main.go, SaveDevice),  *)
(* the agent that loads it, and its heartbeat.                             *)
(*                                                                         *)
(* A device row holds one credential, which is named after the token it    *)
(* was issued for.  A request on the wire may be served after the command  *)
(* that sent it has given up or was killed.                                *)
(***************************************************************************)
EXTENDS Naturals, Sequences, FiniteSets

CONSTANTS
    Kiosk,
    Identifier, \* device identifiers, unique in devices
    Token,
    TokenTTL,   \* life of an enrolment token in clock ticks
    Horizon,    \* last clock tick: bounds the instance
    MaxWire,    \* requests and answers on the wire: bounds the instance
    Anyone,     \* a token is not bound to a kiosk
    None

ASSUME EnrolmentAssumption ==
    /\ TokenTTL \in Nat \ {0}
    /\ {Horizon, MaxWire} \subseteq Nat
    /\ None \notin Identifier \cup Token \cup {Anyone}

VARIABLES
    now,
    tokens,    \* enrolment_tokens
    devices,   \* devices, by identifier
    sent,      \* enrolment requests on the wire: kiosk, token, identifier
    granted,   \* and the answers that carry a credential
    command,   \* the enrol command of each kiosk
    file,      \* its device.json
    serving,   \* the credential its agent was started with
    beat,      \* the identifier its heartbeat was authenticated as
    delivered, \* observed: answers received for each token
    disabledAt \* observed: when each device was last disabled

vars == <<now, tokens, devices, sent, granted, command, file, serving, beat,
          delivered, disabledAt>>
wire == <<sent, granted>>
kioskVars == <<command, file, serving, beat>>
observed == <<delivered, disabledAt>>

-----------------------------------------------------------------------------
NoDevice == [credential |-> None, enabled |-> FALSE, seen |-> 0]
NoFile == [identifier |-> None, credential |-> None]
Idle == [next |-> "idle", token |-> None, identifier |-> None]

TypeOK ==
    /\ now \in 0..Horizon
    /\ tokens \in [Token -> [state: {"none", "open", "redeemed"}, expires: Nat]]
    /\ devices \in [Identifier ->
           {NoDevice} \cup [credential: Token, enabled: BOOLEAN, seen: 0..Horizon]]
    /\ sent \subseteq Kiosk \X Token \X Identifier
    /\ granted \subseteq Kiosk \X Token \X Identifier
    /\ command \in [Kiosk -> {Idle} \cup [next: {"wait", "save", "write"},
                                          token: Token, identifier: Identifier]]
    /\ file \in [Kiosk -> {NoFile} \cup [identifier: Identifier, credential: Token]]
    /\ serving \in [Kiosk -> Token \cup {None}]
    /\ beat \in [Kiosk -> Identifier \cup {None}]
    /\ delivered \in [Token -> Seq({Anyone})]
    /\ disabledAt \in [Identifier -> 0..Horizon]

Init ==
    /\ now = 0
    /\ tokens = [t \in Token |-> [state |-> "none", expires |-> 0]]
    /\ devices = [i \in Identifier |-> NoDevice]
    /\ sent = {} /\ granted = {}
    /\ command = [k \in Kiosk |-> Idle]
    /\ file = [k \in Kiosk |-> NoFile]
    /\ serving = [k \in Kiosk |-> None]
    /\ beat = [k \in Kiosk |-> None]
    /\ delivered = [t \in Token |-> <<>>]
    /\ disabledAt = [i \in Identifier |-> 0]

Tick ==
    /\ now < Horizon
    /\ now' = now + 1
    /\ UNCHANGED <<tokens, devices, wire, kioskVars, observed>>

-----------------------------------------------------------------------------
(* The controller. *)

CreateEnrolmentToken(t) ==
    /\ tokens[t].state = "none"
    /\ tokens' = [tokens EXCEPT ![t] = [state |-> "open", expires |-> now + TokenTTL]]
    /\ UNCHANGED <<now, devices, wire, kioskVars, observed>>

\* adminUpdate: a device is disabled or enabled again; no device is deleted.
UpdateDevice(i, enabled) ==
    /\ devices[i] # NoDevice
    /\ devices' = [devices EXCEPT ![i].enabled = enabled]
    /\ disabledAt' = IF enabled THEN disabledAt ELSE [disabledAt EXCEPT ![i] = now]
    /\ UNCHANGED <<now, tokens, wire, kioskVars, delivered>>

\* Mutant: redeemed_at is not looked at.
RedeemableAgain(t) == tokens[t].state # "none" /\ now < tokens[t].expires

Redeemable(t) == tokens[t].state = "open" /\ now < tokens[t].expires

\* Mutant: a row with the identifier is taken over.
FreeAlways(i) == TRUE

\* The UNIQUE constraint: nothing ever frees an identifier.
Free(i) == devices[i] = NoDevice

\* EnrolDevice, one transaction.
EnrolDevice(k, t, i) ==
    /\ <<k, t, i>> \in sent
    /\ Redeemable(t) /\ Free(i)
    /\ tokens' = [tokens EXCEPT ![t].state = "redeemed"]
    /\ devices' = [devices EXCEPT ![i] = [credential |-> t, enabled |-> TRUE, seen |-> 0]]
    /\ sent' = sent \ {<<k, t, i>>}
    /\ granted' = granted \cup {<<k, t, i>>}
    /\ UNCHANGED <<now, kioskVars, observed>>

\* The request is refused or fails, or it is lost; the token stays as it is.
RefuseEnrolment(k, t, i) ==
    /\ <<k, t, i>> \in sent
    /\ sent' = sent \ {<<k, t, i>>}
    /\ command' = [command EXCEPT ![k] =
           IF @ = [next |-> "wait", token |-> t, identifier |-> i] THEN Idle ELSE @]
    /\ UNCHANGED <<now, tokens, devices, granted, file, serving, beat, observed>>

\* withDevice of a heartbeat: DeviceByToken finds an enabled device.
Authenticate(k, i) ==
    /\ serving[k] # None /\ beat[k] = None
    /\ devices[i].credential = serving[k] /\ devices[i].enabled
    /\ beat' = [beat EXCEPT ![k] = i]
    /\ UNCHANGED <<now, tokens, devices, wire, command, file, serving, observed>>

\* Heartbeat: UPDATE devices SET last_seen_at=? ... WHERE id=? AND enabled=1
Heartbeat(k) ==
    LET i == beat[k] IN
    /\ i # None
    /\ devices' = IF devices[i].enabled THEN [devices EXCEPT ![i].seen = now] ELSE devices
    /\ beat' = [beat EXCEPT ![k] = None]
    /\ UNCHANGED <<now, tokens, wire, command, file, serving, observed>>

-----------------------------------------------------------------------------
(* The kiosk. *)

\* "thinpi-agent enrol" posts the token it was given.
Enrol(k, t, i) ==
    /\ command[k] = Idle
    /\ tokens[t].state # "none"
    /\ command' = [command EXCEPT ![k] = [next |-> "wait", token |-> t, identifier |-> i]]
    /\ sent' = sent \cup {<<k, t, i>>}
    /\ Cardinality(sent') + Cardinality(granted) <= MaxWire
    /\ UNCHANGED <<now, tokens, devices, granted, file, serving, beat, observed>>

\* The answer arrives while the command waits for it ...
Receive(k, t, i) ==
    /\ <<k, t, i>> \in granted
    /\ command[k] = [next |-> "wait", token |-> t, identifier |-> i]
    /\ granted' = granted \ {<<k, t, i>>}
    /\ command' = [command EXCEPT ![k].next = "save"]
    /\ delivered' = [delivered EXCEPT ![t] = Append(@, Anyone)]
    /\ UNCHANGED <<now, tokens, devices, sent, file, serving, beat, disabledAt>>

\* ... or is lost, and the credential with it.
LoseAnswer(k, t, i) ==
    /\ <<k, t, i>> \in granted
    /\ granted' = granted \ {<<k, t, i>>}
    /\ UNCHANGED <<now, tokens, devices, sent, kioskVars, observed>>

\* SaveDevice: os.WriteFile empties the file ...
Truncate(k) ==
    /\ command[k].next = "save"
    /\ file' = [file EXCEPT ![k] = NoFile]
    /\ command' = [command EXCEPT ![k].next = "write"]
    /\ UNCHANGED <<now, tokens, devices, wire, serving, beat, observed>>

\* ... and then writes it.
Write(k) ==
    /\ command[k].next = "write"
    /\ file' = [file EXCEPT ![k] = [identifier |-> command[k].identifier,
                                    credential |-> command[k].token]]
    /\ command' = [command EXCEPT ![k] = Idle]
    /\ UNCHANGED <<now, tokens, devices, wire, serving, beat, observed>>

\* The command ends early: its time is over, it is killed, or the disk is full.
Abort(k) ==
    /\ command[k] # Idle
    /\ command' = [command EXCEPT ![k] = Idle]
    /\ UNCHANGED <<now, tokens, devices, wire, file, serving, beat, observed>>

\* The agent starts with what LoadDevice finds, or does not start.
StartAgent(k) ==
    /\ serving' = [serving EXCEPT ![k] = file[k].credential]
    /\ UNCHANGED <<now, tokens, devices, wire, command, file, beat, observed>>

Next ==
    \/ Tick
    \/ \E t \in Token : CreateEnrolmentToken(t)
    \/ \E i \in Identifier, enabled \in BOOLEAN : UpdateDevice(i, enabled)
    \/ \E k \in Kiosk, t \in Token, i \in Identifier :
          \/ Enrol(k, t, i) \/ EnrolDevice(k, t, i) \/ RefuseEnrolment(k, t, i)
          \/ Receive(k, t, i) \/ LoseAnswer(k, t, i)
    \/ \E k \in Kiosk, i \in Identifier : Authenticate(k, i)
    \/ \E k \in Kiosk :
          Heartbeat(k) \/ Truncate(k) \/ Write(k) \/ Abort(k) \/ StartAgent(k)

Spec == Init /\ [][Next]_vars

-----------------------------------------------------------------------------
(* Properties. *)

\* No two kiosks end up as one device: two files never hold one credential, and
\* a credential in a file is the one of its row, so that a kiosk that is enrolled
\* stays so whoever enrols under whatever identifier (EnrolDevice, SaveDevice;
\* device_identifier is UNIQUE).
OneKioskPerDevice ==
    \A k \in Kiosk : file[k] # NoFile =>
        /\ devices[file[k].identifier].credential = file[k].credential
        /\ \A j \in Kiosk \ {k} : file[j].credential # file[k].credential

\* A device that is disabled is not seen any more, although its heartbeat was
\* authenticated before (Heartbeat).
DisabledIsSilent ==
    \A i \in Identifier :
        /\ devices[i].seen <= now
        /\ devices[i] # NoDevice /\ ~devices[i].enabled => devices[i].seen <= disabledAt[i]

\* Token t has made the device i.
Made(t, i) == tokens[t].state = "redeemed" /\ devices[i].credential = t

Saving(k, t) == command[k].next \in {"save", "write"} /\ command[k].token = t

\* A credential is in one place: on the wire, in a command or in a file.
CredentialsPending ==
    /\ \A g \in granted :
          /\ Made(g[2], g[3]) /\ delivered[g[2]] = <<>>
          /\ \A f \in granted : f[2] = g[2] => f = g
    /\ \A k \in Kiosk, t \in Token : Saving(k, t) =>
          /\ Made(t, command[k].identifier) /\ delivered[t] # <<>>
          /\ \A j \in Kiosk : file[j].credential # t /\ (Saving(j, t) => j = k)
    /\ \A k \in Kiosk : file[k] # NoFile =>
          Made(file[k].credential, file[k].identifier) /\ delivered[file[k].credential] # <<>>
    /\ \A t \in Token : tokens[t].state # "redeemed" => delivered[t] = <<>>

\* The inductive invariant of enrolment: types, one kiosk per device, silence of
\* disabled devices, and each credential in one place.
EnrolmentInv ==
    /\ TypeOK
    /\ OneKioskPerDevice
    /\ DisabledIsSilent
    /\ CredentialsPending

\* Refinement mapping: the rows are the slots, bound to nobody in particular.
Slots == [t \in Token |->
             CASE tokens[t].state = "none"     -> [state |-> "unissued", device |-> None]
               [] tokens[t].state = "open"     -> [state |-> "open", device |-> Anyone]
               [] tokens[t].state = "redeemed" -> [state |-> "used", device |-> Anyone]]

Outbox == {<<g[2], Anyone>> : g \in granted}

Promise == INSTANCE SingleUse WITH
    Ticket <- Token, Device <- {Anyone}, slot <- Slots, outbox <- Outbox

\* thinpi-agent/main.go: "one-time enrolment token".  A token makes one device,
\* and its credential arrives at most once, whatever is retried, late or lost
\* (EnrolDevice).
KeepsPromise == Promise!Spec
=============================================================================
