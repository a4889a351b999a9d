---------------------------- MODULE SyncConsole ----------------------------
(***************************************************************************)
(* The operator's side of the sync service: the browser console            *)
(* (internal/syncadmin/server.go) and the device commands of vgxness-syncd *)
(* (cmd/vgxness-syncd/main.go), with the devices of the repository         *)
(* (internal/syncpg/devices.go).                                           *)
(*                                                                         *)
(* A browser keeps every page it was sent and may post any of its forms at *)
(* any time, again, or not at all.  The console holds its mutex while it   *)
(* issues, confirms and revokes, the transaction and the response          *)
(* included, so each is a step; an overview is read without the mutex.  A  *)
(* commit may take effect without being acknowledged, and a response may   *)
(* not be written.  Tokens, identifiers and confirmations are numbers in   *)
(* the order they are drawn; the forms' syntax and origin are left out.    *)
(***************************************************************************)
EXTENDS Naturals, FiniteSets

CONSTANTS
  Devices,    \* identifiers the repository may draw for new devices
  Validity,   \* confirmValidity
  MaxTime,    \* bound: the clock
  MaxTokens,  \* bound: session tokens and confirmations drawn
  MaxRenders  \* bound: overviews under way at a time

ASSUME ConsoleAssumption ==
  /\ IsFiniteSet(Devices)
  /\ Validity \in Nat \ {0} /\ MaxTime \in Nat /\ MaxTokens \in Nat
  /\ MaxRenders \in Nat \ {0}

VARIABLES
  now,          \* the clock
  devices,      \* the devices table: free, active or revoked
  session,      \* handler.session, 0 when not active
  confirmation, \* handler.confirmation
  drawn,        \* tokens drawn so far
  renders,      \* overviews under way: the token, and whether it is a new session's
  held,         \* history: the session tokens on pages written in full
  pages,        \* history: the confirmation pages written in full, and how often each was accepted
  shown,        \* history: devices whose bearer was written in full
  told,         \* history: devices the console or the command said were revoked
  unsure,       \* history: devices whose commit was not acknowledged, or that the operator
                \* was told to revoke, or whose command was killed
  command       \* what vgxness-syncd device issue is doing

memory == <<session, confirmation, renders>>
browsers == <<held, pages, shown, told, unsure>>
vars == <<now, devices, memory, drawn, browsers, command>>

None == 0
NoConfirmation == [token |-> 0, session |-> 0, device |-> 0, expires |-> 0]
NoCommand == [at |-> "none", device |-> 0]

Fresh == drawn + 1

----------------------------------------------------------------------------
(* The devices of the repository. *)

Unknown(d) == devices[d] = "free" /\ d \notin shown \cup unsure
Issued(d) == [devices EXCEPT ![d] = "active"]
\* A device that is revoked already stays so, and one that is not there is not found.
Revocable(d) == devices[d] # "free"
Revoked(d) == [devices EXCEPT ![d] = "revoked"]

----------------------------------------------------------------------------
(* Sessions and overviews. *)

SessionMatches(token) == session # None /\ token = session

\* The right secret: a session token is drawn and the overview read.
Login ==
  /\ drawn < MaxTokens /\ Cardinality(renders) < MaxRenders
  /\ drawn' = Fresh
  /\ renders' = renders \cup {[token |-> Fresh, replace |-> TRUE]}
  /\ UNCHANGED <<now, devices, session, confirmation, browsers, command>>

Overview(token) ==
  /\ SessionMatches(token)
  /\ Cardinality(renders) < MaxRenders
  /\ renders' = renders \cup {[token |-> token, replace |-> FALSE]}
  /\ UNCHANGED <<now, devices, session, confirmation, drawn, browsers, command>>

\* The overview cannot be read, is not written in full, or its session has ended meanwhile.
RenderFails(x) ==
  /\ x \in renders
  /\ renders' = renders \ {x}
  /\ UNCHANGED <<now, devices, session, confirmation, drawn, browsers, command>>

RenderOverview(x) ==
  /\ x \in renders
  /\ x.replace \/ SessionMatches(x.token)
  /\ renders' = renders \ {x}
  /\ IF x.replace
     THEN /\ session' = x.token
          /\ confirmation' = NoConfirmation
     ELSE UNCHANGED <<session, confirmation>>
  /\ held' = held \cup {x.token}
  /\ UNCHANGED <<now, devices, drawn, pages, shown, told, unsure, command>>

Logout(token) ==
  /\ SessionMatches(token)
  /\ session' = None /\ confirmation' = NoConfirmation
  /\ UNCHANGED <<now, devices, renders, drawn, browsers, command>>

----------------------------------------------------------------------------
(* Issuing: the page is written inside the transaction. *)

\* The next session, whose token is on the page just written.
MoveTo(token) ==
  /\ session' = token
  /\ confirmation' = NoConfirmation
  /\ held' = held \cup {token}

\* Mutant: a bearer that was not written is committed.
CommitsAnyway(written, commits) == commits
Commits(written, commits) == written /\ commits

IssueDevice(token, d) ==
  /\ SessionMatches(token)
  /\ Unknown(d) /\ drawn < MaxTokens
  /\ drawn' = Fresh
  /\ \E written, commits \in BOOLEAN :
       /\ devices' = IF Commits(written, commits) THEN Issued(d) ELSE devices
       /\ IF written
          THEN MoveTo(Fresh) /\ shown' = shown \cup {d}
          ELSE UNCHANGED <<session, confirmation, held, shown>>
  /\ UNCHANGED <<now, renders, pages, told, unsure, command>>

----------------------------------------------------------------------------
(* Revoking: a confirmation page of its own, then the revocation. *)

ConfirmRevoke(token, d) ==
  /\ SessionMatches(token)
  /\ drawn < MaxTokens
  /\ drawn' = Fresh
  /\ \/ /\ confirmation' = [token |-> Fresh, session |-> token, device |-> d,
                            expires |-> now + Validity]
        /\ pages' = pages \cup {[token |-> Fresh, session |-> token, device |-> d,
                                 until |-> now + Validity, accepted |-> 0]}
     \/ /\ confirmation' = NoConfirmation
        /\ UNCHANGED pages
  /\ UNCHANGED <<now, devices, session, renders, held, shown, told, unsure, command>>

\* consumeConfirmation: whatever is posted uses the confirmation up.
\* Mutant: it stays until it runs out.
ConfirmationKept == confirmation
ConfirmationAfter == NoConfirmation
Accepts(p) ==
  /\ confirmation.token = p.token /\ confirmation.device = p.device
  /\ confirmation.session = p.session
  /\ now < confirmation.expires

Accepted(p) == (pages \ {p}) \cup {[p EXCEPT !.accepted = @ + 1]}

\* A form that does not hold what is expected.
RejectConfirmation(token) ==
  /\ SessionMatches(token)
  /\ confirmation' = ConfirmationAfter
  /\ UNCHANGED <<now, devices, session, renders, drawn, browsers, command>>

CancelRevoke(p) ==
  /\ SessionMatches(p.session) /\ Accepts(p)
  /\ Cardinality(renders) < MaxRenders
  /\ confirmation' = ConfirmationAfter
  /\ pages' = Accepted(p)
  /\ renders' = renders \cup {[token |-> p.session, replace |-> FALSE]}
  /\ UNCHANGED <<now, devices, session, drawn, held, shown, told, unsure, command>>

\* The repository revokes the device, fails, or fails to say that it did; only a revocation
\* it confirmed moves the session on, or ends it when the page cannot be written.
\* Mutant: the session moves on although its page was not written.
MovesAnyway(written) == Fresh
SessionAfter(written) == IF written THEN Fresh ELSE None

RevokeDevice(p) ==
  /\ SessionMatches(p.session) /\ Accepts(p)
  /\ drawn < MaxTokens
  /\ drawn' = Fresh
  /\ pages' = Accepted(p)
  /\ \E takesEffect, confirmed, written \in BOOLEAN :
       /\ confirmed => takesEffect
       /\ takesEffect => Revocable(p.device)
       /\ devices' = IF takesEffect THEN Revoked(p.device) ELSE devices
       /\ \/ /\ confirmed
             /\ session' = SessionAfter(written)
             /\ held' = IF written THEN held \cup {Fresh} ELSE held
             /\ told' = IF written THEN told \cup {p.device} ELSE told
          \/ /\ ~confirmed
             /\ UNCHANGED <<session, held, told>>
  /\ confirmation' = ConfirmationAfter
  /\ UNCHANGED <<now, renders, shown, unsure, command>>

----------------------------------------------------------------------------
(* The device commands of vgxness-syncd. *)

IssueByCommand(d) ==
  /\ command.at = "none" /\ Unknown(d)
  /\ devices' = Issued(d)
  /\ \/ command' = [at |-> "issued", device |-> d] /\ UNCHANGED unsure
     \/ unsure' = unsure \cup {d} /\ UNCHANGED command
  /\ UNCHANGED <<now, memory, drawn, held, pages, shown, told>>

PrintBearer ==
  /\ command.at = "issued"
  /\ \/ shown' = shown \cup {command.device} /\ command' = NoCommand
     \/ command' = [command EXCEPT !.at = "lost"] /\ UNCHANGED shown
  /\ UNCHANGED <<now, devices, memory, drawn, held, pages, told, unsure>>

CaptureFailure ==
  /\ command.at = "lost"
  /\ \/ /\ devices' = Revoked(command.device)
        /\ told' = told \cup {command.device}
        /\ UNCHANGED unsure
     \/ /\ devices' \in {devices, Revoked(command.device)}
        /\ unsure' = unsure \cup {command.device}
        /\ UNCHANGED told
  /\ command' = NoCommand
  /\ UNCHANGED <<now, memory, drawn, held, pages, shown>>

KillCommand ==
  /\ command.at # "none"
  /\ unsure' = unsure \cup {command.device}
  /\ command' = NoCommand
  /\ UNCHANGED <<now, devices, memory, drawn, held, pages, shown, told>>

RevokeByCommand(d) ==
  /\ Revocable(d)
  /\ devices' = Revoked(d)
  /\ told' \in {told, told \cup {d}}
  /\ UNCHANGED <<now, memory, drawn, held, pages, shown, unsure, command>>

----------------------------------------------------------------------------

\* The process ends or is killed; a new one has a console that knows no session.
Restart ==
  /\ session # None \/ renders # {}
  /\ session' = None /\ confirmation' = NoConfirmation /\ renders' = {}
  /\ UNCHANGED <<now, devices, drawn, browsers, command>>

Tick == /\ now < MaxTime
        /\ now' = now + 1
        /\ UNCHANGED <<devices, memory, drawn, browsers, command>>

Init ==
  /\ now = 0
  /\ devices = [d \in Devices |-> "free"]
  /\ session = None /\ confirmation = NoConfirmation /\ renders = {}
  /\ drawn = 0
  /\ held = {} /\ pages = {} /\ shown = {} /\ told = {} /\ unsure = {}
  /\ command = NoCommand

Next ==
  \/ Login
  \/ \E token \in held : Overview(token)
  \/ \E x \in renders : RenderFails(x)
  \/ \E x \in renders : RenderOverview(x)
  \/ \E token \in held : Logout(token)
  \/ \E token \in held, d \in Devices : IssueDevice(token, d)
  \/ \E token \in held, d \in Devices : ConfirmRevoke(token, d)
  \/ \E token \in held : RejectConfirmation(token)
  \/ \E p \in pages : CancelRevoke(p)
  \/ \E p \in pages : RevokeDevice(p)
  \/ \E d \in Devices : IssueByCommand(d)
  \/ PrintBearer
  \/ CaptureFailure
  \/ KillCommand
  \/ \E d \in Devices : RevokeByCommand(d)
  \/ Restart
  \/ Tick

Spec == Init /\ [][Next]_vars

----------------------------------------------------------------------------
(* Properties *)

Drawn == 0 .. MaxTokens
Times == 0 .. MaxTime + Validity

\* Every variable keeps its shape.
TypeOK ==
  /\ now \in 0 .. MaxTime
  /\ devices \in [Devices -> {"free", "active", "revoked"}]
  /\ session \in Drawn
  /\ confirmation \in [token : Drawn, session : Drawn, device : Devices \cup {None}, expires : Times]
  /\ drawn \in Drawn
  /\ renders \subseteq [token : Drawn, replace : BOOLEAN] /\ Cardinality(renders) <= MaxRenders
  /\ held \subseteq Drawn
  /\ pages \subseteq [token : Drawn, session : Drawn, device : Devices, until : Times, accepted : Nat]
  /\ shown \subseteq Devices /\ told \subseteq Devices /\ unsure \subseteq Devices
  /\ command \in [at : {"none", "issued", "lost"}, device : Devices \cup {None}]

\* The console never moves to a session no browser was sent the page of, so that an operator
\* whose page was lost still has the one before or may log in; and a confirmation is open
\* only in the session that is.
SessionIsHeld ==
  /\ TypeOK
  /\ session # None => session \in held
  /\ confirmation # NoConfirmation => confirmation.session = session

\* A confirmation page cancels or revokes once at most, in time, and in its own session,
\* whatever is posted again, from an older page or beside it.
ConfirmedOnce ==
  [][\A p \in pages :
       p \notin pages' => p.accepted = 0 /\ now < p.until /\ p.session = session]_vars

\* An active device whose bearer nobody was shown is being issued by a command, or its issue
\* ended openly badly: the commit was not acknowledged (which names no device), the command
\* was killed, or it said that the device must be revoked; and a device that the console or
\* a command said was revoked is revoked.
CredentialsAreAccounted ==
  /\ \A d \in Devices :
       devices[d] = "active" => \/ d \in shown \/ d \in unsure
                                \/ command.at # "none" /\ command.device = d
  /\ \A d \in told : devices[d] = "revoked"
=============================================================================
