-------------------------- MODULE ProviderSessions --------------------------
(***************************************************************************)
(* Provider sessions of one project (internal/memory/provider_session.go)  *)
(* with the processes that use them: the hooks of Claude Code              *)
(* (internal/cli/claudecode.go), which hold a session only between two     *)
(* transactions, programs that use the store directly and may repeat a     *)
(* call, and the agents that write drafts over MCP                         *)
(* (internal/mcp/server.go).  Every transaction of the store is a step; a  *)
(* process may stop between any two.                                       *)
(*                                                                         *)
(* Data: a handle is the position of its row; a token is a value nobody    *)
(* knows; a text is named by the order it was written in; completed_at is  *)
(* the updated_at of a closed row; that a session was checkpointed is left *)
(* out, nothing reads it.                                                  *)
(* One unit of time stands for the nanosecond of the code, so that an      *)
(* `updated` pushed ahead of the clock can catch up with a lease.          *)
(***************************************************************************)
EXTENDS Naturals, Sequences, FiniteSets, FiniteSetsExt

CONSTANTS
  Claude,       \* session identifiers of Claude Code
  Direct,       \* identifiers of programs that use the store directly
  Legacy,       \* of these, a list of what was active before there were leases
  Procs,        \* processes that run at a time
  Agents,       \* agents that talk to the MCP server
  Of,           \* the Claude session of an agent
  Retries,      \* claudeSessionRetries
  Tokens,       \* bound: lease tokens, used again once nobody knows them
  TTL,          \* providerSessionLeaseTTL
  Limit,        \* sessions one start may interrupt (128 in the code)
  MaxTime,      \* bound: the clock, which is set back only from there, and every time written
  MaxSetBacks,  \* bound: how often the clock is set back
  MaxTexts      \* bound: drafts and summaries written

Externals == ((Claude \cup Direct) \X {1}) \cup (Claude \X (2 .. Retries))

ASSUME SessionsAssumption ==
  /\ Claude \cap Direct = {}
  /\ Legacy \in Seq(Direct) /\ \A h, k \in DOMAIN Legacy : h # k => Legacy[h] # Legacy[k]
  /\ IsFiniteSet(Claude) /\ IsFiniteSet(Direct) /\ IsFiniteSet(Procs)
  /\ Of \in [Agents -> Claude]
  /\ Tokens \subseteq Nat \ {0}
  /\ Retries \in Nat \ {0} /\ TTL \in Nat \ {0} /\ Limit \in Nat \ {0}
  /\ MaxTime \in Nat \ {0} /\ MaxSetBacks \in Nat /\ MaxTexts \in Nat

VARIABLES
  clock,       \* the wall clock of the machine
  setBacks,    \* how often it was set back
  sessions,    \* local_provider_sessions
  drafts,      \* local_provider_session_drafts, by handle
  summaries,   \* the observations sessions were completed with
  written,     \* texts written so far
  procs,       \* what each process is doing
  known        \* the handle and the draft time an agent was last told

time == <<clock, setBacks>>
vars == <<time, sessions, drafts, summaries, written, procs, known>>

States == {"active", "completed", "interrupted", "cancelled"}
Handles == DOMAIN sessions
Active(h) == sessions[h].state = "active"
NoProc == [step |-> "idle", id |-> <<>>, handle |-> 0, token |-> 0, draft |-> FALSE, handoff |-> 0]

\* What the row or a process that has its handle knows.  newID draws 128 random bits; a
\* token is only compared with that of one row.
KnownTokens(h) ==
  {sessions[k].token : k \in Handles \cap {h}}
    \cup {procs[c].token : c \in {d \in Procs : procs[d].handle = h}}
FreshToken(h) == CHOOSE token \in Tokens : token \notin KnownTokens(h)

Monotonic(now, previous) == IF now > previous THEN now ELSE previous + 1

NewSession(e, token) ==
  [external |-> e, state |-> "active", token |-> token,
   until |-> clock + TTL, created |-> clock, updated |-> clock, final |-> 0]
LegacySession(e) == [NewSession(e, 0) EXCEPT !.until = 0]

\* The row once its lease is extended; updated_at never goes back.
\* Mutant: the lease stays what it was.
RenewedInName(s, token) ==
  [s EXCEPT !.token = token, !.updated = Monotonic(clock, s.updated)]
Renewed(s, token) ==
  LET at == Monotonic(clock, s.updated)
  IN  [s EXCEPT !.token = token, !.updated = at, !.until = at + TTL]

Closed(s, state, at, final) ==
  [s EXCEPT !.state = state, !.token = 0, !.until = 0,
            !.updated = at, !.final = final]

Without(gone) == [h \in DOMAIN drafts \ gone |-> drafts[h]]

\* The event of a hook is looked at once its session is active.
IsHook(c) == procs[c].id[1] \in Claude

-----------------------------------------------------------------------------
(* What a start does before anything else: active sessions of other        *)
(* identities whose lease ran out are interrupted, the oldest first, at    *)
(* most Limit of them, and lose their drafts.                              *)

RunOut(e) ==
  {h \in Handles : Active(h) /\ sessions[h].external # e /\ sessions[h].until <= clock}

Chosen(e) ==
  {gone \in kSubset(Min({Limit, Cardinality(RunOut(e))}), RunOut(e)) :
     \A h \in gone, k \in RunOut(e) \ gone : sessions[h].until <= sessions[k].until}

Reconciled(gone) ==
  [h \in Handles |->
     IF h \in gone
     THEN Closed(sessions[h], "interrupted", Monotonic(clock, sessions[h].updated), 0)
     ELSE sessions[h]]

InTime(rows) == \A h \in DOMAIN rows : rows[h].updated <= MaxTime

Holds(c, h, token, present) ==
  procs' = [procs EXCEPT ![c].step = "act", ![c].handle = h, ![c].token = token, ![c].draft = present]

\* The session of this identity is active: its lease gets a new token, whoever had the old one.
\* Mutant: the token stays what it was when there is one.
KeptToken(h) == IF sessions[h].token = 0 THEN FreshToken(h) ELSE sessions[h].token
NewToken(h) == FreshToken(h)

TakeOver(c) ==
  /\ procs[c].step = "start"
  /\ \E gone \in Chosen(procs[c].id), h \in Handles :
       LET row == Renewed(sessions[h], NewToken(h))
       IN  /\ sessions[h].external = procs[c].id /\ Active(h)
           /\ Tokens \ KnownTokens(h) # {}
           /\ sessions' = [Reconciled(gone) EXCEPT ![h] = row]
           /\ InTime(sessions')
           /\ drafts' = Without(gone)
           /\ Holds(c, h, row.token, h \in DOMAIN drafts)
  /\ UNCHANGED <<time, summaries, written, known>>

\* There is none: one is inserted.
InsertSession(c) ==
  /\ procs[c].step = "start"
  /\ \A h \in Handles : sessions[h].external # procs[c].id
  /\ \E gone \in Chosen(procs[c].id) :
       LET token == FreshToken(Len(sessions) + 1)
       IN  /\ Tokens \ KnownTokens(Len(sessions) + 1) # {}
           /\ sessions' = Append(Reconciled(gone), NewSession(procs[c].id, token))
           /\ InTime(sessions')
           /\ drafts' = Without(gone)
           /\ Holds(c, Len(sessions) + 1, token, FALSE)
  /\ UNCHANGED <<time, summaries, written, known>>

\* It is closed and given back as it is: a hook tries the next successor, a program gives up.
FindClosed(c) ==
  /\ procs[c].step = "start"
  /\ \E gone \in Chosen(procs[c].id), h \in Handles :
       /\ sessions[h].external = procs[c].id /\ ~Active(h)
       /\ sessions' = Reconciled(gone)
       /\ InTime(sessions')
       /\ drafts' = Without(gone)
  /\ procs' = [procs EXCEPT ![c] =
       IF ~IsHook(c) \/ procs[c].id[2] = Retries
       THEN NoProc
       ELSE [procs[c] EXCEPT !.id = <<@[1], @[2] + 1>>]]
  /\ UNCHANGED <<time, summaries, written, known>>

-----------------------------------------------------------------------------
(* The hooks of Claude Code: each is a process that starts the session of  *)
(* its session_id and then does what its event asks for.                   *)

Run(c, id) ==
  /\ procs[c].step = "idle"
  /\ procs' = [procs EXCEPT ![c] = [NoProc EXCEPT !.step = "start", !.id = <<id, 1>>]]
  /\ UNCHANGED <<time, sessions, drafts, summaries, written, known>>

\* SessionStart: ProviderSessionContext reads twice, in no transaction: that the session is active, ...
ReadCurrent(c) ==
  /\ procs[c].step = "act" /\ IsHook(c)
  /\ Active(procs[c].handle)
  /\ procs' = [procs EXCEPT ![c].step = "context"]
  /\ UNCHANGED <<time, sessions, drafts, summaries, written, known>>

\* ... and what the newest completed session of another handle left.
Completed(h) == {k \in Handles \ {h} : sessions[k].state = "completed"}

Handoffs(h) ==
  {sessions[k].final : k \in {q \in Completed(h) :
      \A r \in Completed(h) : sessions[r].updated <= sessions[q].updated}}

\* The agents of the Claude session are told the handle and the handoff.
TellContext(c) ==
  /\ procs[c].step = "context"
  /\ \E final \in IF Completed(procs[c].handle) = {} THEN {0} ELSE Handoffs(procs[c].handle) :
       procs' = [procs EXCEPT ![c].step = "told", ![c].token = 0, ![c].handoff = final]
  /\ known' = [a \in Agents |->
       IF Of[a] = procs[c].id[1] /\ known[a].handle # procs[c].handle
       THEN [handle |-> procs[c].handle, expected |-> 0]
       ELSE known[a]]
  /\ UNCHANGED <<time, sessions, drafts, summaries, written>>

\* PreCompact only renews, whether there is a draft or not; SessionEnd leaves a session
\* without one active.
LeaveActive(c) ==
  /\ procs[c].step = "act" /\ IsHook(c)
  /\ procs' = [procs EXCEPT ![c] = NoProc]
  /\ UNCHANGED <<time, sessions, drafts, summaries, written, known>>

-----------------------------------------------------------------------------
(* Closing a session.                                                      *)

\* Everything a close writes when it is accepted; text 0 takes the draft's.
\* Mutant: a session that is closed may be closed again.
ClosesAgain(h, token) == ~Active(h) \/ sessions[h].token = token
Closes(h, token) == Active(h) /\ sessions[h].token = token

Finish(h, token, state, text) ==
  /\ Closes(h, token)
  /\ clock >= sessions[h].created
  /\ IF state = "completed"
     THEN /\ text = 0 => h \in DOMAIN drafts
          /\ summaries' = Append(summaries,
               [handle |-> h, text |-> IF text = 0 THEN drafts[h].text ELSE text])
     ELSE UNCHANGED summaries
  /\ sessions' = [sessions EXCEPT ![h] =
       Closed(sessions[h], state, clock, IF state = "completed" THEN Len(summaries) + 1 ELSE 0)]
  /\ drafts' = Without({h})

EndProviderSession(c) ==
  /\ procs[c].step = "act" /\ IsHook(c) /\ procs[c].draft
  /\ Finish(procs[c].handle, procs[c].token, "completed", 0)
  /\ procs' = [procs EXCEPT ![c] = NoProc]
  /\ UNCHANGED <<time, written, known>>

\* A program closes as it likes and stays, so that it may close again.  What it passes as
\* a summary is a text of its own; nothing makes it use the draft.
EndDirect(c, state, own) ==
  /\ procs[c].step = "act" /\ ~IsHook(c)
  /\ own => state = "completed" /\ written < MaxTexts
  /\ Finish(procs[c].handle, procs[c].token, state, IF own THEN written + 1 ELSE 0)
  /\ written' = IF own THEN written + 1 ELSE written
  /\ UNCHANGED <<time, procs, known>>

-----------------------------------------------------------------------------
(* Programs that use the store directly: to checkpoint a session is to     *)
(* renew it.                                                               *)

RenewProviderSession(c) ==
  /\ procs[c].step = "act" /\ ~IsHook(c)
  /\ Active(procs[c].handle) /\ sessions[procs[c].handle].token = procs[c].token
  /\ sessions' = [sessions EXCEPT ![procs[c].handle] = Renewed(@, procs[c].token)]
  /\ InTime(sessions')
  /\ UNCHANGED <<time, drafts, summaries, written, procs, known>>

-----------------------------------------------------------------------------
(* Drafts: an agent needs the handle only, and the time of the draft it    *)
(* replaces.                                                               *)

\* Mutant: the first draft of an agent replaces whatever there is.
ExpectsOrFirst(h, expected) ==
  expected = 0 \/ (h \in DOMAIN drafts /\ expected = drafts[h].updated)
Expects(h, expected) ==
  IF h \in DOMAIN drafts THEN expected = drafts[h].updated ELSE expected = 0

SaveProviderSessionDraft(a, expected) ==
  LET h == known[a].handle
      at == IF h \in DOMAIN drafts THEN Monotonic(clock, drafts[h].updated) ELSE clock
  IN  /\ h # 0 /\ written < MaxTexts /\ at <= MaxTime
      /\ Active(h)
      /\ Expects(h, expected)
      /\ drafts' = [k \in DOMAIN drafts \cup {h} |->
           IF k = h THEN [text |-> written + 1, updated |-> at, author |-> a] ELSE drafts[k]]
      /\ written' = written + 1
      /\ known' = [known EXCEPT ![a].expected = at]
      /\ UNCHANGED <<time, sessions, summaries, procs>>

-----------------------------------------------------------------------------
(* The machine: time passes, the clock is set back, a process stops or its *)
(* transaction fails.                                                      *)

Tick ==
  /\ clock < MaxTime /\ clock' = clock + 1
  /\ UNCHANGED <<setBacks, sessions, drafts, summaries, written, procs, known>>

SetBack ==
  /\ setBacks < MaxSetBacks /\ clock = MaxTime /\ clock > 1
  /\ clock' = clock - 1 /\ setBacks' = setBacks + 1
  /\ UNCHANGED <<sessions, drafts, summaries, written, procs, known>>

Stop(c) ==
  /\ procs[c].step # "idle"
  /\ procs' = [procs EXCEPT ![c] = NoProc]
  /\ UNCHANGED <<time, sessions, drafts, summaries, written, known>>

-----------------------------------------------------------------------------
Init ==
  /\ clock = 1 /\ setBacks = 0
  /\ sessions = [h \in DOMAIN Legacy |-> LegacySession(<<Legacy[h], 1>>)]
  /\ drafts = [h \in {} |-> 0]
  /\ summaries = <<>>
  /\ written = 0
  /\ procs = [c \in Procs |-> NoProc]
  /\ known = [a \in Agents |-> [handle |-> 0, expected |-> 0]]

Next ==
  \/ \E c \in Procs : TakeOver(c)
  \/ \E c \in Procs : InsertSession(c)
  \/ \E c \in Procs : FindClosed(c)
  \/ \E c \in Procs, id \in Claude \cup Direct : Run(c, id)
  \/ \E c \in Procs : ReadCurrent(c)
  \/ \E c \in Procs : TellContext(c)
  \/ \E c \in Procs : LeaveActive(c)
  \/ \E c \in Procs : EndProviderSession(c)
  \/ \E c \in Procs, state \in States \ {"active"}, own \in BOOLEAN : EndDirect(c, state, own)
  \/ \E c \in Procs : RenewProviderSession(c)
  \/ \E a \in Agents : \E expected \in {0, known[a].expected} : SaveProviderSessionDraft(a, expected)
  \/ Tick
  \/ SetBack
  \/ \E c \in Procs : Stop(c)

Spec == Init /\ [][Next]_vars

-----------------------------------------------------------------------------
SessionRows ==
  [external : Externals, state : States, token : Tokens \cup {0}, until : Nat,
   created : Nat, updated : Nat, final : Nat]

DraftRows == [text : 1 .. MaxTexts, updated : 1 .. MaxTime, author : Agents]
SummaryRows == [handle : Handles, text : 1 .. MaxTexts]
ProcRows ==
  [step : {"idle", "start", "act", "context", "told"}, id : Externals \cup {<<>>},
   handle : Handles \cup {0}, token : Tokens \cup {0}, draft : BOOLEAN,
   handoff : DOMAIN summaries \cup {0}]
KnownRows == [handle : Handles \cup {0}, expected : Nat]

\* Every table holds rows of its columns, and processes refer to rows there are.
TypeOK ==
  /\ clock \in 1 .. MaxTime /\ setBacks \in 0 .. MaxSetBacks /\ written \in 0 .. MaxTexts
  /\ sessions \in Seq(SessionRows)
  /\ DOMAIN drafts \subseteq Handles
  /\ \A h \in DOMAIN drafts : drafts[h] \in DraftRows
  /\ summaries \in Seq(SummaryRows)
  /\ procs \in [Procs -> ProcRows]
  /\ known \in [Agents -> KnownRows]
  /\ \A c \in Procs : procs[c].step # "idle" => procs[c].id \in Externals
  /\ \A c \in Procs : procs[c].step \in {"act", "context"} => procs[c].handle \in Handles

\* A session was completed exactly when there is one summary of it, and it refers to that
\* one: neither a repeated close nor a close by somebody whose lease was taken over
\* publishes a second (EndProviderSession).
SummaryOnce ==
  /\ \A h \in Handles : (sessions[h].state = "completed") = (sessions[h].final # 0)
  /\ \A h \in Handles : sessions[h].final # 0 =>
       sessions[h].final \in DOMAIN summaries /\ summaries[sessions[h].final].handle = h
  /\ \A i \in DOMAIN summaries : sessions[summaries[i].handle].final = i

\* The lease of a session is held by one process at most, and only active sessions have a
\* lease or a draft: hooks of one Claude session that run together rotate the token.
LeaseHeldOnce ==
  /\ \A h \in Handles : ~Active(h) => sessions[h].token = 0 /\ h \notin DOMAIN drafts
  /\ \A c, d \in Procs : c # d /\ procs[c].token # 0 /\ procs[c].handle = procs[d].handle =>
       procs[c].token # procs[d].token

\* A session has one outcome, whoever races for it, repeats a call or stops.
OutcomeIsOne == TypeOK /\ SummaryOnce /\ LeaseHeldOnce

\* A start interrupts another's session only when nobody held or extended it for as long as
\* a lease lasts (reconcileProviderSessions).  Who closes a session himself stays a process.
LiveLeaseKept ==
  [][\A h \in Handles :
       Active(h) /\ sessions'[h].state = "interrupted" /\ procs' # procs =>
         sessions[h].until = 0 \/ clock >= sessions[h].updated + TTL]_vars

\* A draft is replaced by its author only, and it ends with its session: as the summary
\* when a hook closes it.
DraftIsKept ==
  [][\A h \in DOMAIN drafts :
       \/ /\ h \in DOMAIN drafts'
          /\ drafts'[h].text = drafts[h].text \/ drafts'[h].author = drafts[h].author
       \/ h \notin DOMAIN drafts' /\ sessions'[h].state # "active"]_vars

\* Leases, tokens, drafts and clocks leave the ledger of sessions and summaries intact: a
\* session is opened and closed once, and a summary is appended once and stays as it is.
OpenOnes == {sessions[h].external : h \in {k \in Handles : Active(k)}}
ClosedOnes == {sessions[h].external : h \in {k \in Handles : ~Active(k)}}
Published ==
  [i \in DOMAIN summaries |->
     [external |-> sessions[summaries[i].handle].external, text |-> summaries[i].text]]
Ledger == INSTANCE SessionLedger WITH
  Texts <- 1 .. MaxTexts, open <- OpenOnes, closed <- ClosedOnes, ledger <- Published
ImplementsLedger == Ledger!Spec
=============================================================================
