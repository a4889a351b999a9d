----------------------- MODULE ProviderSessionsProofs -----------------------
(***************************************************************************)
(* Theorems of ProviderSessions, for any processes, agents and bounds.     *)
(*                                                                         *)
(* The inductive invariant is TypeOK, SummaryOnce and LeaseHeldOnce with   *)
(* two facts they rest on: an identity has one row, and a lease lasts TTL  *)
(* from the last time the row was written.                                 *)
(***************************************************************************)
EXTENDS ProviderSessions, TLAPS

IdentityOnce ==
  \A h, k \in Handles : sessions[h].external = sessions[k].external => h = k

LeaseFollowsUse ==
  \A h \in Handles : Active(h) => sessions[h].until \in {0, sessions[h].updated + TTL}

Inv ==
  /\ TypeOK
  /\ SummaryOnce
  /\ LeaseHeldOnce
  /\ IdentityOnce
  /\ LeaseFollowsUse

(***************************************************************************)
(* Rows.                                                                   *)
(***************************************************************************)

\* A row stays a row however a transaction writes it, in time when its clock is.
LEMMA RenewedType ==
  ASSUME NEW s \in SessionRows, NEW token \in Tokens, clock \in Nat
  PROVE  /\ Renewed(s, token) \in SessionRows
         /\ Renewed(s, token).external = s.external
         /\ Renewed(s, token).state = s.state
         /\ Renewed(s, token).final = s.final
         /\ Renewed(s, token).token = token
         /\ Renewed(s, token).until = Renewed(s, token).updated + TTL
  <1> DEFINE at == Monotonic(clock, s.updated)
  <1>1. s.updated \in Nat /\ TTL \in Nat
    BY SessionsAssumption DEF SessionRows
  <1>2. at \in Nat /\ at + TTL \in Nat
    BY <1>1 DEF Monotonic
  <1>3. Renewed(s, token) = [s EXCEPT !.token = token, !.updated = at, !.until = at + TTL]
    BY DEF Renewed
  <1> HIDE DEF at
  <1> QED
    BY <1>2, <1>3 DEF SessionRows

LEMMA ClosedType ==
  ASSUME NEW s \in SessionRows, NEW state \in States, NEW at \in Nat, NEW final \in Nat
  PROVE  /\ Closed(s, state, at, final) \in SessionRows
         /\ Closed(s, state, at, final).external = s.external
         /\ Closed(s, state, at, final).state = state
         /\ Closed(s, state, at, final).final = final
         /\ Closed(s, state, at, final).token = 0
  BY DEF Closed, SessionRows

LEMMA NewSessionType ==
  ASSUME NEW e \in Externals, NEW token \in Tokens \cup {0}, clock \in Nat
  PROVE  /\ NewSession(e, token) \in SessionRows
         /\ NewSession(e, token).external = e
         /\ NewSession(e, token).state = "active"
         /\ NewSession(e, token).final = 0
         /\ NewSession(e, token).token = token
         /\ NewSession(e, token).until = NewSession(e, token).updated + TTL
  BY SessionsAssumption DEF NewSession, SessionRows, States

LEMMA FreshTokenIsNew ==
  ASSUME NEW h, Tokens \ KnownTokens(h) # {}
  PROVE  FreshToken(h) \in Tokens /\ FreshToken(h) \notin KnownTokens(h)
  BY DEF FreshToken

\* What a start interrupts.
LEMMA ChosenRunOut ==
  ASSUME NEW e, NEW gone \in Chosen(e)
  PROVE  /\ gone \subseteq Handles
         /\ \A h \in gone : Active(h) /\ sessions[h].external # e /\ sessions[h].until <= clock
  BY DEF Chosen, kSubset, RunOut

\* The rows after the reconciliation of a start.
LEMMA ReconciledRows ==
  ASSUME TypeOK, NEW e, NEW gone \in Chosen(e)
  PROVE  /\ Reconciled(gone) \in Seq(SessionRows)
         /\ Len(Reconciled(gone)) = Len(sessions)
         /\ DOMAIN Reconciled(gone) = Handles
         /\ \A h \in Handles : Reconciled(gone)[h].external = sessions[h].external
         /\ \A h \in Handles \ gone : Reconciled(gone)[h] = sessions[h]
         /\ \A h \in gone : /\ Reconciled(gone)[h].state = "interrupted"
                            /\ Reconciled(gone)[h].final = 0
                            /\ Reconciled(gone)[h].token = 0
  <1> DEFINE Row(h) == Closed(sessions[h], "interrupted", Monotonic(clock, sessions[h].updated), 0)
  <1>1. /\ sessions \in [1 .. Len(sessions) -> SessionRows] /\ Len(sessions) \in Nat
        /\ Handles = 1 .. Len(sessions)
    BY DEF TypeOK, Handles
  <1>2. clock \in Nat
    BY SessionsAssumption DEF TypeOK
  <1>3. ASSUME NEW h \in Handles
        PROVE  /\ Row(h) \in SessionRows /\ Row(h).external = sessions[h].external
               /\ Row(h).state = "interrupted" /\ Row(h).final = 0 /\ Row(h).token = 0
    <2>1. sessions[h] \in SessionRows
      BY <1>1
    <2>2. Monotonic(clock, sessions[h].updated) \in Nat
      BY <1>2, <2>1 DEF SessionRows, Monotonic
    <2>3. "interrupted" \in States /\ 0 \in Nat
      BY DEF States
    <2> DEFINE at == Monotonic(clock, sessions[h].updated)
    <2>4. at \in Nat
      BY <2>2
    <2> HIDE DEF at
    <2>5. /\ Closed(sessions[h], "interrupted", at, 0) \in SessionRows
          /\ Closed(sessions[h], "interrupted", at, 0).external = sessions[h].external
          /\ Closed(sessions[h], "interrupted", at, 0).state = "interrupted"
          /\ Closed(sessions[h], "interrupted", at, 0).final = 0
          /\ Closed(sessions[h], "interrupted", at, 0).token = 0
      BY <2>1, <2>3, <2>4, ClosedType
    <2> QED
      BY <2>5 DEF at
  <1>4. Reconciled(gone) \in [1 .. Len(sessions) -> SessionRows]
    BY <1>1, <1>2, <1>3 DEF Reconciled
  <1>5. Reconciled(gone) \in Seq(SessionRows) /\ Len(Reconciled(gone)) = Len(sessions)
    BY <1>1, <1>4
  <1>6. gone \subseteq Handles
    BY ChosenRunOut
  <1> QED
    BY <1>1, <1>3, <1>4, <1>5, <1>6 DEF Reconciled

(***************************************************************************)
(* Starting a session.                                                     *)
(***************************************************************************)

\* What a start leaves of the drafts.
LEMMA WithoutDrafts ==
  ASSUME TypeOK, NEW gone
  PROVE  /\ DOMAIN Without(gone) = DOMAIN drafts \ gone
         /\ \A h \in DOMAIN drafts \ gone : Without(gone)[h] = drafts[h]
  BY DEF Without

LEMMA HandlesAre ==
  ASSUME TypeOK
  PROVE  /\ Len(sessions) \in Nat /\ Handles = 1 .. Len(sessions)
         /\ \A h \in Handles : sessions[h] \in SessionRows
         /\ clock \in Nat
  BY SessionsAssumption DEF TypeOK, Handles

LEMMA SummariesAre ==
  ASSUME TypeOK
  PROVE  /\ Len(summaries) \in Nat /\ DOMAIN summaries = 1 .. Len(summaries)
         /\ \A i \in DOMAIN summaries : summaries[i].handle \in Handles /\ summaries[i].text \in 1 .. MaxTexts
  <1>1. summaries \in Seq(SummaryRows)
    BY DEF TypeOK
  <1>2. \A i \in 1 .. Len(summaries) : summaries[i] \in SummaryRows
    BY <1>1
  <1> QED
    BY <1>1, <1>2 DEF SummaryRows

LEMMA TakeOverKeepsInv ==
  ASSUME Inv, NEW c \in Procs, TakeOver(c)
  PROVE  Inv'
  <1> USE DEF Inv
  <1>1. PICK gone \in Chosen(procs[c].id), h \in Handles :
          /\ sessions[h].external = procs[c].id /\ Active(h)
          /\ Tokens \ KnownTokens(h) # {}
          /\ sessions' = [Reconciled(gone) EXCEPT ![h] = Renewed(sessions[h], NewToken(h))]
          /\ drafts' = Without(gone)
          /\ Holds(c, h, Renewed(sessions[h], NewToken(h)).token, h \in DOMAIN drafts)
    BY DEF TakeOver
  <1> DEFINE token == NewToken(h)
             row == Renewed(sessions[h], token)
  <1>2. token \in Tokens /\ token \notin KnownTokens(h)
    BY <1>1, FreshTokenIsNew DEF NewToken
  <1>3. /\ sessions[h] \in SessionRows /\ clock \in Nat
        /\ Handles = 1 .. Len(sessions) /\ Len(sessions) \in Nat
    BY HandlesAre
  <1>4. /\ row \in SessionRows /\ row.external = sessions[h].external
        /\ row.state = "active" /\ row.final = sessions[h].final
        /\ row.token = token /\ row.until = row.updated + TTL
    BY <1>1, <1>2, <1>3, RenewedType DEF Active
  <1> HIDE DEF token, row
  <1>5. /\ gone \subseteq Handles /\ h \notin gone
        /\ \A k \in gone : Active(k)
    BY <1>1, ChosenRunOut
  <1>6. /\ sessions' \in Seq(SessionRows) /\ Len(sessions') = Len(sessions)
        /\ Handles' = Handles
        /\ sessions'[h] = row
        /\ \A k \in Handles \ {h} : sessions'[k] = Reconciled(gone)[k]
        /\ \A k \in Handles : sessions'[k].external = sessions[k].external
        /\ \A k \in Handles \ (gone \cup {h}) : sessions'[k] = sessions[k]
        /\ \A k \in gone : /\ sessions'[k].state = "interrupted"
                           /\ sessions'[k].final = 0 /\ sessions'[k].token = 0
    BY <1>1, <1>3, <1>4, <1>5, ReconciledRows DEF row, token, Handles
  <1>7. /\ DOMAIN drafts' = DOMAIN drafts \ gone
        /\ \A k \in DOMAIN drafts' : drafts'[k] = drafts[k]
    BY <1>1, WithoutDrafts
  <1>8. procs' = [procs EXCEPT ![c] = [procs[c] EXCEPT
                    !.step = "act", !.handle = h, !.token = token, !.draft = (h \in DOMAIN drafts)]]
    BY <1>1, <1>4 DEF Holds, row, token, TypeOK
  <1>9. procs'[c].handle = h /\ procs'[c].token = token /\ procs'[c].step = "act" /\ procs'[c].id = procs[c].id
    BY <1>8 DEF TypeOK, ProcRows
  <1>10. TypeOK'
    <2>1. summaries' = summaries /\ SummaryRows' = SummaryRows /\ ProcRows' = ProcRows
          /\ KnownRows' = KnownRows
      BY <1>6 DEF TakeOver, SummaryRows, ProcRows, KnownRows
    <2>2. procs' \in [Procs -> ProcRows]
      <3> DEFINE present == h \in DOMAIN drafts
      <3>1. present \in BOOLEAN
        OBVIOUS
      <3> HIDE DEF present
      <3>2. procs \in [Procs -> ProcRows]
        BY DEF TypeOK
      <3>3. [procs[c] EXCEPT !.step = "act", !.handle = h, !.token = token, !.draft = present] \in ProcRows
        BY <1>2, <3>1, <3>2 DEF ProcRows
      <3> QED
        BY <1>8, <3>2, <3>3 DEF present
    <2>3. /\ \A d \in Procs : procs'[d].step # "idle" => procs'[d].id \in Externals
          /\ \A d \in Procs : procs'[d].step \in {"act", "context"} => procs'[d].handle \in Handles
      BY <1>8, <1>9 DEF TypeOK, TakeOver
    <2>4. UNCHANGED <<clock, setBacks, written, known>>
      BY DEF TakeOver, time
    <2> QED
      BY <1>6, <1>7, <2>1, <2>2, <2>3, <2>4 DEF TypeOK
  <1>11. SummaryOnce'
    <2>1. \A k \in Handles : sessions'[k].final = sessions[k].final
      BY <1>1, <1>4, <1>5, <1>6 DEF SummaryOnce, Active
    <2>2. \A k \in Handles : sessions'[k].state = "completed" <=> sessions[k].state = "completed"
      BY <1>1, <1>4, <1>5, <1>6 DEF Active
    <2>3. summaries' = summaries /\ \A i \in DOMAIN summaries : summaries[i].handle \in Handles
      BY SummariesAre DEF TakeOver
    <2> QED
      BY <1>6, <2>1, <2>2, <2>3 DEF SummaryOnce
  <1>12. LeaseHeldOnce'
    <2>1. \A k \in Handles : ~Active(k)' => sessions'[k].token = 0 /\ k \notin DOMAIN drafts'
      BY <1>4, <1>5, <1>6, <1>7 DEF LeaseHeldOnce, Active
    <2>2. \A d \in Procs \ {c} : procs'[d] = procs[d] /\ (procs[d].handle = h => procs[d].token # token)
      BY <1>2, <1>8 DEF TypeOK, KnownTokens
    <2> QED
      BY <1>6, <1>9, <2>1, <2>2 DEF LeaseHeldOnce
  <1>13. IdentityOnce'
    BY <1>6 DEF IdentityOnce
  <1>14. LeaseFollowsUse'
    BY <1>4, <1>6 DEF LeaseFollowsUse, Active
  <1> QED
    BY <1>10, <1>11, <1>12, <1>13, <1>14

LEMMA InsertSessionKeepsInv ==
  ASSUME Inv, NEW c \in Procs, InsertSession(c)
  PROVE  Inv'
  <1> USE DEF Inv
  <1> DEFINE n == Len(sessions) + 1
             token == FreshToken(n)
             row == NewSession(procs[c].id, token)
  <1>1. PICK gone \in Chosen(procs[c].id) :
          /\ Tokens \ KnownTokens(n) # {}
          /\ sessions' = Append(Reconciled(gone), row)
          /\ drafts' = Without(gone)
          /\ Holds(c, n, token, FALSE)
    BY DEF InsertSession
  <1>2. token \in Tokens
    BY <1>1, FreshTokenIsNew
  <1>3. procs[c].id \in Externals /\ \A h \in Handles : sessions[h].external # procs[c].id
    BY DEF InsertSession, TypeOK
  <1>4. /\ clock \in Nat /\ n \in Nat /\ n \notin Handles
        /\ Handles = 1 .. Len(sessions) /\ Len(sessions) \in Nat
    BY HandlesAre
  <1>5. /\ row \in SessionRows /\ row.external = procs[c].id
        /\ row.state = "active" /\ row.final = 0
        /\ row.token = token /\ row.until = row.updated + TTL
    BY <1>2, <1>3, <1>4, NewSessionType
  <1> HIDE DEF token, row
  <1>6. gone \subseteq Handles /\ \A k \in gone : Active(k)
    BY <1>1, ChosenRunOut
  <1>7. /\ sessions' \in Seq(SessionRows)
        /\ Handles' = Handles \cup {n}
        /\ sessions'[n] = row
        /\ \A k \in Handles : sessions'[k].external = sessions[k].external
        /\ \A k \in Handles \ gone : sessions'[k] = sessions[k]
        /\ \A k \in gone : /\ sessions'[k].state = "interrupted"
                           /\ sessions'[k].final = 0 /\ sessions'[k].token = 0
    <2>1. /\ Reconciled(gone) \in Seq(SessionRows) /\ Len(Reconciled(gone)) = Len(sessions)
          /\ \A k \in Handles : Reconciled(gone)[k].external = sessions[k].external
          /\ \A k \in Handles \ gone : Reconciled(gone)[k] = sessions[k]
          /\ \A k \in gone : /\ Reconciled(gone)[k].state = "interrupted"
                             /\ Reconciled(gone)[k].final = 0 /\ Reconciled(gone)[k].token = 0
      BY <1>1, ReconciledRows
    <2>2. /\ sessions' \in Seq(SessionRows) /\ DOMAIN sessions' = 1 .. n
          /\ sessions'[n] = row /\ \A k \in 1 .. Len(sessions) : sessions'[k] = Reconciled(gone)[k]
      BY <1>1, <1>4, <1>5, <2>1
    <2> QED
      BY <1>4, <1>6, <2>1, <2>2 DEF Handles
  <1>8. /\ DOMAIN drafts' = DOMAIN drafts \ gone
        /\ \A k \in DOMAIN drafts' : drafts'[k] = drafts[k]
    BY <1>1, WithoutDrafts
  <1>9. procs' = [procs EXCEPT ![c] = [procs[c] EXCEPT
                    !.step = "act", !.handle = n, !.token = token, !.draft = FALSE]]
    BY <1>1 DEF Holds, TypeOK
  <1>10. procs \in [Procs -> ProcRows] /\ summaries' = summaries
    BY DEF TypeOK, InsertSession
  <1>11. procs'[c].handle = n /\ procs'[c].token = token /\ \A d \in Procs \ {c} : procs'[d] = procs[d]
    BY <1>9, <1>10 DEF ProcRows
  <1>12. TypeOK'
    <2>1. procs' \in [Procs -> ProcRows']
      <3>1. ProcRows \subseteq ProcRows'
        BY <1>7, <1>10 DEF ProcRows
      <3>2. [procs[c] EXCEPT !.step = "act", !.handle = n, !.token = token, !.draft = FALSE] \in ProcRows'
        <4>1. procs[c] \in ProcRows' /\ n \in Handles' \cup {0} /\ token \in Tokens \cup {0}
          BY <1>2, <1>7, <1>10, <3>1
        <4> HIDE DEF n
        <4> QED
          BY <4>1 DEF ProcRows
      <3> QED
        BY <1>9, <1>10, <3>1, <3>2
    <2>2. /\ \A d \in Procs : procs'[d].step # "idle" => procs'[d].id \in Externals
          /\ \A d \in Procs : procs'[d].step \in {"act", "context"} => procs'[d].handle \in Handles'
      BY <1>3, <1>7, <1>9 DEF TypeOK
    <2>3. summaries' \in Seq(SummaryRows')
      <3>1. SummaryRows \subseteq SummaryRows'
        BY <1>7 DEF SummaryRows
      <3> QED
        BY <1>10, <3>1, SummariesAre DEF TypeOK
    <2>4. known' \in [Agents -> KnownRows']
      BY <1>7 DEF TypeOK, KnownRows, InsertSession
    <2>5. UNCHANGED <<clock, setBacks, written>>
      BY DEF InsertSession, time
    <2> QED
      BY <1>7, <1>8, <2>1, <2>2, <2>3, <2>4, <2>5 DEF TypeOK
  <1>13. SummaryOnce'
    <2>1. \A k \in Handles : /\ sessions'[k].final = sessions[k].final
                             /\ sessions'[k].state = "completed" <=> sessions[k].state = "completed"
      BY <1>6, <1>7 DEF SummaryOnce, Active
    <2>2. row.state # "completed"
      BY <1>5
    <2> QED
      BY <1>5, <1>7, <1>10, <2>1, <2>2, SummariesAre DEF SummaryOnce
  <1>14. LeaseHeldOnce'
    <2>1. \A k \in Handles' : ~Active(k)' => sessions'[k].token = 0 /\ k \notin DOMAIN drafts'
      BY <1>5, <1>6, <1>7, <1>8 DEF LeaseHeldOnce, Active
    <2>2. \A d \in Procs \ {c} : procs[d].handle \in Handles \cup {0}
      BY <1>10 DEF ProcRows
    <2>3. \A d \in Procs \ {c} : procs'[d].handle # procs'[c].handle
      BY <1>4, <1>11, <2>2
    <2> QED
      BY <1>11, <2>1, <2>3 DEF LeaseHeldOnce
  <1>15. IdentityOnce'
    BY <1>3, <1>5, <1>7 DEF IdentityOnce
  <1>16. LeaseFollowsUse'
    BY <1>5, <1>7 DEF LeaseFollowsUse, Active
  <1> QED
    BY <1>12, <1>13, <1>14, <1>15, <1>16

LEMMA FindClosedKeepsInv ==
  ASSUME Inv, NEW c \in Procs, FindClosed(c)
  PROVE  Inv'
  <1> USE DEF Inv
  <1>1. PICK gone \in Chosen(procs[c].id) :
          sessions' = Reconciled(gone) /\ drafts' = Without(gone)
    BY DEF FindClosed
  <1>2. gone \subseteq Handles /\ \A k \in gone : Active(k)
    BY <1>1, ChosenRunOut
  <1>3. /\ sessions' \in Seq(SessionRows) /\ Handles' = Handles
        /\ \A k \in Handles : sessions'[k].external = sessions[k].external
        /\ \A k \in Handles \ gone : sessions'[k] = sessions[k]
        /\ \A k \in gone : /\ sessions'[k].state = "interrupted"
                           /\ sessions'[k].final = 0 /\ sessions'[k].token = 0
    BY <1>1, ReconciledRows DEF Handles
  <1>4. /\ DOMAIN drafts' = DOMAIN drafts \ gone
        /\ \A k \in DOMAIN drafts' : drafts'[k] = drafts[k]
    BY <1>1, WithoutDrafts
  <1>5. /\ summaries' = summaries /\ SummaryRows' = SummaryRows /\ ProcRows' = ProcRows
        /\ KnownRows' = KnownRows /\ UNCHANGED <<clock, setBacks, written, known>>
    BY <1>3 DEF FindClosed, SummaryRows, ProcRows, KnownRows, time
  <1>6. procs \in [Procs -> ProcRows] /\ procs[c].id \in Externals
    BY DEF TypeOK, FindClosed
  <1> DEFINE successor == [procs[c] EXCEPT !.id = <<@[1], @[2] + 1>>]
  <1>7. \/ procs' = [procs EXCEPT ![c] = NoProc]
        \/ /\ IsHook(c) /\ procs[c].id[2] # Retries
           /\ procs' = [procs EXCEPT ![c] = successor]
    BY DEF FindClosed
  <1>8. NoProc \in ProcRows /\ NoProc.step = "idle" /\ NoProc.token = 0
    BY DEF NoProc, ProcRows
  <1>9. ASSUME IsHook(c), procs[c].id[2] # Retries
        PROVE  /\ successor \in ProcRows /\ successor.id \in Externals
               /\ successor.token = procs[c].token /\ successor.handle = procs[c].handle
               /\ successor.step = procs[c].step
    <2>1. PICK e \in Claude \cup Direct, i \in 1 .. Retries : procs[c].id = <<e, i>>
      BY <1>6, SessionsAssumption DEF Externals
    <2>2. e \in Claude /\ i + 1 \in 2 .. Retries
      BY <1>9, <2>1, SessionsAssumption DEF IsHook
    <2>3. <<e, i + 1>> \in Externals
      BY <2>2 DEF Externals
    <2>4. successor = [procs[c] EXCEPT !.id = <<e, i + 1>>]
      BY <2>1
    <2> HIDE DEF successor
    <2> QED
      BY <1>6, <2>3, <2>4 DEF ProcRows
  <1> HIDE DEF successor
  <1>10. TypeOK'
    <2>1. procs' \in [Procs -> ProcRows]
      BY <1>6, <1>7, <1>8, <1>9
    <2>2. /\ \A d \in Procs : procs'[d].step # "idle" => procs'[d].id \in Externals
          /\ \A d \in Procs : procs'[d].step \in {"act", "context"} => procs'[d].handle \in Handles
      BY <1>6, <1>7, <1>8, <1>9 DEF TypeOK
    <2> QED
      BY <1>3, <1>4, <1>5, <2>1, <2>2 DEF TypeOK
  <1>11. SummaryOnce'
    <2>1. \A k \in Handles : /\ sessions'[k].final = sessions[k].final
                             /\ sessions'[k].state = "completed" <=> sessions[k].state = "completed"
      BY <1>2, <1>3 DEF SummaryOnce, Active
    <2> QED
      BY <1>3, <1>5, <2>1, SummariesAre DEF SummaryOnce
  <1>12. LeaseHeldOnce'
    <2>1. \A k \in Handles : ~Active(k)' => sessions'[k].token = 0 /\ k \notin DOMAIN drafts'
      BY <1>2, <1>3, <1>4 DEF LeaseHeldOnce, Active
    <2>2. \A d \in Procs : \/ procs'[d].token = 0
                           \/ procs'[d].token = procs[d].token /\ procs'[d].handle = procs[d].handle
      BY <1>6, <1>7, <1>8, <1>9
    <2> QED
      BY <1>3, <2>1, <2>2 DEF LeaseHeldOnce
  <1>13. IdentityOnce' /\ LeaseFollowsUse'
    BY <1>3 DEF IdentityOnce, LeaseFollowsUse, Active
  <1> QED
    BY <1>10, <1>11, <1>12, <1>13

(***************************************************************************)
(* Closing a session.                                                      *)
(***************************************************************************)

\* A process that stops, or that does not touch its lease.
ProcsStep ==
  /\ procs' \in [Procs -> ProcRows']
  /\ \A d \in Procs : procs'[d].step # "idle" => procs'[d].id \in Externals
  /\ \A d \in Procs : procs'[d].step \in {"act", "context"} => procs'[d].handle \in Handles
  /\ \A d \in Procs : \/ procs'[d].token = 0
                      \/ procs'[d].token = procs[d].token /\ procs'[d].handle = procs[d].handle

LEMMA ProcsStay ==
  ASSUME TypeOK, Handles' = Handles, DOMAIN summaries \subseteq DOMAIN summaries',
         procs' = procs \/ \E c \in Procs : procs' = [procs EXCEPT ![c] = NoProc]
  PROVE  ProcsStep
  <1>1. procs \in [Procs -> ProcRows] /\ ProcRows \subseteq ProcRows'
    BY DEF TypeOK, ProcRows
  <1>2. NoProc \in ProcRows /\ NoProc.step = "idle" /\ NoProc.token = 0
    BY DEF NoProc, ProcRows
  <1>3. procs' \in [Procs -> ProcRows']
    BY <1>1, <1>2
  <1>4. \A d \in Procs : procs'[d] = procs[d] \/ procs'[d] = NoProc
    BY <1>1
  <1> QED
    BY <1>2, <1>3, <1>4 DEF ProcsStep, TypeOK

LEMMA FinishKeepsInv ==
  ASSUME Inv, NEW h \in Handles, NEW token, NEW state \in States \ {"active"},
         NEW text \in 0 .. MaxTexts, Finish(h, token, state, text),
         UNCHANGED <<time, known>>, written' \in 0 .. MaxTexts,
         procs' = procs \/ \E c \in Procs : procs' = [procs EXCEPT ![c] = NoProc]
  PROVE  Inv'
  <1> USE DEF Inv
  <1> DEFINE final == IF state = "completed" THEN Len(summaries) + 1 ELSE 0
             row == Closed(sessions[h], state, clock, final)
             n == Len(summaries) + 1
  <1>1. /\ sessions[h] \in SessionRows /\ clock \in Nat
        /\ Handles = 1 .. Len(sessions) /\ Len(sessions) \in Nat
    BY HandlesAre
  <1>2. n \in Nat \ {0} /\ final \in Nat /\ DOMAIN summaries = 1 .. Len(summaries) /\ n \notin DOMAIN summaries
    BY SummariesAre
  <1>3. Active(h) /\ sessions[h].state = "active" /\ sessions[h].final = 0
    BY DEF Finish, Closes, Active, SummaryOnce
  <1>4. /\ row \in SessionRows /\ row.external = sessions[h].external
        /\ row.state = state /\ row.final = final /\ row.token = 0
    <2>1. final \in Nat /\ state \in States
      BY <1>2
    <2> HIDE DEF final
    <2> QED
      BY <1>1, <2>1 DEF Closed, SessionRows
  <1>5. sessions' = [sessions EXCEPT ![h] = row] /\ drafts' = Without({h})
    BY DEF Finish
  <1> HIDE DEF row
  <1>6. /\ sessions' \in Seq(SessionRows) /\ Handles' = Handles
        /\ sessions'[h] = row
        /\ \A k \in Handles \ {h} : sessions'[k] = sessions[k]
    BY <1>1, <1>4, <1>5 DEF TypeOK, Handles
  <1>7. /\ DOMAIN drafts' = DOMAIN drafts \ {h}
        /\ \A k \in DOMAIN drafts' : drafts'[k] = drafts[k]
    BY <1>5, WithoutDrafts
  <1>8. SummaryRows' = SummaryRows
    BY <1>6 DEF SummaryRows
  <1>9. /\ summaries' \in Seq(SummaryRows)
        /\ IF state = "completed"
           THEN /\ DOMAIN summaries' = DOMAIN summaries \cup {n}
                /\ summaries'[n].handle = h
                /\ \A i \in DOMAIN summaries : summaries'[i] = summaries[i]
           ELSE summaries' = summaries
    <2>1. CASE state # "completed"
      BY <2>1 DEF Finish, TypeOK
    <2>2. CASE state = "completed"
      <3> DEFINE summary == [handle |-> h, text |-> IF text = 0 THEN drafts[h].text ELSE text]
      <3>1. text = 0 => drafts[h].text \in 1 .. MaxTexts
        BY <2>2 DEF Finish, TypeOK, DraftRows
      <3>2. text # 0 => text \in 1 .. MaxTexts
        BY SessionsAssumption
      <3>3. summary \in SummaryRows /\ summary.handle = h
        BY <3>1, <3>2 DEF SummaryRows
      <3>4. summaries' = Append(summaries, summary)
        BY <2>2 DEF Finish
      <3> HIDE DEF summary
      <3>5. summaries' \in Seq(SummaryRows) /\ Len(summaries') = n
        BY <3>3, <3>4 DEF TypeOK
      <3>6. summaries'[n] = summary /\ \A i \in 1 .. Len(summaries) : summaries'[i] = summaries[i]
        BY <1>2, <3>3, <3>4 DEF TypeOK
      <3>7. DOMAIN summaries' = 1 .. n
        BY <3>5
      <3> QED
        BY <1>2, <2>2, <3>3, <3>5, <3>6, <3>7
    <2> QED
      BY <2>1, <2>2
  <1>10. ProcsStep
    BY <1>6, <1>9, ProcsStay
  <1>11. TypeOK'
    <2>1. known' \in [Agents -> KnownRows']
      BY <1>6 DEF TypeOK, KnownRows
    <2>2. UNCHANGED <<clock, setBacks>>
      BY DEF time
    <2> QED
      BY <1>6, <1>7, <1>8, <1>9, <1>10, <2>1, <2>2 DEF TypeOK, ProcsStep
  <1>12. SummaryOnce'
    <2>1. \A k \in Handles \ {h} : sessions'[k].final \in DOMAIN summaries \cup {0}
      BY <1>6 DEF SummaryOnce
    <2>2. \A k \in Handles : (sessions'[k].state = "completed") = (sessions'[k].final # 0)
      <3>1. (state = "completed") = (final # 0)
        BY <1>2
      <3> HIDE DEF final
      <3> QED
        BY <1>4, <1>6, <3>1 DEF SummaryOnce
    <2>3. \A k \in Handles : sessions'[k].final # 0 =>
            sessions'[k].final \in DOMAIN summaries' /\ summaries'[sessions'[k].final].handle = k
      BY <1>2, <1>4, <1>6, <1>9, <2>1 DEF SummaryOnce
    <2>4. \A i \in DOMAIN summaries : summaries[i].handle \in Handles \ {h}
      BY <1>2, <1>3, SummariesAre DEF SummaryOnce
    <2>5. \A i \in DOMAIN summaries' : sessions'[summaries'[i].handle].final = i
      <3>1. \A i \in DOMAIN summaries : sessions'[summaries[i].handle].final = i
        BY <1>6, <2>4 DEF SummaryOnce
      <3>2. CASE state = "completed"
        BY <1>2, <1>4, <1>6, <1>9, <3>1, <3>2
      <3>3. CASE state # "completed"
        BY <1>9, <3>1, <3>3
      <3> QED
        BY <3>2, <3>3
    <2> QED
      BY <1>6, <2>2, <2>3, <2>5 DEF SummaryOnce
  <1>13. LeaseHeldOnce'
    <2>1. \A k \in Handles : ~Active(k)' => sessions'[k].token = 0 /\ k \notin DOMAIN drafts'
      BY <1>4, <1>6, <1>7 DEF LeaseHeldOnce, Active
    <2> QED
      BY <1>6, <1>10, <2>1 DEF LeaseHeldOnce, ProcsStep
  <1>14. IdentityOnce'
    BY <1>4, <1>6 DEF IdentityOnce
  <1>15. LeaseFollowsUse'
    BY <1>4, <1>6 DEF LeaseFollowsUse, Active
  <1> QED
    BY <1>11, <1>12, <1>13, <1>14, <1>15

LEMMA EndKeepsInv ==
  ASSUME Inv, NEW c \in Procs, EndProviderSession(c)
  PROVE  Inv'
  <1>1. procs[c].handle \in Handles
    BY DEF Inv, TypeOK, EndProviderSession
  <1>2. "completed" \in States \ {"active"} /\ 0 \in 0 .. MaxTexts
    BY SessionsAssumption DEF States
  <1>3. UNCHANGED <<time, known>> /\ written' \in 0 .. MaxTexts
    BY DEF Inv, TypeOK, EndProviderSession
  <1> QED
    BY <1>1, <1>2, <1>3, FinishKeepsInv DEF EndProviderSession

LEMMA EndDirectKeepsInv ==
  ASSUME Inv, NEW c \in Procs, NEW state \in States \ {"active"}, NEW own \in BOOLEAN,
         EndDirect(c, state, own)
  PROVE  Inv'
  <1>1. procs[c].handle \in Handles
    BY DEF Inv, TypeOK, EndDirect
  <1> DEFINE text == IF own THEN written + 1 ELSE 0
  <1>2. text \in 0 .. MaxTexts /\ written' \in 0 .. MaxTexts
    BY SessionsAssumption DEF Inv, TypeOK, EndDirect
  <1>3. UNCHANGED <<time, known>> /\ procs' = procs
    BY DEF EndDirect
  <1>4. Finish(procs[c].handle, procs[c].token, state, text)
    BY DEF EndDirect
  <1> HIDE DEF text
  <1> QED
    BY <1>1, <1>2, <1>3, <1>4, FinishKeepsInv

(***************************************************************************)
(* The other steps.                                                        *)
(***************************************************************************)

LEMMA ProcsStepKeepsInv ==
  ASSUME Inv, ProcsStep, UNCHANGED <<time, sessions, drafts, summaries, written>>,
         known' \in [Agents -> KnownRows]
  PROVE  Inv'
  <1>1. /\ Handles' = Handles /\ SummaryRows' = SummaryRows
        /\ ProcRows' = ProcRows /\ KnownRows' = KnownRows
    BY DEF Handles, SummaryRows, ProcRows, KnownRows
  <1>2. TypeOK'
    BY <1>1 DEF Inv, TypeOK, ProcsStep, time
  <1>3. SummaryOnce' /\ IdentityOnce' /\ LeaseFollowsUse'
    BY <1>1 DEF Inv, SummaryOnce, IdentityOnce, LeaseFollowsUse, Active
  <1>4. LeaseHeldOnce'
    BY <1>1 DEF Inv, LeaseHeldOnce, ProcsStep, Active
  <1> QED
    BY <1>2, <1>3, <1>4 DEF Inv

LEMMA StopKeepsInv ==
  ASSUME Inv, NEW c \in Procs, Stop(c) \/ LeaveActive(c)
  PROVE  Inv'
  <1>1. UNCHANGED <<time, sessions, drafts, summaries, written, known>>
    BY DEF Stop, LeaveActive
  <1>2. procs' = [procs EXCEPT ![c] = NoProc]
    BY DEF Stop, LeaveActive
  <1>3. ProcsStep
    BY <1>1, <1>2, ProcsStay DEF Inv, Handles
  <1> QED
    BY <1>1, <1>3, ProcsStepKeepsInv DEF Inv, TypeOK

LEMMA RunKeepsInv ==
  ASSUME Inv, NEW c \in Procs, NEW id \in Claude \cup Direct, Run(c, id)
  PROVE  Inv'
  <1> DEFINE proc == [NoProc EXCEPT !.step = "start", !.id = <<id, 1>>]
  <1>1. <<id, 1>> \in Externals
    BY SessionsAssumption DEF Externals
  <1>2. proc \in ProcRows /\ proc.step = "start" /\ proc.id = <<id, 1>> /\ proc.token = 0
    BY <1>1 DEF NoProc, ProcRows
  <1>3. procs' = [procs EXCEPT ![c] = proc] /\ UNCHANGED <<time, sessions, drafts, summaries, written, known>>
    BY DEF Run
  <1> HIDE DEF proc
  <1>4. procs \in [Procs -> ProcRows] /\ ProcRows' = ProcRows
    BY <1>3 DEF Inv, TypeOK, ProcRows, Handles
  <1>5. ProcsStep
    BY <1>1, <1>2, <1>3, <1>4 DEF Inv, TypeOK, ProcsStep
  <1> QED
    BY <1>3, <1>5, ProcsStepKeepsInv DEF Inv, TypeOK

LEMMA ReadCurrentKeepsInv ==
  ASSUME Inv, NEW c \in Procs, ReadCurrent(c)
  PROVE  Inv'
  <1>1. /\ procs' = [procs EXCEPT ![c] = [procs[c] EXCEPT !.step = "context"]]
        /\ UNCHANGED <<time, sessions, drafts, summaries, written, known>>
        /\ procs[c].step = "act"
    BY DEF ReadCurrent
  <1>2. procs \in [Procs -> ProcRows] /\ ProcRows' = ProcRows
    BY <1>1 DEF Inv, TypeOK, ProcRows, Handles
  <1>3. [procs[c] EXCEPT !.step = "context"] \in ProcRows
    BY <1>2 DEF ProcRows
  <1>4. ProcsStep
    BY <1>1, <1>2, <1>3 DEF Inv, TypeOK, ProcsStep, ProcRows
  <1> QED
    BY <1>1, <1>4, ProcsStepKeepsInv DEF Inv, TypeOK

LEMMA TellContextKeepsInv ==
  ASSUME Inv, NEW c \in Procs, TellContext(c)
  PROVE  Inv'
  <1> DEFINE h == procs[c].handle
  <1>1. procs \in [Procs -> ProcRows] /\ h \in Handles
    BY DEF Inv, TypeOK, TellContext
  <1>2. UNCHANGED <<time, sessions, drafts, summaries, written>>
    BY DEF TellContext
  <1>3. PICK final \in IF Completed(h) = {} THEN {0} ELSE Handoffs(h) :
          procs' = [procs EXCEPT ![c] = [procs[c] EXCEPT !.step = "told", !.token = 0, !.handoff = final]]
    BY DEF TellContext
  <1>4. final \in DOMAIN summaries \cup {0}
    BY <1>3 DEF Inv, SummaryOnce, Handoffs, Completed
  <1>5. [procs[c] EXCEPT !.step = "told", !.token = 0, !.handoff = final] \in ProcRows
    BY <1>1, <1>4 DEF ProcRows
  <1>6. ProcRows' = ProcRows
    BY <1>2 DEF ProcRows, Handles
  <1>7. ProcsStep
    <2>1. procs' \in [Procs -> ProcRows']
      BY <1>1, <1>3, <1>5, <1>6
    <2>2. /\ procs'[c].step = "told" /\ procs'[c].token = 0 /\ procs'[c].id = procs[c].id
          /\ \A d \in Procs \ {c} : procs'[d] = procs[d]
      BY <1>1, <1>3 DEF ProcRows
    <2>3. procs[c].id \in Externals
      BY DEF Inv, TypeOK, TellContext
    <2> QED
      BY <2>1, <2>2, <2>3 DEF Inv, TypeOK, ProcsStep
  <1>8. known' \in [Agents -> KnownRows]
    <2>1. [handle |-> h, expected |-> 0] \in KnownRows
      BY <1>1 DEF KnownRows
    <2>2. known \in [Agents -> KnownRows]
      BY DEF Inv, TypeOK
    <2> HIDE DEF h
    <2>3. \A a \in Agents : known'[a] \in {[handle |-> h, expected |-> 0], known[a]}
      BY DEF TellContext, h
    <2>4. known' = [a \in Agents |-> known'[a]]
      BY DEF TellContext
    <2> QED
      BY <2>1, <2>2, <2>3, <2>4
  <1> QED
    BY <1>2, <1>7, <1>8, ProcsStepKeepsInv

LEMMA RenewKeepsInv ==
  ASSUME Inv, NEW c \in Procs, RenewProviderSession(c)
  PROVE  Inv'
  <1> USE DEF Inv
  <1> DEFINE h == procs[c].handle
             row == Renewed(sessions[h], procs[c].token)
  <1>1. h \in Handles /\ Active(h) /\ procs[c].token \in Tokens \cup {0} /\ sessions[h].token = procs[c].token
    BY DEF TypeOK, ProcRows, RenewProviderSession
  <1>2. sessions[h] \in SessionRows /\ clock \in Nat
    BY <1>1, HandlesAre
  <1>3. /\ row \in SessionRows /\ row.external = sessions[h].external
        /\ row.state = "active" /\ row.final = sessions[h].final
        /\ row.until = row.updated + TTL
    <2> DEFINE at == Monotonic(clock, sessions[h].updated)
    <2>1. at \in Nat /\ at + TTL \in Nat
      <3>1. sessions[h].updated \in Nat
        BY <1>2 DEF SessionRows
      <3>2. at \in Nat
        BY <1>2, <3>1 DEF Monotonic
      <3> HIDE DEF at
      <3> QED
        BY <3>2, SessionsAssumption
    <2>2. row = [sessions[h] EXCEPT !.token = procs[c].token, !.updated = at, !.until = at + TTL]
      BY DEF Renewed
    <2> HIDE DEF at, row
    <2> QED
      BY <1>1, <1>2, <2>1, <2>2 DEF SessionRows, Active
  <1>4. sessions' = [sessions EXCEPT ![h] = row]
    BY DEF RenewProviderSession
  <1> HIDE DEF row, h
  <1>5. /\ sessions' \in Seq(SessionRows) /\ Handles' = Handles
        /\ sessions'[h] = row
        /\ \A k \in Handles \ {h} : sessions'[k] = sessions[k]
    BY <1>1, <1>3, <1>4 DEF TypeOK, Handles
  <1>6. /\ UNCHANGED <<clock, setBacks, drafts, summaries, written, procs, known>>
        /\ SummaryRows' = SummaryRows /\ ProcRows' = ProcRows /\ KnownRows' = KnownRows
    BY <1>5 DEF RenewProviderSession, time, SummaryRows, ProcRows, KnownRows
  <1>7. TypeOK'
    BY <1>5, <1>6 DEF TypeOK
  <1>8. SummaryOnce'
    <2>1. \A k \in Handles : sessions'[k].final = sessions[k].final /\ sessions'[k].state = sessions[k].state
      BY <1>1, <1>3, <1>5 DEF Active
    <2> QED
      BY <1>5, <1>6, <2>1, SummariesAre DEF SummaryOnce
  <1>9. LeaseHeldOnce'
    BY <1>1, <1>3, <1>5, <1>6 DEF LeaseHeldOnce, Active
  <1>10. IdentityOnce' /\ LeaseFollowsUse'
    BY <1>3, <1>5 DEF IdentityOnce, LeaseFollowsUse, Active
  <1> QED
    BY <1>7, <1>8, <1>9, <1>10

LEMMA SaveDraftKeepsInv ==
  ASSUME Inv, NEW a \in Agents, NEW expected, SaveProviderSessionDraft(a, expected)
  PROVE  Inv'
  <1> USE DEF Inv
  <1> DEFINE h == known[a].handle
             at == IF h \in DOMAIN drafts THEN Monotonic(clock, drafts[h].updated) ELSE clock
             draft == [text |-> written + 1, updated |-> at, author |-> a]
  <1>1. h \in Handles /\ Active(h) /\ at <= MaxTime /\ written < MaxTexts
    BY DEF TypeOK, KnownRows, SaveProviderSessionDraft
  <1>2. at \in 1 .. MaxTime
    <2>1. clock \in 1 .. MaxTime /\ \A k \in DOMAIN drafts : drafts[k].updated \in 1 .. MaxTime
      BY DEF TypeOK, DraftRows
    <2> QED
      BY <1>1, <2>1, SessionsAssumption DEF Monotonic
  <1>3. /\ drafts' = [k \in DOMAIN drafts \cup {h} |-> IF k = h THEN draft ELSE drafts[k]]
        /\ written' = written + 1 /\ known' = [known EXCEPT ![a] = [known[a] EXCEPT !.expected = at]]
        /\ UNCHANGED <<time, sessions, summaries, procs>>
    BY DEF SaveProviderSessionDraft
  <1> HIDE DEF at, h
  <1>4. draft \in DraftRows /\ written' \in 0 .. MaxTexts
    BY <1>1, <1>2, <1>3, SessionsAssumption DEF DraftRows, TypeOK
  <1>5. known' \in [Agents -> KnownRows]
    BY <1>2, <1>3 DEF TypeOK, KnownRows
  <1>6. /\ Handles' = Handles /\ SummaryRows' = SummaryRows
        /\ ProcRows' = ProcRows /\ KnownRows' = KnownRows
    BY <1>3 DEF Handles, SummaryRows, ProcRows, KnownRows
  <1> HIDE DEF draft
  <1>7. DOMAIN drafts' = DOMAIN drafts \cup {h} /\ \A k \in DOMAIN drafts' : drafts'[k] \in DraftRows
    BY <1>3, <1>4 DEF TypeOK
  <1>8. TypeOK'
    BY <1>1, <1>3, <1>4, <1>5, <1>6, <1>7 DEF TypeOK, time
  <1>9. SummaryOnce' /\ IdentityOnce' /\ LeaseFollowsUse'
    BY <1>3, <1>6 DEF SummaryOnce, IdentityOnce, LeaseFollowsUse, Active
  <1>10. LeaseHeldOnce'
    BY <1>1, <1>3, <1>6, <1>7 DEF LeaseHeldOnce, Active
  <1> QED
    BY <1>8, <1>9, <1>10

LEMMA ClockKeepsInv ==
  ASSUME Inv, Tick \/ SetBack
  PROVE  Inv'
  <1>1. UNCHANGED <<sessions, drafts, summaries, written, procs, known>>
    BY DEF Tick, SetBack
  <1>2. clock' \in 1 .. MaxTime /\ setBacks' \in 0 .. MaxSetBacks
    BY SessionsAssumption DEF Inv, TypeOK, Tick, SetBack
  <1>3. /\ Handles' = Handles /\ SummaryRows' = SummaryRows
        /\ ProcRows' = ProcRows /\ KnownRows' = KnownRows
    BY <1>1 DEF Handles, SummaryRows, ProcRows, KnownRows
  <1>4. TypeOK'
    BY <1>1, <1>2, <1>3 DEF Inv, TypeOK
  <1> QED
    BY <1>1, <1>3, <1>4 DEF Inv, SummaryOnce, LeaseHeldOnce, IdentityOnce, LeaseFollowsUse, Active

LEMMA InitHasInv ==
  ASSUME Init
  PROVE  Inv
  <1>1. Legacy \in [1 .. Len(Legacy) -> Direct] /\ Len(Legacy) \in Nat /\ DOMAIN Legacy = 1 .. Len(Legacy)
    BY SessionsAssumption
  <1>2. \A h \in DOMAIN Legacy : <<Legacy[h], 1>> \in Externals
    BY <1>1 DEF Externals
  <1>3. clock \in Nat /\ clock = 1
    BY DEF Init
  <1>4. \A h \in DOMAIN Legacy :
          /\ LegacySession(<<Legacy[h], 1>>) \in SessionRows
          /\ LegacySession(<<Legacy[h], 1>>).external = <<Legacy[h], 1>>
          /\ LegacySession(<<Legacy[h], 1>>).state = "active"
          /\ LegacySession(<<Legacy[h], 1>>).final = 0
          /\ LegacySession(<<Legacy[h], 1>>).until = 0
    BY <1>2, <1>3, SessionsAssumption DEF LegacySession, NewSession, SessionRows, States
  <1>5. /\ sessions \in Seq(SessionRows) /\ Handles = DOMAIN Legacy
        /\ \A h \in Handles : sessions[h] = LegacySession(<<Legacy[h], 1>>)
    BY <1>1, <1>4 DEF Init, Handles
  <1>6. NoProc \in ProcRows /\ NoProc.step = "idle" /\ NoProc.token = 0
    BY DEF NoProc, ProcRows
  <1>7. TypeOK
    BY <1>5, <1>6, SessionsAssumption DEF Init, TypeOK, KnownRows
  <1>8. SummaryOnce /\ LeaseHeldOnce /\ LeaseFollowsUse
    BY <1>4, <1>5, <1>6 DEF Init, SummaryOnce, LeaseHeldOnce, LeaseFollowsUse, Active
  <1>9. IdentityOnce
    <2>1. \A h, k \in DOMAIN Legacy : <<Legacy[h], 1>> = <<Legacy[k], 1>> => h = k
      BY SessionsAssumption
    <2>2. \A h \in Handles : sessions[h].external = <<Legacy[h], 1>>
      BY <1>4, <1>5
    <2> QED
      BY <1>5, <2>1, <2>2 DEF IdentityOnce
  <1> QED
    BY <1>7, <1>8, <1>9 DEF Inv

LEMMA NextKeepsInv ==
  ASSUME Inv, [Next]_vars
  PROVE  Inv'
  <1>1. CASE UNCHANGED vars
    <2>1. /\ Handles' = Handles /\ SummaryRows' = SummaryRows
          /\ ProcRows' = ProcRows /\ KnownRows' = KnownRows
      BY <1>1 DEF vars, Handles, SummaryRows, ProcRows, KnownRows
    <2> QED
      BY <1>1, <2>1 DEF vars, time, Inv, TypeOK, SummaryOnce, LeaseHeldOnce, IdentityOnce, LeaseFollowsUse, Active
  <1>2. CASE \E c \in Procs : TakeOver(c)
    BY <1>2, TakeOverKeepsInv
  <1>3. CASE \E c \in Procs : InsertSession(c)
    BY <1>3, InsertSessionKeepsInv
  <1>4. CASE \E c \in Procs : FindClosed(c)
    BY <1>4, FindClosedKeepsInv
  <1>5. CASE \E c \in Procs, id \in Claude \cup Direct : Run(c, id)
    BY <1>5, RunKeepsInv
  <1>6. CASE \E c \in Procs : ReadCurrent(c) \/ TellContext(c)
    BY <1>6, ReadCurrentKeepsInv, TellContextKeepsInv
  <1>7. CASE \E c \in Procs : Stop(c) \/ LeaveActive(c)
    BY <1>7, StopKeepsInv
  <1>8. CASE \E c \in Procs : EndProviderSession(c)
    BY <1>8, EndKeepsInv
  <1>9. CASE \E c \in Procs, state \in States \ {"active"}, own \in BOOLEAN : EndDirect(c, state, own)
    BY <1>9, EndDirectKeepsInv
  <1>10. CASE \E c \in Procs : RenewProviderSession(c)
    BY <1>10, RenewKeepsInv
  <1>11. CASE \E a \in Agents : \E expected \in {0, known[a].expected} : SaveProviderSessionDraft(a, expected)
    BY <1>11, SaveDraftKeepsInv
  <1>12. CASE Tick \/ SetBack
    BY <1>12, ClockKeepsInv
  <1> QED
    BY <1>1, <1>2, <1>3, <1>4, <1>5, <1>6, <1>7, <1>8, <1>9, <1>10, <1>11, <1>12 DEF Next

(***************************************************************************)
(* Theorems.                                                               *)
(***************************************************************************)

\* The inductive invariant holds in every state.
THEOREM Invariance == Spec => []Inv
  BY InitHasInv, NextKeepsInv, PTL DEF Spec

\* Rows are rows of their tables and processes refer to rows there are, whatever hooks,
\* programs and agents do and wherever they stop.
THEOREM TypeCorrect == Spec => []TypeOK
  <1>1. Inv => TypeOK
    BY DEF Inv
  <1> QED
    BY <1>1, Invariance, PTL

\* A session has exactly one summary when it was completed and none otherwise: neither a
\* repeated close nor one by an outdated token adds a second (EndProviderSession).
THEOREM SummaryIsOnce == Spec => []SummaryOnce
  <1>1. Inv => SummaryOnce
    BY DEF Inv
  <1> QED
    BY <1>1, Invariance, PTL

\* However many hooks take a session over, one of them has its current token at most, and
\* a closed session has neither a lease nor a draft (StartProviderSession).
THEOREM LeaseIsHeldOnce == Spec => []LeaseHeldOnce
  <1>1. Inv => LeaseHeldOnce
    BY DEF Inv
  <1> QED
    BY <1>1, Invariance, PTL

\* A session has one outcome: the table is well formed, no session is summarised
\* twice, and one process at most holds its lease.
THEOREM OutcomesAreOne == Spec => []OutcomeIsOne
  <1>1. Inv => OutcomeIsOne
    BY DEF Inv, OutcomeIsOne
  <1> QED
    BY <1>1, Invariance, PTL

\* A start interrupts only what nobody held or extended for as long as a lease lasts
\* (reconcileProviderSessions).
THEOREM LiveLeasesAreKept == Spec => LiveLeaseKept
  <1>1. ASSUME Inv, Next, NEW h \in Handles, Active(h), sessions'[h].state = "interrupted",
               procs' # procs
        PROVE  sessions[h].until = 0 \/ clock >= sessions[h].updated + TTL
    <2>1. ASSUME NEW e, NEW gone \in Chosen(e), h \in gone
          PROVE  sessions[h].until = 0 \/ clock >= sessions[h].updated + TTL
      <3>1. sessions[h].until <= clock
        BY <2>1, ChosenRunOut
      <3>2. sessions[h].until \in {0, sessions[h].updated + TTL}
        BY <1>1 DEF Inv, LeaseFollowsUse
      <3>3. sessions[h] \in SessionRows /\ clock \in Nat
        BY <1>1, HandlesAre DEF Inv
      <3> QED
        BY <3>1, <3>2, <3>3, SessionsAssumption DEF SessionRows
    <2>2. CASE sessions' = sessions
      BY <1>1, <2>2 DEF Active
    <2>3. ASSUME NEW c \in Procs, TakeOver(c) \/ FindClosed(c) \/ InsertSession(c)
          PROVE  \E gone \in Chosen(procs[c].id) : h \in gone
      <3>1. \A gone \in Chosen(procs[c].id) : h \notin gone => Reconciled(gone)[h] = sessions[h]
        BY <1>1, ReconciledRows DEF Inv
      <3>2. CASE FindClosed(c)
        BY <1>1, <3>1, <3>2 DEF FindClosed, Active
      <3>3. CASE TakeOver(c)
        <4>1. PICK gone \in Chosen(procs[c].id), k \in Handles :
                Active(k) /\ sessions' = [Reconciled(gone) EXCEPT ![k] = Renewed(sessions[k], NewToken(k))]
          BY <3>3 DEF TakeOver
        <4>2. DOMAIN Reconciled(gone) = Handles
          BY <1>1, ReconciledRows DEF Inv
        <4>3. Renewed(sessions[k], NewToken(k)).state = "active"
          <5>1. sessions[k] \in SessionRows /\ sessions[k].state = "active"
            BY <1>1, <4>1, HandlesAre DEF Inv, Active
          <5> QED
            BY <5>1 DEF Renewed, SessionRows
        <4>4. k # h
          BY <1>1, <4>1, <4>2, <4>3
        <4> QED
          BY <1>1, <3>1, <4>1, <4>2, <4>4 DEF Active
      <3>4. CASE InsertSession(c)
        <4>1. PICK gone \in Chosen(procs[c].id) :
                sessions' = Append(Reconciled(gone), NewSession(procs[c].id, FreshToken(Len(sessions) + 1)))
          BY <3>4 DEF InsertSession
        <4>2. Reconciled(gone) \in Seq(SessionRows) /\ Len(Reconciled(gone)) = Len(sessions)
          BY <1>1, ReconciledRows DEF Inv
        <4>3. h \in 1 .. Len(sessions) /\ Len(sessions) \in Nat
          BY <1>1, HandlesAre DEF Inv
        <4>4. sessions'[h] = Reconciled(gone)[h]
          BY <4>1, <4>2, <4>3
        <4> QED
          BY <1>1, <3>1, <4>4 DEF Active
      <3> QED
        BY <2>3, <3>2, <3>3, <3>4
    <2>4. ASSUME NEW c \in Procs, RenewProviderSession(c) \/ \E state \in States, own \in BOOLEAN : EndDirect(c, state, own)
          PROVE  FALSE
      BY <1>1, <2>4 DEF RenewProviderSession, EndDirect
    <2>5. ASSUME NEW c \in Procs, EndProviderSession(c)
          PROVE  FALSE
      <3>1. /\ sessions' = [sessions EXCEPT ![procs[c].handle] =
                              Closed(sessions[procs[c].handle], "completed", clock, Len(summaries) + 1)]
            /\ procs[c].handle \in Handles
        BY <1>1, <2>5 DEF EndProviderSession, Finish, Inv, TypeOK
      <3>2. sessions[procs[c].handle] \in SessionRows
        BY <1>1, <3>1, HandlesAre DEF Inv
      <3>3. Closed(sessions[procs[c].handle], "completed", clock, Len(summaries) + 1).state = "completed"
        BY <3>2 DEF Closed, SessionRows
      <3>4. sessions \in [Handles -> SessionRows]
        BY <1>1 DEF Inv, TypeOK, Handles
      <3> QED
        BY <1>1, <3>1, <3>3, <3>4 DEF Active
    <2> QED
      BY <1>1, <2>1, <2>2, <2>3, <2>4, <2>5
      DEF Next, Run, ReadCurrent, TellContext, LeaveActive, SaveProviderSessionDraft, Tick, SetBack, Stop
  <1>2. Inv /\ [Next]_vars =>
          [\A h \in Handles :
             Active(h) /\ sessions'[h].state = "interrupted" /\ procs' # procs =>
               sessions[h].until = 0 \/ clock >= sessions[h].updated + TTL]_vars
    BY <1>1
  <1> QED
    BY <1>2, Invariance, PTL DEF Spec, LiveLeaseKept

(***************************************************************************)
(* Drafts.                                                                 *)
(***************************************************************************)

\* What an agent goes by is never ahead of the draft, and is the time of the
\* draft only when the draft is its own; without a draft it goes by nothing.
AgentsKnow ==
  \A a \in Agents : known[a].handle # 0 =>
    LET h == known[a].handle
        expected == known[a].expected
    IN IF h \in DOMAIN drafts
         THEN /\ expected <= drafts[h].updated
              /\ expected = drafts[h].updated => drafts[h].author = a
         ELSE Active(h) => expected = 0

\* A step that writes no draft loses those of sessions that end, and no agent
\* learns a time by it.
DraftsKept ==
  /\ \A h \in DOMAIN drafts' : h \in DOMAIN drafts /\ drafts'[h] = drafts[h]
  /\ \A h \in DOMAIN drafts \ DOMAIN drafts' : sessions'[h].state # "active"
  /\ \A h \in Handles : sessions'[h].state = "active" => Active(h)
  /\ \A a \in Agents : known'[a] = known[a] \/ known'[a].expected = 0

LEMMA StartKeepsDrafts ==
  ASSUME Inv, NEW c \in Procs, TakeOver(c) \/ InsertSession(c) \/ FindClosed(c)
  PROVE  DraftsKept
  <1> USE DEF Inv
  <1>1. known' = known
    BY DEF TakeOver, InsertSession, FindClosed
  <1>2. SUFFICES ASSUME NEW gone \in Chosen(procs[c].id), drafts' = Without(gone),
                        \A h \in gone : sessions'[h].state # "active",
                        \A h \in Handles \ gone : sessions'[h].state = "active" => Active(h)
                 PROVE  DraftsKept
    <2>1. \A gone \in Chosen(procs[c].id) :
            gone \subseteq Handles /\ \A h \in gone : Active(h) /\ sessions[h].external # procs[c].id
      BY ChosenRunOut
    <2>2. CASE FindClosed(c)
      <3>1. PICK gone \in Chosen(procs[c].id) : sessions' = Reconciled(gone) /\ drafts' = Without(gone)
        BY <2>2 DEF FindClosed
      <3>2. /\ \A h \in gone : sessions'[h].state # "active"
            /\ \A h \in Handles \ gone : sessions'[h] = sessions[h]
        BY <3>1, ReconciledRows
      <3> QED
        BY <1>2, <3>1, <3>2 DEF Active
    <2>3. CASE TakeOver(c)
      <3>1. PICK gone \in Chosen(procs[c].id), k \in Handles :
              /\ Active(k) /\ sessions[k].external = procs[c].id
              /\ sessions' = [Reconciled(gone) EXCEPT ![k] = Renewed(sessions[k], NewToken(k))]
              /\ drafts' = Without(gone)
        BY <2>3 DEF TakeOver
      <3>2. DOMAIN Reconciled(gone) = Handles /\ k \notin gone
        BY <2>1, <3>1, ReconciledRows
      <3>3. /\ \A h \in gone : sessions'[h].state # "active"
            /\ \A h \in Handles \ (gone \cup {k}) : sessions'[h] = sessions[h]
        BY <2>1, <3>1, <3>2, ReconciledRows
      <3> QED
        BY <1>2, <3>1, <3>3 DEF Active
    <2>4. CASE InsertSession(c)
      <3>1. PICK gone \in Chosen(procs[c].id) :
              /\ sessions' = Append(Reconciled(gone), NewSession(procs[c].id, FreshToken(Len(sessions) + 1)))
              /\ drafts' = Without(gone)
        BY <2>4 DEF InsertSession
      <3>2. Reconciled(gone) \in Seq(SessionRows) /\ Len(Reconciled(gone)) = Len(sessions)
        BY ReconciledRows
      <3>3. Handles = 1 .. Len(sessions) /\ Len(sessions) \in Nat
        BY HandlesAre
      <3>4. \A h \in Handles : sessions'[h] = Reconciled(gone)[h]
        BY <3>1, <3>2, <3>3
      <3>5. /\ \A h \in gone : sessions'[h].state # "active"
            /\ \A h \in Handles \ gone : sessions'[h] = sessions[h]
        BY <2>1, <3>1, <3>4, ReconciledRows
      <3> QED
        BY <1>2, <3>1, <3>5 DEF Active
    <2> QED
      BY <2>2, <2>3, <2>4
  <1>3. /\ DOMAIN drafts' = DOMAIN drafts \ gone
        /\ \A h \in DOMAIN drafts' : drafts'[h] = drafts[h]
    BY <1>2, WithoutDrafts
  <1> QED
    BY <1>1, <1>2, <1>3, ChosenRunOut DEF DraftsKept

LEMMA FinishKeepsDrafts ==
  ASSUME Inv, NEW h \in Handles, NEW token, NEW state \in States \ {"active"},
         NEW text, Finish(h, token, state, text), known' = known
  PROVE  DraftsKept
  <1> USE DEF Inv
  <1> DEFINE final == IF state = "completed" THEN Len(summaries) + 1 ELSE 0
             row == Closed(sessions[h], state, clock, final)
  <1>1. drafts' = Without({h}) /\ sessions' = [sessions EXCEPT ![h] = row]
    BY DEF Finish
  <1>2. row.state = state
    <2>1. sessions[h] \in SessionRows
      BY HandlesAre
    <2> QED
      BY <2>1 DEF Closed, SessionRows
  <1> HIDE DEF row
  <1>3. sessions'[h] = row /\ \A k \in Handles \ {h} : sessions'[k] = sessions[k]
    BY <1>1 DEF TypeOK, Handles
  <1>4. /\ DOMAIN drafts' = DOMAIN drafts \ {h}
        /\ \A k \in DOMAIN drafts' : drafts'[k] = drafts[k]
    BY <1>1, WithoutDrafts
  <1> QED
    BY <1>2, <1>3, <1>4 DEF DraftsKept, Active

LEMMA OthersKeepDrafts ==
  ASSUME Inv, [Next]_vars,
         ~(\E a \in Agents : \E expected \in {0, known[a].expected} : SaveProviderSessionDraft(a, expected))
  PROVE  DraftsKept
  <1> USE DEF Inv
  <1>1. CASE \E c \in Procs : TakeOver(c) \/ InsertSession(c) \/ FindClosed(c)
    BY <1>1, StartKeepsDrafts
  <1>2. CASE \E c \in Procs : EndProviderSession(c)
    <2>1. PICK c \in Procs : EndProviderSession(c)
      BY <1>2
    <2>2. procs[c].handle \in Handles /\ "completed" \in States \ {"active"}
      BY <2>1, SessionsAssumption DEF TypeOK, EndProviderSession, States
    <2> QED
      BY <2>1, <2>2, FinishKeepsDrafts DEF EndProviderSession
  <1>3. CASE \E c \in Procs, state \in States \ {"active"}, own \in BOOLEAN : EndDirect(c, state, own)
    <2>1. PICK c \in Procs, state \in States \ {"active"}, own \in BOOLEAN : EndDirect(c, state, own)
      BY <1>3
    <2>2. procs[c].handle \in Handles
      BY <2>1 DEF TypeOK, EndDirect
    <2>3. Finish(procs[c].handle, procs[c].token, state, IF own THEN written + 1 ELSE 0) /\ known' = known
      BY <2>1 DEF EndDirect
    <2> QED
      BY <2>2, <2>3, FinishKeepsDrafts
  <1>4. CASE \E c \in Procs : RenewProviderSession(c)
    <2>1. PICK c \in Procs : RenewProviderSession(c)
      BY <1>4
    <2>2. /\ Active(procs[c].handle) /\ UNCHANGED <<drafts, known>>
          /\ sessions' = [sessions EXCEPT ![procs[c].handle] = Renewed(sessions[procs[c].handle], procs[c].token)]
      BY <2>1 DEF RenewProviderSession
    <2>3. \A k \in Handles \ {procs[c].handle} : sessions'[k] = sessions[k]
      BY <2>2
    <2> QED
      BY <2>2, <2>3 DEF DraftsKept, Active
  <1>5. CASE \E c \in Procs : TellContext(c)
    BY <1>5 DEF TellContext, DraftsKept, Active
  <1>6. CASE UNCHANGED <<sessions, drafts, known>>
    BY <1>6 DEF DraftsKept, Active
  <1> QED
    BY <1>1, <1>2, <1>3, <1>4, <1>5, <1>6
    DEF Next, vars, Run, ReadCurrent, LeaveActive, Tick, SetBack, Stop

\* A draft written by an agent is later than the one it replaces, so that what
\* other agents go by is earlier.
LEMMA SaveKeepsDrafts ==
  ASSUME Inv, AgentsKnow, NEW a \in Agents, NEW expected \in {0, known[a].expected},
         SaveProviderSessionDraft(a, expected)
  PROVE  /\ AgentsKnow'
         /\ \A h \in DOMAIN drafts :
              h \in DOMAIN drafts' /\ (drafts'[h] = drafts[h] \/ drafts'[h].author = drafts[h].author)
  <1> USE DEF Inv
  <1> DEFINE h == known[a].handle
             at == IF h \in DOMAIN drafts THEN Monotonic(clock, drafts[h].updated) ELSE clock
             draft == [text |-> written + 1, updated |-> at, author |-> a]
  <1>1. /\ h \in Handles /\ h # 0 /\ Active(h)
        /\ h \in DOMAIN drafts => expected = drafts[h].updated
    <2>1. h \in Handles \cup {0}
      BY DEF TypeOK, KnownRows
    <2> QED
      BY <2>1 DEF SaveProviderSessionDraft, Expects
  <1>2. /\ drafts' = [k \in DOMAIN drafts \cup {h} |-> IF k = h THEN draft ELSE drafts[k]]
        /\ known' = [known EXCEPT ![a] = [known[a] EXCEPT !.expected = at]]
        /\ sessions' = sessions
    BY DEF SaveProviderSessionDraft
  <1>3. /\ clock \in Nat /\ clock >= 1
        /\ \A k \in DOMAIN drafts : drafts[k].updated \in Nat /\ drafts[k].updated >= 1
    BY SessionsAssumption DEF TypeOK, DraftRows
  <1>4. at \in Nat /\ at >= 1 /\ (h \in DOMAIN drafts => at > drafts[h].updated)
    BY <1>3 DEF Monotonic
  <1>5. draft.updated = at /\ draft.author = a
    OBVIOUS
  <1>6. \A b \in Agents : known[b].handle \in Handles \cup {0} /\ known[b].expected \in Nat
    BY DEF TypeOK, KnownRows
  <1>7. /\ known'[a].handle = h /\ known'[a].expected = at
        /\ \A b \in Agents \ {a} : known'[b] = known[b]
    BY <1>2 DEF TypeOK, KnownRows
  <1> HIDE DEF at, draft
  <1>8. /\ DOMAIN drafts' = DOMAIN drafts \cup {h} /\ drafts'[h] = draft
        /\ \A k \in DOMAIN drafts \ {h} : drafts'[k] = drafts[k]
    BY <1>2
  <1>9. h \in DOMAIN drafts => drafts[h].author = a
    <2>1. HAVE h \in DOMAIN drafts
    <2>2. expected = drafts[h].updated /\ expected = known[a].expected
      BY <1>1, <1>3, <2>1
    <2> QED
      BY <1>1, <2>1, <2>2 DEF AgentsKnow
  <1>10. ASSUME NEW b \in Agents, b # a, known[b].handle = h
         PROVE  known[b].expected < at
    <2>1. CASE h \in DOMAIN drafts
      <3>1. known[b].expected <= drafts[h].updated
        BY <1>1, <1>10, <2>1 DEF AgentsKnow
      <3> QED
        BY <1>3, <1>4, <1>6, <2>1, <3>1
    <2>2. CASE h \notin DOMAIN drafts
      <3>1. known[b].expected = 0
        BY <1>1, <1>10, <2>2 DEF AgentsKnow
      <3> QED
        BY <1>4, <3>1
    <2> QED
      BY <2>1, <2>2
  <1>11. AgentsKnow'
    <2> SUFFICES ASSUME NEW b \in Agents, known'[b].handle # 0
                 PROVE  LET k == known'[b].handle
                            e == known'[b].expected
                        IN IF k \in DOMAIN drafts'
                             THEN /\ e <= drafts'[k].updated
                                  /\ e = drafts'[k].updated => drafts'[k].author = b
                             ELSE sessions'[k].state = "active" => e = 0
      BY DEF AgentsKnow, Active
    <2>1. CASE b = a
      BY <1>4, <1>5, <1>7, <1>8, <2>1
    <2>2. CASE b # a /\ known[b].handle = h
      BY <1>4, <1>5, <1>6, <1>7, <1>8, <1>10, <2>2
    <2>3. CASE b # a /\ known[b].handle # h
      BY <1>2, <1>7, <1>8, <2>3 DEF AgentsKnow, Active
    <2> QED
      BY <2>1, <2>2, <2>3
  <1> QED
    BY <1>5, <1>8, <1>9, <1>11

LEMMA KeptDraftsAreKnown ==
  ASSUME Inv, Inv', AgentsKnow, DraftsKept
  PROVE  AgentsKnow'
  <1> SUFFICES ASSUME NEW a \in Agents, known'[a].handle # 0
               PROVE  LET h == known'[a].handle
                          e == known'[a].expected
                      IN IF h \in DOMAIN drafts'
                           THEN /\ e <= drafts'[h].updated
                                /\ e = drafts'[h].updated => drafts'[h].author = a
                           ELSE sessions'[h].state = "active" => e = 0
    BY DEF AgentsKnow, Active
  <1> DEFINE h == known'[a].handle
  <1>1. CASE known'[a].expected = 0
    <2>1. h \in DOMAIN drafts' => drafts'[h].updated \in Nat /\ drafts'[h].updated >= 1
      BY SessionsAssumption DEF Inv, TypeOK, DraftRows
    <2> QED
      BY <1>1, <2>1
  <1>2. CASE known'[a] = known[a]
    <2>1. h \in Handles
      BY <1>2 DEF Inv, TypeOK, KnownRows
    <2> QED
      BY <1>2, <2>1 DEF DraftsKept, AgentsKnow
  <1> QED
    BY <1>1, <1>2 DEF DraftsKept

\* A draft is replaced by its author only, as an agent that writes must name the
\* time of the draft it replaces, which the others never learn, and it is
\* dropped only when its session ends (SaveProviderSessionDraft).
THEOREM DraftsAreKept == Spec => DraftIsKept
  <1>1. Init => AgentsKnow
    BY DEF Init, AgentsKnow
  <1>2. ASSUME Inv, Inv', AgentsKnow, [Next]_vars
        PROVE  /\ AgentsKnow'
               /\ [\A h \in DOMAIN drafts :
                    \/ /\ h \in DOMAIN drafts'
                       /\ drafts'[h].text = drafts[h].text \/ drafts'[h].author = drafts[h].author
                    \/ h \notin DOMAIN drafts' /\ sessions'[h].state # "active"]_vars
    <2>1. CASE \E a \in Agents : \E expected \in {0, known[a].expected} : SaveProviderSessionDraft(a, expected)
      BY <1>2, <2>1, SaveKeepsDrafts
    <2>2. CASE ~(\E a \in Agents : \E expected \in {0, known[a].expected} : SaveProviderSessionDraft(a, expected))
      <3>1. DraftsKept
        BY <1>2, <2>2, OthersKeepDrafts
      <3>2. AgentsKnow'
        BY <1>2, <3>1, KeptDraftsAreKnown
      <3> QED
        BY <3>1, <3>2 DEF DraftsKept
    <2> QED
      BY <2>1, <2>2
  <1> QED
    BY <1>1, <1>2, Invariance, PTL DEF Spec, DraftIsKept

(***************************************************************************)
(* Refinement: what the rows mean for the ledger.                          *)
(***************************************************************************)

\* The summaries published so far read the same after a step that keeps identities.
LEMMA PublishedStays ==
  ASSUME Inv, summaries' = summaries,
         \A h \in Handles : h \in Handles' /\ sessions'[h].external = sessions[h].external
  PROVE  Published' = Published
  <1>1. \A i \in DOMAIN summaries : sessions'[summaries[i].handle].external = sessions[summaries[i].handle].external
    BY SummariesAre DEF Inv
  <1> QED
    BY <1>1 DEF Published

\* A step that closes rows without a summary and may add one.
Abandons(gone, more) ==
  /\ gone \subseteq Handles /\ Handles' = Handles \cup more
  /\ \A h \in Handles : sessions'[h].external = sessions[h].external
  /\ \A h \in gone : Active(h) /\ sessions'[h].state # "active"
  /\ \A h \in Handles \ gone : sessions'[h].state = "active" <=> sessions[h].state = "active"
  /\ \A n \in more : /\ n \notin Handles /\ sessions'[n].state = "active"
                     /\ sessions'[n].external \in Externals
                     /\ \A h \in Handles : sessions[h].external # sessions'[n].external
  /\ \A n, m \in more : n = m

\* It gives up their identities.
LEMMA ClosingAbandons ==
  ASSUME Inv, summaries' = summaries, NEW gone, NEW more, Abandons(gone, more)
  PROVE  Ledger!Next
  <1> USE DEF Abandons
  <1> DEFINE ids == {sessions[h].external : h \in gone}
             new == {sessions'[n].external : n \in more}
  <1>1. Published' = Published
    BY PublishedStays
  <1>2. \A h, k \in Handles : sessions[h].external = sessions[k].external => h = k
    BY DEF Inv, IdentityOnce
  <1>3. OpenOnes' = (OpenOnes \ ids) \cup new
    BY <1>2 DEF OpenOnes, Active
  <1>4. ClosedOnes' = ClosedOnes \cup ids
    BY <1>2 DEF ClosedOnes, Active
  <1>5. ids \subseteq OpenOnes /\ new \cap (OpenOnes \cup ClosedOnes) = {}
    BY DEF OpenOnes, ClosedOnes
  <1>6. \A h \in Handles : sessions[h].external \in Externals
    BY HandlesAre DEF Inv, SessionRows
  <1>7. ids \in SUBSET Externals /\ new \in {{}} \cup {{e} : e \in Externals}
    BY <1>6
  <1>8. Ledger!Abandon(ids, new)
    BY <1>1, <1>3, <1>4, <1>5 DEF Ledger!Abandon
  <1> QED
    BY <1>7, <1>8 DEF Ledger!Next

\* Every row as it is: nothing happens to the ledger.
LEMMA SameRowsSameLedger ==
  ASSUME Inv, summaries' = summaries, Handles' = Handles,
         \A h \in Handles : /\ sessions'[h].external = sessions[h].external
                            /\ sessions'[h].state = "active" <=> sessions[h].state = "active"
  PROVE  UNCHANGED Ledger!vars
  <1>1. Published' = Published
    BY PublishedStays
  <1>2. OpenOnes' = OpenOnes /\ ClosedOnes' = ClosedOnes
    BY DEF OpenOnes, ClosedOnes, Active
  <1> QED
    BY <1>1, <1>2 DEF Ledger!vars

LEMMA StartRefines ==
  ASSUME Inv, Inv', NEW c \in Procs, TakeOver(c) \/ InsertSession(c) \/ FindClosed(c)
  PROVE  Ledger!Next
  <1> USE DEF Inv
  <1>1. summaries' = summaries
    BY DEF TakeOver, InsertSession, FindClosed
  <1>2. \A gone \in Chosen(procs[c].id) : gone \in SUBSET Handles /\ \A h \in gone : Active(h)
    BY ChosenRunOut
  <1>3. CASE FindClosed(c)
    <2>1. PICK gone \in Chosen(procs[c].id) : sessions' = Reconciled(gone)
      BY <1>3 DEF FindClosed
    <2>2. /\ Handles' = Handles \cup {}
          /\ \A h \in gone : h \in Handles' /\ sessions'[h].external = sessions[h].external /\ sessions'[h].state # "active"
          /\ \A h \in Handles \ gone : h \in Handles' /\ sessions'[h] = sessions[h]
      BY <1>2, <2>1, ReconciledRows DEF Handles
    <2>3. Abandons(gone, {})
      BY <1>2, <2>1, <2>2, ReconciledRows DEF Abandons
    <2> QED
      BY <1>1, <2>3, ClosingAbandons
  <1>4. CASE TakeOver(c)
    <2>1. PICK gone \in Chosen(procs[c].id), k \in Handles :
            /\ Active(k) /\ Tokens \ KnownTokens(k) # {} /\ sessions[k].external = procs[c].id
            /\ sessions' = [Reconciled(gone) EXCEPT ![k] = Renewed(sessions[k], NewToken(k))]
      BY <1>4 DEF TakeOver
    <2> DEFINE row == Renewed(sessions[k], NewToken(k))
    <2>2. row.state = "active" /\ row.external = sessions[k].external
      <3>1. sessions[k] \in SessionRows /\ sessions[k].state = "active"
        BY <2>1, HandlesAre DEF Active
      <3> QED
        BY <3>1 DEF Renewed, SessionRows
    <2> HIDE DEF row
    <2>3. k \notin gone
      BY <2>1, ChosenRunOut
    <2>4. /\ Handles' = Handles \cup {} /\ sessions'[k] = row
          /\ \A h \in gone : h \in Handles' /\ sessions'[h].external = sessions[h].external /\ sessions'[h].state # "active"
          /\ \A h \in Handles \ (gone \cup {k}) : h \in Handles' /\ sessions'[h] = sessions[h]
      BY <1>2, <2>1, <2>3, ReconciledRows DEF Handles, row
    <2>5. \A h \in Handles \ gone : /\ h \in Handles' /\ sessions'[h].external = sessions[h].external
                                    /\ sessions'[h].state = "active" <=> sessions[h].state = "active"
      BY <2>1, <2>2, <2>4 DEF Active
    <2>6. Abandons(gone, {})
      BY <1>2, <2>1, <2>4, <2>5 DEF Abandons
    <2> QED
      BY <1>1, <2>6, ClosingAbandons
  <1>5. CASE InsertSession(c)
    <2> DEFINE n == Len(sessions) + 1
               row == NewSession(procs[c].id, FreshToken(n))
    <2>1. PICK gone \in Chosen(procs[c].id) : sessions' = Append(Reconciled(gone), row)
      BY <1>5 DEF InsertSession
    <2>2. procs[c].id \in Externals /\ \A h \in Handles : sessions[h].external # procs[c].id
      BY <1>5 DEF InsertSession, TypeOK
    <2>3. /\ Handles = 1 .. Len(sessions) /\ Len(sessions) \in Nat /\ n \notin Handles
          /\ row.external = procs[c].id /\ row.state = "active"
      BY HandlesAre DEF NewSession
    <2> HIDE DEF row
    <2>4. /\ Reconciled(gone) \in Seq(SessionRows) /\ Len(Reconciled(gone)) = Len(sessions)
          /\ \A h \in Handles : Reconciled(gone)[h].external = sessions[h].external
          /\ \A h \in Handles \ gone : Reconciled(gone)[h] = sessions[h]
          /\ \A h \in gone : Reconciled(gone)[h].state = "interrupted"
      BY <2>1, ReconciledRows
    <2>5. /\ DOMAIN sessions' = 1 .. n /\ sessions'[n] = row
          /\ \A h \in 1 .. Len(sessions) : sessions'[h] = Reconciled(gone)[h]
      BY <2>1, <2>3, <2>4
    <2>6. /\ Handles' = Handles \cup {n}
          /\ \A h \in gone : h \in Handles' /\ sessions'[h].external = sessions[h].external /\ sessions'[h].state # "active"
          /\ \A h \in Handles \ gone : h \in Handles' /\ sessions'[h] = sessions[h]
      BY <1>2, <2>1, <2>3, <2>4, <2>5 DEF Handles
    <2> HIDE DEF n
    <2>7. /\ \A h \in Handles : sessions'[h].external = sessions[h].external
          /\ \A h \in gone : Active(h) /\ sessions'[h].state # "active"
          /\ \A h \in Handles \ gone : sessions'[h].state = "active" <=> sessions[h].state = "active"
      BY <1>2, <2>1, <2>6
    <2>8. /\ n \notin Handles /\ sessions'[n].state = "active" /\ sessions'[n].external \in Externals
          /\ \A h \in Handles : sessions[h].external # sessions'[n].external
      BY <2>2, <2>3, <2>5
    <2>9. Abandons(gone, {n})
      BY <1>2, <2>1, <2>6, <2>7, <2>8 DEF Abandons
    <2> QED
      BY <1>1, <2>9, ClosingAbandons
  <1> QED
    BY <1>3, <1>4, <1>5

LEMMA FinishRefines ==
  ASSUME Inv, Inv', NEW h \in Handles, NEW token, NEW state \in States \ {"active"},
         NEW text \in 0 .. MaxTexts, Finish(h, token, state, text)
  PROVE  Ledger!Next
  <1> USE DEF Inv
  <1> DEFINE final == IF state = "completed" THEN Len(summaries) + 1 ELSE 0
             row == Closed(sessions[h], state, clock, final)
  <1>1. Active(h) /\ sessions[h] \in SessionRows
    BY HandlesAre DEF Finish, Closes
  <1>2. row.external = sessions[h].external /\ row.state = state
    <2> HIDE DEF final
    <2> QED
      BY <1>1 DEF Closed, SessionRows
  <1>3. sessions' = [sessions EXCEPT ![h] = row]
    BY DEF Finish
  <1> HIDE DEF row
  <1>4. /\ Handles' = Handles /\ sessions'[h] = row
        /\ \A k \in Handles \ {h} : sessions'[k] = sessions[k]
    BY <1>3 DEF TypeOK, Handles
  <1>5. CASE state # "completed"
    <2>1. summaries' = summaries
      BY <1>5 DEF Finish
    <2>2. Abandons({h}, {})
      BY <1>1, <1>2, <1>4 DEF Abandons
    <2> QED
      BY <2>1, <2>2, ClosingAbandons
  <1>6. CASE state = "completed"
    <2> DEFINE e == sessions[h].external
               n == Len(summaries) + 1
               said == IF text = 0 THEN drafts[h].text ELSE text
    <2>1. /\ summaries' = Append(summaries, [handle |-> h, text |-> said])
          /\ text = 0 => h \in DOMAIN drafts
      BY <1>6 DEF Finish
    <2>2. said \in 1 .. MaxTexts /\ e \in Externals
      <3>1. text = 0 => drafts[h].text \in 1 .. MaxTexts
        BY <2>1 DEF TypeOK, DraftRows
      <3>2. text # 0 => text \in 1 .. MaxTexts
        BY SessionsAssumption
      <3> QED
        BY <1>1, <3>1, <3>2 DEF SessionRows
    <2>3. Len(summaries) \in Nat /\ DOMAIN summaries = 1 .. Len(summaries)
      BY SummariesAre
    <2> HIDE DEF said
    <2>4. /\ DOMAIN summaries' = 1 .. n
          /\ \A i \in 1 .. Len(summaries) : summaries'[i] = summaries[i]
          /\ summaries'[n] = [handle |-> h, text |-> said]
      <3>1. summaries \in Seq(SummaryRows) /\ [handle |-> h, text |-> said] \in SummaryRows
        BY <2>2 DEF TypeOK, SummaryRows
      <3> QED
        BY <2>1, <2>3, <3>1
    <2>5. \A k \in Handles : sessions'[k].external = sessions[k].external
      BY <1>2, <1>4
    <2>6. Published' = Append(Published, [external |-> e, text |-> said])
      <3>1. \A i \in 1 .. Len(summaries) : Published'[i] = Published[i]
        BY <2>3, <2>4, <2>5, SummariesAre DEF Published
      <3>2. Published'[n] = [external |-> e, text |-> said]
        BY <2>3, <2>4, <2>5 DEF Published
      <3>3. DOMAIN Published' = 1 .. n /\ Published' = [i \in 1 .. n |-> Published'[i]]
        BY <2>4 DEF Published
      <3>4. Len(Published) = Len(summaries) /\ Published = [i \in 1 .. Len(summaries) |-> Published[i]]
        BY <2>3 DEF Published
      <3> HIDE DEF n
      <3>5. Append(Published, [external |-> e, text |-> said])
              = [i \in 1 .. Len(summaries) + 1 |->
                   IF i \in 1 .. Len(summaries) THEN Published[i] ELSE [external |-> e, text |-> said]]
        BY <2>3, <3>4
      <3> QED
        BY <2>3, <3>1, <3>2, <3>3, <3>5 DEF n
    <2>7. \A k, l \in Handles : sessions[k].external = sessions[l].external => k = l
      BY DEF IdentityOnce
    <2>8. OpenOnes' = OpenOnes \ {e} /\ e \in OpenOnes
      BY <1>1, <1>2, <1>4, <2>7 DEF OpenOnes, Active
    <2>9. ClosedOnes' = ClosedOnes \cup {e}
      BY <1>1, <1>2, <1>4, <2>7 DEF ClosedOnes, Active
    <2>10. Ledger!Complete(e, said)
      BY <2>6, <2>8, <2>9 DEF Ledger!Complete
    <2> QED
      BY <2>2, <2>10 DEF Ledger!Next
  <1> QED
    BY <1>5, <1>6

\* Provider sessions implement their ledger: each is opened and closed once, and a summary
\* is published once, by closing it, and never rewritten.
THEOREM LedgerIsImplemented == Spec => ImplementsLedger
  <1>1. ASSUME Init PROVE Ledger!Init
    <2>1. Inv
      BY <1>1, InitHasInv
    <2>2. OpenOnes \subseteq Externals
      BY <2>1, HandlesAre DEF Inv, OpenOnes, SessionRows
    <2>3. \A h \in Handles : Active(h)
      BY <1>1, SessionsAssumption DEF Init, Active, Handles, LegacySession, NewSession
    <2>4. ClosedOnes = {}
      BY <2>3 DEF ClosedOnes
    <2>5. Published = <<>>
      BY <1>1 DEF Init, Published
    <2> QED
      BY <2>2, <2>4, <2>5 DEF Ledger!Init
  <1>2. ASSUME Inv, Inv', [Next]_vars
        PROVE  [Ledger!Next]_(Ledger!vars)
    <2>1. CASE \E c \in Procs : TakeOver(c) \/ InsertSession(c) \/ FindClosed(c)
      BY <1>2, <2>1, StartRefines
    <2>2. CASE \E c \in Procs : EndProviderSession(c)
      <3>1. PICK c \in Procs : EndProviderSession(c)
        BY <2>2
      <3>2. procs[c].handle \in Handles /\ "completed" \in States \ {"active"} /\ 0 \in 0 .. MaxTexts
        BY <1>2, <3>1, SessionsAssumption DEF Inv, TypeOK, EndProviderSession, States
      <3> QED
        BY <1>2, <3>1, <3>2, FinishRefines DEF EndProviderSession
    <2>3. CASE \E c \in Procs, state \in States \ {"active"}, own \in BOOLEAN : EndDirect(c, state, own)
      <3>1. PICK c \in Procs, state \in States \ {"active"}, own \in BOOLEAN : EndDirect(c, state, own)
        BY <2>3
      <3> DEFINE text == IF own THEN written + 1 ELSE 0
      <3>2. procs[c].handle \in Handles
        BY <1>2, <3>1 DEF Inv, TypeOK, EndDirect
      <3>3. text \in 0 .. MaxTexts
        BY <1>2, <3>1, SessionsAssumption DEF Inv, TypeOK, EndDirect
      <3>4. Finish(procs[c].handle, procs[c].token, state, text)
        BY <3>1 DEF EndDirect
      <3> HIDE DEF text
      <3> QED
        BY <1>2, <3>1, <3>2, <3>3, <3>4, FinishRefines
    <2>4. CASE \E c \in Procs : RenewProviderSession(c)
      <3>1. PICK c \in Procs : RenewProviderSession(c)
        BY <2>4
      <3> DEFINE h == procs[c].handle
                 row == Renewed(sessions[h], procs[c].token)
      <3>2. h \in Handles /\ sessions[h] \in SessionRows
        BY <1>2, <3>1, HandlesAre DEF Inv, TypeOK, RenewProviderSession
      <3>3. row.external = sessions[h].external /\ row.state = sessions[h].state
        BY <3>2 DEF Renewed, SessionRows
      <3>4. sessions' = [sessions EXCEPT ![h] = row] /\ summaries' = summaries
        BY <3>1 DEF RenewProviderSession
      <3> HIDE DEF row, h
      <3>5. /\ Handles' = Handles /\ sessions'[h] = row
            /\ \A k \in Handles \ {h} : sessions'[k] = sessions[k]
        BY <1>2, <3>2, <3>4 DEF Inv, TypeOK, Handles
      <3> QED
        BY <1>2, <3>3, <3>4, <3>5, SameRowsSameLedger
    <2>5. CASE UNCHANGED <<sessions, summaries>>
      BY <1>2, <2>5, SameRowsSameLedger DEF Handles
    <2> QED
      BY <1>2, <2>1, <2>2, <2>3, <2>4, <2>5
      DEF Next, vars, Run, ReadCurrent, TellContext, LeaveActive, SaveProviderSessionDraft, Tick, SetBack, Stop
  <1> QED
    BY <1>1, <1>2, Invariance, PTL DEF Spec, ImplementsLedger, Ledger!Spec
=============================================================================
