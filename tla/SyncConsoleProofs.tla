------------------------- MODULE SyncConsoleProofs -------------------------
(***************************************************************************)
(* Theorems about the console and the device commands, for any number of   *)
(* devices, tokens, pages and overviews.  A posted confirmation is of an   *)
(* older or of the open page: what makes it count once is that the page of *)
(* the open confirmation has not been accepted yet, and that no page was   *)
(* written with a token that is still to be drawn.                         *)
(***************************************************************************)
EXTENDS SyncConsole, FiniteSetTheorems, TLAPS

\* The session is one a browser was sent, and a confirmation is open in no other.
Sessions ==
  /\ session # None => session \in held
  /\ confirmation # NoConfirmation => confirmation.session = session

\* Pages hold tokens that were drawn; the one of the open confirmation is unused.
Pages ==
  \A p \in pages :
    /\ p.token \in 1 .. drawn
    /\ p.token = confirmation.token => p.accepted = 0 /\ p.until = confirmation.expires

Commanded == command.at # "none" => command.device \in Devices

Inv ==
  /\ TypeOK /\ IsFiniteSet(renders)
  /\ Sessions
  /\ Pages
  /\ Commanded
  /\ CredentialsAreAccounted

Confirmations ==
  [token : Drawn, session : Drawn, device : Devices \cup {None}, expires : Times]
PageRows ==
  [token : Drawn, session : Drawn, device : Devices, until : Times, accepted : Nat]

\* A token that is drawn next is one of the tokens, and on no page.
LEMMA FreshIsNew ==
  ASSUME Inv, drawn < MaxTokens
  PROVE  /\ Fresh \in Drawn /\ Fresh # None
         /\ \A p \in pages : p.token # Fresh /\ p.token \in 1 .. Fresh
  BY ConsoleAssumption DEF Inv, TypeOK, Pages, Drawn, Fresh, None

\* No confirmation is of no page.
LEMMA NoneOpen ==
  /\ NoConfirmation \in Confirmations
  /\ Inv => \A p \in pages : p.token # NoConfirmation.token
  <1>1. NoConfirmation \in Confirmations
    BY ConsoleAssumption DEF NoConfirmation, Confirmations, Drawn, Times, None
  <1>2. ASSUME Inv PROVE \A p \in pages : p.token # NoConfirmation.token
    BY <1>2 DEF Inv, Pages, NoConfirmation, TypeOK, Drawn
  <1> QED
    BY <1>1, <1>2

\* An overview more, or one fewer.
LEMMA Rendering ==
  ASSUME Inv, NEW x \in [token : Drawn, replace : BOOLEAN]
  PROVE  /\ IsFiniteSet(renders \ {x}) /\ Cardinality(renders \ {x}) <= MaxRenders
         /\ renders \ {x} \subseteq [token : Drawn, replace : BOOLEAN]
         /\ Cardinality(renders) < MaxRenders =>
              /\ IsFiniteSet(renders \cup {x}) /\ Cardinality(renders \cup {x}) <= MaxRenders
              /\ renders \cup {x} \subseteq [token : Drawn, replace : BOOLEAN]
  <1>1. IsFiniteSet(renders) /\ Cardinality(renders) \in Nat /\ Cardinality(renders) <= MaxRenders
        /\ renders \subseteq [token : Drawn, replace : BOOLEAN] /\ MaxRenders \in Nat
    BY ConsoleAssumption, FS_CardinalityType DEF Inv, TypeOK
  <1>2. /\ IsFiniteSet(renders \cup {x})
        /\ Cardinality(renders \cup {x}) = IF x \in renders THEN Cardinality(renders)
                                           ELSE Cardinality(renders) + 1
    BY <1>1, FS_AddElement
  <1>3. /\ IsFiniteSet(renders \ {x})
        /\ Cardinality(renders \ {x}) = IF x \in renders THEN Cardinality(renders) - 1
                                        ELSE Cardinality(renders)
    BY <1>1, FS_RemoveElement
  <1>4. Cardinality(renders \ {x}) <= MaxRenders
    BY <1>1, <1>3
  <1>5. Cardinality(renders) < MaxRenders => Cardinality(renders \cup {x}) <= MaxRenders
    BY <1>1, <1>2
  <1> QED
    BY <1>1, <1>2, <1>3, <1>4, <1>5

LEMMA InitInv == Init => Inv
  <1> SUFFICES ASSUME Init PROVE Inv
    OBVIOUS
  <1>1. IsFiniteSet(renders) /\ Cardinality(renders) = 0
    BY FS_EmptySet DEF Init
  <1>2. now \in 0 .. MaxTime /\ drawn \in Drawn /\ session \in Drawn /\ 0 <= MaxRenders
    BY ConsoleAssumption DEF Init, Drawn, None
  <1>3. TypeOK
    BY <1>1, <1>2, NoneOpen DEF Init, TypeOK, NoCommand, None, Confirmations
  <1> QED
    BY <1>1, <1>3
    DEF Inv, Init, Sessions, Pages, Commanded, NoCommand, CredentialsAreAccounted

\* Sessions, overviews and confirmation pages: no device is touched.
LEMMA BrowserSteps ==
  ASSUME Inv,
         \/ Login \/ Restart \/ Tick
         \/ \E token \in held : \/ Overview(token) \/ Logout(token) \/ RejectConfirmation(token)
                                \/ \E d \in Devices : ConfirmRevoke(token, d)
         \/ \E x \in renders : RenderFails(x) \/ RenderOverview(x)
  PROVE  Inv'
  <1> USE DEF memory, browsers
  <1>0. TypeOK /\ IsFiniteSet(renders) /\ Sessions /\ Pages /\ Commanded /\ CredentialsAreAccounted
    BY DEF Inv
  <1>1. CASE Login
    <2>1. [token |-> Fresh, replace |-> TRUE] \in [token : Drawn, replace : BOOLEAN]
      BY <1>1, FreshIsNew DEF Login
    <2>2. TypeOK' /\ IsFiniteSet(renders')
      BY <1>0, <1>1, <2>1, FreshIsNew, Rendering DEF Login, TypeOK
    <2>3. Pages'
      BY <1>0, <1>1, FreshIsNew DEF Login, Pages
    <2> QED
      BY <1>0, <1>1, <2>2, <2>3 DEF Login, Inv, Sessions, Commanded, CredentialsAreAccounted
  <1>2. CASE Restart
    <2>1. IsFiniteSet({}) /\ Cardinality({}) = 0 /\ 0 <= MaxRenders /\ None \in Drawn
      BY FS_EmptySet, ConsoleAssumption DEF Drawn, None
    <2>2. TypeOK' /\ IsFiniteSet(renders')
      BY <1>0, <1>2, <2>1, NoneOpen DEF Restart, TypeOK, Confirmations
    <2>3. Pages'
      BY <1>0, <1>2, NoneOpen DEF Restart, Pages
    <2> QED
      BY <1>0, <1>2, <2>2, <2>3 DEF Restart, Inv, Sessions, Commanded, CredentialsAreAccounted
  <1>3. CASE Tick
    <2>1. TypeOK'
      BY <1>0, <1>3, ConsoleAssumption DEF Tick, TypeOK
    <2> QED
      BY <1>0, <1>3, <2>1 DEF Tick, Inv, Sessions, Pages, Commanded, CredentialsAreAccounted
  <1>4. ASSUME NEW token \in held, Overview(token) PROVE Inv'
    <2>1. [token |-> token, replace |-> FALSE] \in [token : Drawn, replace : BOOLEAN]
      BY <1>0 DEF TypeOK
    <2>2. TypeOK' /\ IsFiniteSet(renders')
      BY <1>0, <1>4, <2>1, Rendering DEF Overview, TypeOK
    <2> QED
      BY <1>0, <1>4, <2>2
      DEF Overview, Inv, Sessions, Pages, Commanded, CredentialsAreAccounted
  <1>5. ASSUME NEW token \in held, Logout(token) PROVE Inv'
    <2>1. TypeOK'
      BY <1>0, <1>5, NoneOpen, ConsoleAssumption DEF Logout, TypeOK, Confirmations, Drawn, None
    <2>2. Pages'
      BY <1>0, <1>5, NoneOpen DEF Logout, Pages
    <2> QED
      BY <1>0, <1>5, <2>1, <2>2 DEF Logout, Inv, Sessions, Commanded, CredentialsAreAccounted
  <1>6. ASSUME NEW token \in held, RejectConfirmation(token) PROVE Inv'
    <2>1. TypeOK'
      BY <1>0, <1>6, NoneOpen DEF RejectConfirmation, ConfirmationAfter, TypeOK, Confirmations
    <2>2. Pages'
      BY <1>0, <1>6, NoneOpen DEF RejectConfirmation, ConfirmationAfter, Pages
    <2> QED
      BY <1>0, <1>6, <2>1, <2>2
      DEF RejectConfirmation, ConfirmationAfter, Inv, Sessions, Commanded, CredentialsAreAccounted
  <1>7. ASSUME NEW token \in held, NEW d \in Devices, ConfirmRevoke(token, d) PROVE Inv'
    <2> DEFINE page == [token |-> Fresh, session |-> token, device |-> d,
                        until |-> now + Validity, accepted |-> 0]
    <2>1. now + Validity \in Times /\ token \in Drawn /\ token = session
      BY <1>0, <1>7, ConsoleAssumption DEF ConfirmRevoke, SessionMatches, TypeOK, Times
    <2>2. page \in PageRows
      BY <1>7, <2>1, FreshIsNew DEF PageRows, ConfirmRevoke
    <2>3. CASE /\ confirmation' = [token |-> Fresh, session |-> token, device |-> d,
                                   expires |-> now + Validity]
               /\ pages' = pages \cup {page}
      <3>1. confirmation' \in Confirmations
        BY <1>7, <2>1, <2>3, FreshIsNew DEF Confirmations, ConfirmRevoke
      <3>2. TypeOK'
        BY <1>0, <1>7, <2>2, <2>3, <3>1, FreshIsNew
        DEF ConfirmRevoke, TypeOK, Confirmations, PageRows
      <3>3. Pages'
        <4> SUFFICES ASSUME NEW p \in pages'
                     PROVE  /\ p.token \in 1 .. drawn'
                            /\ p.token = confirmation'.token =>
                                 p.accepted = 0 /\ p.until = confirmation'.expires
          BY DEF Pages
        <4>1. confirmation'.token = Fresh /\ confirmation'.expires = now + Validity /\ drawn' = Fresh
          BY <1>7, <2>3 DEF ConfirmRevoke
        <4>2. CASE p \in pages
          BY <1>7, <4>1, <4>2, FreshIsNew DEF ConfirmRevoke
        <4>3. CASE p = page
          <5>1. Fresh \in 1 .. Fresh
            BY <1>0, <1>7, ConsoleAssumption DEF Fresh, TypeOK, Drawn
          <5> QED
            BY <4>1, <4>3, <5>1
        <4> QED
          BY <2>3, <4>2, <4>3
      <3> QED
        BY <1>0, <1>7, <2>1, <2>3, <3>2, <3>3
        DEF ConfirmRevoke, Inv, Sessions, Commanded, CredentialsAreAccounted
    <2>4. CASE confirmation' = NoConfirmation /\ pages' = pages
      <3>1. TypeOK'
        BY <1>0, <1>7, <2>4, NoneOpen, FreshIsNew DEF ConfirmRevoke, TypeOK, Confirmations
      <3>2. Pages'
        BY <1>0, <1>7, <2>4, NoneOpen, FreshIsNew DEF ConfirmRevoke, Pages
      <3> QED
        BY <1>0, <1>7, <2>4, <3>1, <3>2
        DEF ConfirmRevoke, Inv, Sessions, Commanded, CredentialsAreAccounted
    <2> QED
      BY <1>7, <2>3, <2>4 DEF ConfirmRevoke
  <1>8. ASSUME NEW x \in renders, RenderFails(x) PROVE Inv'
    <2>1. TypeOK' /\ IsFiniteSet(renders')
      BY <1>0, <1>8, Rendering DEF RenderFails, TypeOK
    <2> QED
      BY <1>0, <1>8, <2>1
      DEF RenderFails, Inv, Sessions, Pages, Commanded, CredentialsAreAccounted
  <1>9. ASSUME NEW x \in renders, RenderOverview(x) PROVE Inv'
    <2>1. x.token \in Drawn /\ x \in [token : Drawn, replace : BOOLEAN]
      BY <1>0 DEF TypeOK
    <2>2. TypeOK' /\ IsFiniteSet(renders')
      BY <1>0, <1>9, <2>1, Rendering, NoneOpen DEF RenderOverview, TypeOK, Confirmations
    <2>3. Pages'
      BY <1>0, <1>9, NoneOpen DEF RenderOverview, Pages
    <2> QED
      BY <1>0, <1>9, <2>2, <2>3
      DEF RenderOverview, Inv, Sessions, Commanded, CredentialsAreAccounted
  <1> QED
    BY <1>1, <1>2, <1>3, <1>4, <1>5, <1>6, <1>7, <1>8, <1>9

\* The forms and commands that write the devices table.
LEMMA DeviceSteps ==
  ASSUME Inv,
         \/ \E token \in held, d \in Devices : IssueDevice(token, d)
         \/ \E p \in pages : CancelRevoke(p) \/ RevokeDevice(p)
         \/ \E d \in Devices : IssueByCommand(d) \/ RevokeByCommand(d)
         \/ PrintBearer \/ CaptureFailure \/ KillCommand
  PROVE  Inv'
  <1> USE DEF memory, browsers
  <1>0. TypeOK /\ IsFiniteSet(renders) /\ Sessions /\ Pages /\ Commanded /\ CredentialsAreAccounted
    BY DEF Inv
  <1>1. ASSUME NEW token \in held, NEW d \in Devices, IssueDevice(token, d) PROVE Inv'
    <2>1. TypeOK'
      BY <1>0, <1>1, FreshIsNew, NoneOpen
      DEF IssueDevice, MoveTo, Issued, TypeOK, Confirmations
    <2>2. Sessions'
      BY <1>0, <1>1 DEF IssueDevice, MoveTo, Sessions
    <2>3. Pages'
      BY <1>0, <1>1, FreshIsNew, NoneOpen DEF IssueDevice, MoveTo, Pages
    <2>4. CredentialsAreAccounted'
      BY <1>0, <1>1
      DEF IssueDevice, Issued, Unknown, Commits, CredentialsAreAccounted, TypeOK
    <2> QED
      BY <1>0, <1>1, <2>1, <2>2, <2>3, <2>4 DEF IssueDevice, Inv, Commanded
  <1>2. ASSUME NEW q \in pages, Accepts(q), pages' = Accepted(q)
        PROVE  /\ pages' \subseteq PageRows
               /\ \A p \in pages' : p.token \in 1 .. drawn
    <2>1. q \in PageRows /\ pages \subseteq PageRows
      BY <1>0 DEF TypeOK, PageRows
    <2>2. [q EXCEPT !.accepted = @ + 1] \in PageRows
          /\ [q EXCEPT !.accepted = @ + 1].token = q.token
      BY <2>1 DEF PageRows
    <2> QED
      BY <1>0, <1>2, <2>1, <2>2 DEF Accepted, Pages
  <1>3. ASSUME NEW q \in pages, CancelRevoke(q) PROVE Inv'
    <2>1. pages' \subseteq PageRows /\ (\A p \in pages' : p.token \in 1 .. drawn)
      BY <1>2, <1>3 DEF CancelRevoke
    <2>2. [token |-> q.session, replace |-> FALSE] \in [token : Drawn, replace : BOOLEAN]
      BY <1>0, <1>3 DEF TypeOK
    <2>3. TypeOK' /\ IsFiniteSet(renders')
      BY <1>0, <1>3, <2>1, <2>2, Rendering, NoneOpen
      DEF CancelRevoke, ConfirmationAfter, TypeOK, Confirmations, PageRows
    <2>4. Pages'
      BY <1>0, <1>3, <2>1 DEF CancelRevoke, ConfirmationAfter, NoConfirmation, Pages, TypeOK, Drawn
    <2> QED
      BY <1>0, <1>3, <2>3, <2>4
      DEF CancelRevoke, ConfirmationAfter, Inv, Sessions, Commanded, CredentialsAreAccounted
  <1>4. ASSUME NEW q \in pages, RevokeDevice(q) PROVE Inv'
    <2>1. pages' \subseteq PageRows /\ (\A p \in pages' : p.token \in 1 .. drawn)
      BY <1>2, <1>4 DEF RevokeDevice
    <2>2. q.device \in Devices /\ None \in Drawn
      BY <1>0, <1>4, ConsoleAssumption DEF TypeOK, Drawn, None
    <2>3. PICK takesEffect, confirmed, written \in BOOLEAN :
            /\ confirmed => takesEffect
            /\ takesEffect => Revocable(q.device)
            /\ devices' = IF takesEffect THEN Revoked(q.device) ELSE devices
            /\ \/ /\ confirmed
                  /\ session' = SessionAfter(written)
                  /\ held' = IF written THEN held \cup {Fresh} ELSE held
                  /\ told' = IF written THEN told \cup {q.device} ELSE told
               \/ /\ ~confirmed
                  /\ UNCHANGED <<session, held, told>>
      BY <1>4 DEF RevokeDevice
    <2>4. devices' \in [Devices -> {"free", "active", "revoked"}]
      BY <1>0, <2>2, <2>3 DEF Revoked, TypeOK
    <2>5. session' \in Drawn /\ held' \subseteq Drawn /\ told' \subseteq Devices
      BY <1>0, <1>4, <2>2, <2>3, FreshIsNew DEF SessionAfter, TypeOK, RevokeDevice
    <2>6. TypeOK' /\ IsFiniteSet(renders')
      BY <1>0, <1>4, <2>1, <2>4, <2>5, FreshIsNew, NoneOpen
      DEF RevokeDevice, ConfirmationAfter, TypeOK, Confirmations, PageRows
    <2>7. Sessions'
      BY <1>0, <1>4, <2>3 DEF RevokeDevice, ConfirmationAfter, SessionAfter, Sessions
    <2>8. Pages'
      <3>1. drawn' = drawn + 1 /\ drawn \in Nat /\ confirmation' = NoConfirmation
        BY <1>0, <1>4, ConsoleAssumption DEF RevokeDevice, ConfirmationAfter, Fresh, TypeOK, Drawn
      <3> QED
        BY <2>1, <3>1 DEF Pages, NoConfirmation
    <2>9. CredentialsAreAccounted'
      BY <1>0, <1>4, <2>2, <2>3 DEF RevokeDevice, Revoked, CredentialsAreAccounted, TypeOK
    <2> QED
      BY <1>0, <1>4, <2>6, <2>7, <2>8, <2>9 DEF RevokeDevice, Inv, Commanded
  <1>5. ASSUME NEW d \in Devices, IssueByCommand(d) PROVE Inv'
    <2>1. TypeOK'
      BY <1>0, <1>5 DEF IssueByCommand, Issued, TypeOK
    <2>2. Commanded' /\ Sessions' /\ Pages'
      BY <1>0, <1>5 DEF IssueByCommand, Commanded, Sessions, Pages
    <2>3. CredentialsAreAccounted'
      BY <1>0, <1>5 DEF IssueByCommand, Issued, Unknown, CredentialsAreAccounted, TypeOK
    <2> QED
      BY <1>0, <1>5, <2>1, <2>2, <2>3 DEF IssueByCommand, Inv
  <1>6. ASSUME NEW d \in Devices, RevokeByCommand(d) PROVE Inv'
    <2>1. TypeOK'
      BY <1>0, <1>6 DEF RevokeByCommand, Revoked, TypeOK
    <2>2. CredentialsAreAccounted'
      BY <1>0, <1>6 DEF RevokeByCommand, Revoked, CredentialsAreAccounted, TypeOK
    <2> QED
      BY <1>0, <1>6, <2>1, <2>2 DEF RevokeByCommand, Inv, Sessions, Pages, Commanded
  <1>7. CASE PrintBearer
    <2>1. command.device \in Devices
      BY <1>0, <1>7 DEF PrintBearer, Commanded
    <2>2. TypeOK'
      BY <1>0, <1>7, <2>1 DEF PrintBearer, TypeOK, NoCommand, None
    <2>3. CredentialsAreAccounted' /\ Commanded'
      BY <1>0, <1>7 DEF PrintBearer, CredentialsAreAccounted, Commanded, NoCommand, TypeOK
    <2> QED
      BY <1>0, <1>7, <2>2, <2>3 DEF PrintBearer, Inv, Sessions, Pages
  <1>8. CASE CaptureFailure
    <2>1. command.device \in Devices
      BY <1>0, <1>8 DEF CaptureFailure, Commanded
    <2>2. TypeOK'
      BY <1>0, <1>8, <2>1 DEF CaptureFailure, Revoked, TypeOK, NoCommand, None
    <2>3. CredentialsAreAccounted'
      BY <1>0, <1>8, <2>1 DEF CaptureFailure, Revoked, CredentialsAreAccounted, NoCommand, TypeOK
    <2> QED
      BY <1>0, <1>8, <2>2, <2>3
      DEF CaptureFailure, Inv, Sessions, Pages, Commanded, NoCommand
  <1>9. CASE KillCommand
    <2>1. command.device \in Devices
      BY <1>0, <1>9 DEF KillCommand, Commanded
    <2>2. TypeOK'
      BY <1>0, <1>9, <2>1 DEF KillCommand, TypeOK, NoCommand, None
    <2>3. CredentialsAreAccounted'
      BY <1>0, <1>9 DEF KillCommand, CredentialsAreAccounted, NoCommand
    <2> QED
      BY <1>0, <1>9, <2>2, <2>3 DEF KillCommand, Inv, Sessions, Pages, Commanded, NoCommand
  <1> QED
    BY <1>1, <1>3, <1>4, <1>5, <1>6, <1>7, <1>8, <1>9

LEMMA StepInv == Inv /\ [Next]_vars => Inv'
  <1> SUFFICES ASSUME Inv, [Next]_vars PROVE Inv'
    OBVIOUS
  <1>1. CASE Next
    BY <1>1, BrowserSteps, DeviceSteps DEF Next
  <1>2. CASE UNCHANGED vars
    BY <1>2
    DEF vars, memory, browsers, Inv, TypeOK, Sessions, Pages, Commanded, CredentialsAreAccounted
  <1> QED
    BY <1>1, <1>2

\* The console moves only to sessions whose page was written, however pages are lost and
\* forms posted again, and a confirmation is open only in the session that is
\* (syncadmin/server.go).
THEOREM SessionAlwaysHeld == Spec => []SessionIsHeld
  <1>1. Inv => SessionIsHeld
    BY DEF Inv, Sessions, SessionIsHeld
  <1> QED
    BY InitInv, StepInv, <1>1, PTL DEF Spec

\* No device is active whose bearer was neither shown nor is on its way nor known to need a
\* revocation, and what was reported as revoked is revoked (server.go, vgxness-syncd/main.go).
THEOREM CredentialsAlwaysAccounted == Spec => []CredentialsAreAccounted
  <1>1. Inv => CredentialsAreAccounted
    BY DEF Inv
  <1> QED
    BY InitInv, StepInv, <1>1, PTL DEF Spec

\* Whatever is posted again or late: a confirmation page counts once at most, in time, and in
\* the session it was written for (server.go, consumeConfirmation).
THEOREM ConfirmsOnce == Spec => ConfirmedOnce
  <1> DEFINE Counts == \A p \in pages :
               p \notin pages' => p.accepted = 0 /\ now < p.until /\ p.session = session
  <1>1. Inv /\ [Next]_vars => [Counts]_vars
    <2> SUFFICES ASSUME Inv, [Next]_vars, NEW p \in pages, p \notin pages'
                 PROVE  p.accepted = 0 /\ now < p.until /\ p.session = session
      OBVIOUS
    <2>1. PICK q \in pages : Accepts(q) /\ SessionMatches(q.session) /\ pages' = Accepted(q)
      <3>1. ~UNCHANGED pages /\ ~(pages \subseteq pages')
        OBVIOUS
      <3>2. CASE \E q \in pages : CancelRevoke(q) \/ RevokeDevice(q)
        BY <3>2 DEF CancelRevoke, RevokeDevice
      <3>3. CASE \E token \in held, d \in Devices : ConfirmRevoke(token, d)
        BY <3>1, <3>3 DEF ConfirmRevoke
      <3> QED
        BY <3>1, <3>2, <3>3
        DEF Next, vars, memory, browsers, Login, Overview, RenderFails, RenderOverview, Logout,
            IssueDevice, RejectConfirmation, IssueByCommand, PrintBearer, CaptureFailure,
            KillCommand, RevokeByCommand, Restart, Tick
    <2>2. p = q
      BY <2>1 DEF Accepted
    <2> QED
      BY <2>1, <2>2 DEF Inv, Pages, Accepts, SessionMatches
  <1> QED
    BY InitInv, StepInv, <1>1, PTL DEF Spec, ConfirmedOnce
=============================================================================
