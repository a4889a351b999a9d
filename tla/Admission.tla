----------------------------- MODULE Admission -----------------------------
(***************************************************************************)
(* The way of a request through the sync service (internal/syncapi/http.go *)
(* and cmd/vgxness-syncd/main.go): a slot of the process, the limit on     *)
(* bearers checked, the authentication in PostgreSQL, the limit and the    *)
(* permit of the device, the backend, and back.  A device may be revoked,  *)
(* a server of the process fail and the process be told to stop between    *)
(* any two steps.                                                          *)
(*                                                                         *)
(* A limiter reads its clock before it takes its lock: other requests run  *)
(* between the two.  What the backend does is SyncServer's and             *)
(* SyncReaders' matter; here it fails, finds the device revoked, which it  *)
(* checks again in the snapshot of a read or under the lock of a write, or *)
(* has something to answer, whatever happens to the device until then.  A  *)
(* request that finds no slot is answered 429 and changes nothing; /healthz is answered *)
(* before all of this.  Which path a request takes matters to nothing      *)
(* before the backend, so it is chosen there.                              *)
(***************************************************************************)
EXTENDS Naturals, FiniteSets, FiniteSetsExt, Functions

CONSTANTS
  Requests,         \* requests that may be under way at a time
  Devices,          \* devices that hold a credential of the service
  Stranger,         \* a well-formed bearer of no device
  Nobody,           \* no bearer, or one that does not parse
  Slots,            \* requests served at a time (64)
  DeviceSlots,      \* and of one device (4)
  GlobalPerWindow,  \* bearers checked per window (120)
  DevicePerWindow,  \* requests of one device per window (60)
  MaxDevices,       \* devices the limiter remembers (256)
  Window,           \* one minute
  MaxTime           \* bound: the clock, which starts at 1

ASSUME AdmissionAssumption ==
  /\ Stranger \notin Devices /\ Nobody \notin Devices /\ Stranger # Nobody
  /\ IsFiniteSet(Requests) /\ IsFiniteSet(Devices)
  /\ Slots \in Nat \ {0} /\ DeviceSlots \in Nat \ {0}
  /\ GlobalPerWindow \in Nat \ {0} /\ DevicePerWindow \in Nat \ {0}
  /\ MaxDevices \in Nat \ {0} /\ Window \in Nat \ {0} /\ MaxTime \in Nat \ {0}

VARIABLES
  now,       \* the clock
  revoked,   \* devices revoked in PostgreSQL
  late,      \* history: what each device was answered once it was revoked
  requests,  \* where each request is, and what its limiter's clock said
  slots,     \* requestLimits.global: slots taken
  permits,   \* requestLimits.devices: permits taken, for the devices with an entry
  global,    \* authenticationLimits.global: when its window began and what it used
  windows,   \* authenticationLimits.devices: the windows of the devices remembered
  checked,   \* history: bearers let through to PostgreSQL, and the time of the first
  admitted,  \* history: the same for each device that authenticated
  evicted,   \* history: how often the window of a device was forgotten
  main       \* what the process is doing, and whether it can still end cleanly

limits == <<global, windows, checked, admitted, evicted>>
vars == <<now, revoked, late, requests, slots, permits, limits, main>>

Running == main.at # "exited"
At(r, place) == Running /\ requests[r].at = place

Absent == [at |-> "absent", who |-> Nobody, read |-> 0]
Answered == [Absent EXCEPT !.at = "answered"]
NoWindow == [start |-> 0, used |-> 0, seen |-> 0]
NoCount == [first |-> 0, total |-> 0]

Goes(r, place) == requests' = [requests EXCEPT ![r].at = place, ![r].read = 0]
GoesWithClock(r, place) == requests' = [requests EXCEPT ![r].at = place, ![r].read = now]
Answer(r) == requests' = [requests EXCEPT ![r] = Answered]

Counted(c, at) ==
  [first |-> IF c.first = 0 \/ at < c.first THEN at ELSE c.first, total |-> c.total + 1]

----------------------------------------------------------------------------
(* A request takes a slot.  An unknown path or method (404, 405) or no     *)
(* bearer to speak of (401) ends it; for the others the first limiter      *)
(* reads its clock.                                                        *)

Arrive(r, who) ==
  /\ At(r, "absent") /\ main.at = "serving"
  /\ slots < Slots
  /\ slots' = slots + 1
  /\ \/ Answer(r)
     \/ /\ who # Nobody
        /\ requests' = [requests EXCEPT ![r] = [at |-> "counting", who |-> who, read |-> now]]
  /\ UNCHANGED <<now, revoked, late, permits, limits, main>>

----------------------------------------------------------------------------
(* The limits on authentication: fixed windows, each of which begins with  *)
(* the first request that finds the one before over.                       *)

Over(w, at) == w.start = 0 \/ at >= w.start + Window
Current(w, at) == IF Over(w, at) THEN [NoWindow EXCEPT !.start = at] ELSE w

AllowGlobal(r) ==
  LET at == requests[r].read
      w == Current(global, at)
  IN  /\ At(r, "counting")
      /\ \/ /\ w.used < GlobalPerWindow
            /\ global' = [w EXCEPT !.used = @ + 1]
            /\ checked' = Counted(checked, at)
            /\ Goes(r, "authenticating")
         \/ /\ w.used >= GlobalPerWindow
            /\ global' = w
            /\ Answer(r)
            /\ UNCHANGED checked
      /\ UNCHANGED <<now, revoked, late, slots, permits, windows, admitted, evicted, main>>

\* AuthenticateDevice, and the clock the device's limiter reads next.  PostgreSQL may fail.
Authenticate(r) ==
  /\ At(r, "authenticating")
  /\ \/ requests[r].who \in Devices \ revoked /\ GoesWithClock(r, "metering")
     \/ Answer(r)
  /\ UNCHANGED <<now, revoked, late, slots, permits, limits, main>>

\* The window evictDevice may forget: it goes through them in no order and takes each that
\* is over, or was seen before the last it took.
Victims(at) ==
  LET known == DOMAIN windows
      over == {d \in known : Over(windows[d], at)}
  IN  IF over = {}
      THEN {d \in known : \A e \in known : windows[d].seen <= windows[e].seen}
      ELSE over \cup {d \in known : \E e \in over : windows[d].seen < windows[e].seen}
Forgetting(d) == Restrict(windows, DOMAIN windows \ {d})

Full(d) == d \notin DOMAIN windows /\ Cardinality(DOMAIN windows) >= MaxDevices

\* Mutant: a window that is used up is begun again.
KnownUnlessUsedUp(d) ==
  IF d \in DOMAIN windows /\ windows[d].used < DevicePerWindow THEN windows[d] ELSE NoWindow
Known(d) == IF d \in DOMAIN windows THEN windows[d] ELSE NoWindow

AllowDevice(r) ==
  LET at == requests[r].read
      d == requests[r].who
      w == Current(Known(d), at)
  IN  /\ At(r, "metering")
      /\ \E v \in IF Full(d) THEN Victims(at) ELSE {d} :
           LET others == IF Full(d) THEN Forgetting(v) ELSE windows
           IN  /\ evicted' = IF Full(d) THEN [evicted EXCEPT ![v] = @ + 1] ELSE evicted
               /\ \/ /\ w.used < DevicePerWindow
                     /\ windows' = [e \in DOMAIN others \cup {d} |->
                                      IF e = d THEN [w EXCEPT !.used = @ + 1, !.seen = at]
                                      ELSE others[e]]
                     /\ admitted' = [admitted EXCEPT ![d] = Counted(@, at)]
                     /\ Goes(r, "admitted")
                  \/ /\ w.used >= DevicePerWindow
                     /\ windows' = others
                     /\ Answer(r)
                     /\ UNCHANGED admitted
      /\ UNCHANGED <<now, revoked, late, slots, permits, global, checked, main>>

----------------------------------------------------------------------------
(* A permit of the device, the backend, and the way back. *)

\* Mutant: every request makes the entry of its device anew.
EntryMadeAnew(d) == 0
Entry(d) == IF d \in DOMAIN permits THEN permits[d] ELSE 0

AcquireDevice(r) ==
  LET d == requests[r].who
  IN  /\ At(r, "admitted")
      /\ \/ /\ Entry(d) < DeviceSlots
            /\ permits' = [e \in DOMAIN permits \cup {d} |->
                             IF e = d THEN Entry(d) + 1 ELSE permits[e]]
            /\ Goes(r, "serving")
         \/ /\ Entry(d) >= DeviceSlots
            /\ Answer(r)
            /\ UNCHANGED permits
      /\ UNCHANGED <<now, revoked, late, slots, limits, main>>

\* The capabilities, answered without the backend; or the request has the wrong media type
\* or body, or the backend fails.
AnswerAlone(r) ==
  /\ At(r, "serving")
  /\ Goes(r, "leaving")
  /\ UNCHANGED <<now, revoked, late, slots, permits, limits, main>>

\* Mutant: the backend trusts the authentication of a while ago.
TrustsDevice(d) == TRUE
RequireDevice(d) == d \notin revoked

\* The snapshot of a pull, a discovery or a project's state, or the first mutation of a push
\* that is decided; a push of a revoked device is answered that all of it is rejected.
ServeSync(r) ==
  /\ At(r, "serving")
  /\ Goes(r, IF RequireDevice(requests[r].who) THEN "working" ELSE "leaving")
  /\ UNCHANGED <<now, revoked, late, slots, permits, limits, main>>

\* The page as the snapshot had it, or the results of what was decided; no lock is held any
\* longer.  Or what is left to do fails.
AnswerSync(r) ==
  LET d == requests[r].who
  IN  /\ At(r, "working")
      /\ Goes(r, "leaving")
      /\ \/ late' = IF d \in revoked THEN [late EXCEPT ![d] = @ + 1] ELSE late
         \/ UNCHANGED late
      /\ UNCHANGED <<now, revoked, slots, permits, limits, main>>

ReleaseDevice(r) ==
  LET d == requests[r].who
  IN  /\ Running /\ requests[r].at = "leaving"
      /\ permits' = IF permits[d] = 1 THEN Restrict(permits, DOMAIN permits \ {d})
                    ELSE [permits EXCEPT ![d] = @ - 1]
      /\ Answer(r)
      /\ UNCHANGED <<now, revoked, late, slots, limits, main>>

ReleaseGlobal(r) ==
  /\ At(r, "answered")
  /\ slots' = slots - 1
  /\ requests' = [requests EXCEPT ![r] = Absent]
  /\ UNCHANGED <<now, revoked, late, permits, limits, main>>

----------------------------------------------------------------------------

(* The process serves until a server of it ends or it is told to stop; then *)
(* it accepts nothing more and waits for what is under way.                 *)

\* The signal, or the error of a server: the process ends cleanly only if it was told to
\* stop and every server reported that it was closed.
BeginShutdown ==
  /\ main.at = "serving"
  /\ \E signalled, failed \in BOOLEAN :
       /\ signalled \/ failed
       /\ main' = [at |-> "shutting", clean |-> signalled /\ ~failed]
  /\ UNCHANGED <<now, revoked, late, requests, slots, permits, limits>>

Busy == \E r \in Requests : requests[r].at # "absent"

\* Nothing is under way: Shutdown has returned for every server.
Drained ==
  /\ main.at = "shutting" /\ ~Busy
  /\ main' = [main EXCEPT !.at = "exited"]
  /\ UNCHANGED <<now, revoked, late, requests, slots, permits, limits>>

\* Thirty seconds have passed: the connections are closed.
\* Mutant: the error of Shutdown is not looked at.
CleanAlthoughLate == main.clean
CleanWhenLate == FALSE
Deadline ==
  /\ main.at = "shutting" /\ Busy
  /\ main' = [at |-> "closing", clean |-> CleanWhenLate]
  /\ UNCHANGED <<now, revoked, late, requests, slots, permits, limits>>

\* The pool of connections closes once no request uses the database.
Exit ==
  /\ main.at = "closing"
  /\ \A r \in Requests : requests[r].at \notin {"authenticating", "serving", "working"}
  /\ main' = [main EXCEPT !.at = "exited"]
  /\ UNCHANGED <<now, revoked, late, requests, slots, permits, limits>>

----------------------------------------------------------------------------

Tick ==
  /\ Running /\ now < MaxTime
  /\ now' = now + 1
  /\ UNCHANGED <<revoked, late, requests, slots, permits, limits, main>>

RevokeDevice(d) ==
  /\ Running /\ d \notin revoked
  /\ revoked' = revoked \cup {d}
  /\ UNCHANGED <<now, late, requests, slots, permits, limits, main>>

Init ==
  /\ now = 1
  /\ revoked = {} /\ late = [d \in Devices |-> 0]
  /\ requests = [r \in Requests |-> Absent]
  /\ slots = 0
  /\ permits = [d \in {} |-> 0]
  /\ global = NoWindow
  /\ windows = [d \in {} |-> NoWindow]
  /\ checked = NoCount
  /\ admitted = [d \in Devices |-> NoCount]
  /\ evicted = [d \in Devices |-> 0]
  /\ main = [at |-> "serving", clean |-> FALSE]

Next ==
  \/ \E r \in Requests, who \in Devices \cup {Stranger, Nobody} : Arrive(r, who)
  \/ \E r \in Requests : AllowGlobal(r)
  \/ \E r \in Requests : Authenticate(r)
  \/ \E r \in Requests : AllowDevice(r)
  \/ \E r \in Requests : AcquireDevice(r)
  \/ \E r \in Requests : AnswerAlone(r)
  \/ \E r \in Requests : ServeSync(r)
  \/ \E r \in Requests : AnswerSync(r)
  \/ \E r \in Requests : ReleaseDevice(r)
  \/ \E r \in Requests : ReleaseGlobal(r)
  \/ \E d \in Devices : RevokeDevice(d)
  \/ BeginShutdown
  \/ Drained
  \/ Deadline
  \/ Exit
  \/ Tick

Spec == Init /\ [][Next]_vars

----------------------------------------------------------------------------
(* Properties *)

Places == {"absent", "counting", "authenticating", "metering", "admitted", "serving",
           "working", "leaving", "answered"}
Holding == {"serving", "working", "leaving"}
Windows == [start : 0 .. MaxTime, used : Nat, seen : 0 .. MaxTime]
Counts == [first : 0 .. MaxTime, total : Nat]

\* Every variable keeps its shape, and the limiter remembers no more devices than it may.
TypeOK ==
  /\ now \in 1 .. MaxTime
  /\ revoked \subseteq Devices /\ late \in [Devices -> Nat]
  /\ requests \in [Requests -> [at : Places, who : Devices \cup {Stranger, Nobody},
                                read : 0 .. MaxTime]]
  /\ slots \in 0 .. Slots
  /\ DOMAIN permits \subseteq Devices
  /\ \A d \in DOMAIN permits : permits[d] \in 1 .. DeviceSlots
  /\ global \in Windows
  /\ DOMAIN windows \subseteq Devices /\ Cardinality(DOMAIN windows) <= MaxDevices
  /\ \A d \in DOMAIN windows : windows[d] \in Windows
  /\ checked \in Counts
  /\ admitted \in [Devices -> Counts]
  /\ evicted \in [Devices -> Nat]
  /\ main \in [at : {"serving", "shutting", "closing", "exited"}, clean : BOOLEAN]

Holders(d) == {r \in Requests : requests[r].at \in Holding /\ requests[r].who = d}

\* Whatever way a request takes, what it took is given back: the slots taken are those of
\* the requests under way, and a device has an entry exactly while requests of it hold a
\* permit, which counts them.
PermitsBalance ==
  /\ TypeOK
  /\ slots = Cardinality({r \in Requests : requests[r].at # "absent"})
  /\ DOMAIN permits = {d \in Devices : Holders(d) # {}}
  /\ \A d \in DOMAIN permits : permits[d] = Cardinality(Holders(d))

Elapsed(c) == IF now > c.first THEN now - c.first ELSE 0
WindowsIn(c) == 1 + Elapsed(c) \div Window

\* However long requests stall between the clock and the lock, PostgreSQL is asked about no
\* more bearers than the windows since the first one allow, and no device is let through
\* more often than its windows allow, which begin anew when the limiter forgets it.
RatesHold ==
  /\ checked.total <= GlobalPerWindow * WindowsIn(checked)
  /\ \A d \in Devices :
       admitted[d].total <= DevicePerWindow * WindowsIn(admitted[d]) * (1 + evicted[d])

\* Once a device is revoked, only what it had begun to read or write is still answered: no
\* more than its permits, however many of its requests were authenticated before.
RevocationIsFelt == \A d \in Devices : late[d] <= DeviceSlots

\* The process reports a clean end only when every request it took was answered.
CleanEndLosesNothing == main.at = "exited" /\ main.clean => ~Busy
=============================================================================
