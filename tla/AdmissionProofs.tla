--------------------------- MODULE AdmissionProofs ---------------------------
(***************************************************************************)
(* Theorems about the admission of requests, for any number of requests    *)
(* and devices and any limits.  Slots and permits are counters beside the  *)
(* requests: the invariant says which requests each counts, so that every  *)
(* way back from every place gives back exactly what was taken.            *)
(***************************************************************************)
EXTENDS Admission, FiniteSetTheorems, TLAPS

Under == {r \in Requests : requests[r].at # "absent"}

\* Only a device comes past the authentication.
Authenticated ==
  \A r \in Requests :
    requests[r].at \in {"metering", "admitted"} \cup Holding => requests[r].who \in Devices

\* A process that closes its connections has given up a clean end.
ClosingIsLate == main.at = "closing" => ~main.clean

Inv ==
  /\ PermitsBalance
  /\ Authenticated
  /\ CleanEndLosesNothing
  /\ ClosingIsLate

RequestRows == [at : Places, who : Devices \cup {Stranger, Nobody}, read : 0 .. MaxTime]

\* The requests of a set are finitely many.
LEMMA FiniteRequests ==
  ASSUME NEW S, S \subseteq Requests
  PROVE  IsFiniteSet(S) /\ Cardinality(S) \in Nat /\ (Cardinality(S) = 0 <=> S = {})
  BY AdmissionAssumption, FS_Subset, FS_CardinalityType, FS_EmptySet

\* One element more, or one fewer.
LEMMA OneMore ==
  ASSUME NEW S, S \subseteq Requests, NEW r \in Requests, r \notin S
  PROVE  Cardinality(S \cup {r}) = Cardinality(S) + 1
  BY FiniteRequests, FS_AddElement

LEMMA OneFewer ==
  ASSUME NEW S, S \subseteq Requests, NEW r \in S
  PROVE  Cardinality(S \ {r}) = Cardinality(S) - 1
  BY FiniteRequests, FS_RemoveElement

MovesTo(r, place) ==
  \/ Goes(r, place)
  \/ GoesWithClock(r, place)
  \/ Answer(r) /\ place = "answered"

\* What a request does when it moves.
LEMMA Moving ==
  ASSUME TypeOK, NEW r \in Requests, NEW place \in Places,
         MovesTo(r, place)
  PROVE  /\ requests' \in [Requests -> RequestRows]
         /\ requests'[r].at = place
         /\ \A q \in Requests \ {r} : requests'[q] = requests[q]
         /\ place # "answered" => requests'[r].who = requests[r].who
  <1>1. requests[r] \in RequestRows /\ requests \in [Requests -> RequestRows]
        /\ 0 \in 0 .. MaxTime /\ now \in 0 .. MaxTime
    BY AdmissionAssumption DEF TypeOK, RequestRows
  <1>2. CASE Goes(r, place)
    BY <1>1, <1>2 DEF Goes, RequestRows
  <1>3. CASE GoesWithClock(r, place)
    BY <1>1, <1>3 DEF GoesWithClock, RequestRows
  <1>4. CASE Answer(r) /\ place = "answered"
    <2>1. Answered \in RequestRows /\ Answered.at = "answered"
      BY <1>1 DEF Answered, Absent, RequestRows, Places
    <2> QED
      BY <1>1, <1>4, <2>1 DEF Answer
  <1> QED
    BY <1>2, <1>3, <1>4 DEF MovesTo

\* A request that moves without taking or giving back a permit.
LEMMA KeepsBalance ==
  ASSUME PermitsBalance, NEW r \in Requests, NEW place \in Places, UNCHANGED <<slots, permits>>,
         MovesTo(r, place),
         requests[r].at # "absent", place # "absent",
         requests[r].at \in Holding <=> place \in Holding,
         TypeOK'
  PROVE  PermitsBalance'
  <1>0. "answered" \notin Holding
    BY DEF Holding
  <1>1. Under' = Under
    BY Moving DEF Under, PermitsBalance
  <1>2. ASSUME NEW d \in Devices PROVE Holders(d)' = Holders(d)
    <2>1. requests'[r].at = place /\ (\A q \in Requests \ {r} : requests'[q] = requests[q])
          /\ (place \in Holding => requests'[r].who = requests[r].who)
      BY <1>0, Moving DEF PermitsBalance
    <2> QED
      BY <2>1 DEF Holders
  <1> QED
    BY <1>1, <1>2 DEF PermitsBalance, Under, TypeOK

\* Where the requests, the slots and the permits stay.
LEMMA StaysBalanced ==
  ASSUME PermitsBalance, UNCHANGED <<requests, slots, permits>>, TypeOK'
  PROVE  PermitsBalance'
  BY DEF PermitsBalance, Holders

LEMMA InitInv == Init => Inv
  <1> SUFFICES ASSUME Init PROVE Inv
    OBVIOUS
  <1>1. NoWindow \in Windows /\ NoCount \in Counts /\ Absent \in RequestRows
    BY AdmissionAssumption DEF NoWindow, Windows, NoCount, Counts, Absent, RequestRows, Places
  <1>2. TypeOK
    <2>1. DOMAIN windows = {} /\ DOMAIN permits = {} /\ Cardinality({}) = 0
      BY FS_EmptySet DEF Init
    <2> QED
      BY <1>1, <2>1, AdmissionAssumption DEF Init, TypeOK, RequestRows
  <1>3. Under = {} /\ \A d \in Devices : Holders(d) = {}
    BY DEF Init, Under, Absent, Holders, Holding
  <1>4. slots = Cardinality(Under)
    BY <1>3, FS_EmptySet DEF Init
  <1>5. DOMAIN permits = {}
    BY DEF Init
  <1> QED
    BY <1>2, <1>3, <1>4, <1>5
    DEF Inv, PermitsBalance, Under, Authenticated, Absent, Holding, CleanEndLosesNothing, ClosingIsLate, Init

----------------------------------------------------------------------------

LEMMA ArriveInv ==
  ASSUME Inv, NEW r \in Requests, NEW who \in Devices \cup {Stranger, Nobody}, Arrive(r, who)
  PROVE  PermitsBalance' /\ Authenticated'
  <1>0. PermitsBalance /\ TypeOK /\ Authenticated
    BY DEF Inv, PermitsBalance
  <1>1. PICK x \in RequestRows : /\ requests' = [requests EXCEPT ![r] = x]
                                 /\ x.at \in {"counting", "answered"}
    <2>1. now \in 0 .. MaxTime /\ 0 \in 0 .. MaxTime
      BY <1>0, AdmissionAssumption DEF TypeOK
    <2>2. Answered \in RequestRows /\ Answered.at = "answered"
      BY <2>1 DEF Answered, Absent, RequestRows, Places
    <2>3. [at |-> "counting", who |-> who, read |-> now] \in RequestRows
      BY <2>1 DEF RequestRows, Places
    <2> QED
      BY <2>2, <2>3 DEF Arrive, Answer
  <1>2. requests \in [Requests -> RequestRows] /\ requests' \in [Requests -> RequestRows]
        /\ requests'[r] = x /\ (\A q \in Requests \ {r} : requests'[q] = requests[q])
    BY <1>0, <1>1 DEF TypeOK, RequestRows
  <1>3. requests[r].at = "absent" /\ slots < Slots /\ slots' = slots + 1
    BY DEF Arrive, At
  <1>4. TypeOK'
    BY <1>0, <1>2, <1>3, AdmissionAssumption DEF Arrive, limits, TypeOK, RequestRows
  <1>5. r \notin Under /\ Under' = Under \cup {r}
    BY <1>1, <1>2, <1>3 DEF Under
  <1>6. slots' = Cardinality(Under')
    BY <1>0, <1>3, <1>5, OneMore DEF PermitsBalance, Under
  <1>7. \A d \in Devices : Holders(d)' = Holders(d)
    BY <1>1, <1>2, <1>3 DEF Holders, Holding
  <1>8. permits' = permits
    BY DEF Arrive
  <1>9. Authenticated'
    BY <1>0, <1>1, <1>2 DEF Authenticated, Holding
  <1> QED
    BY <1>0, <1>4, <1>6, <1>7, <1>8, <1>9 DEF PermitsBalance, Under, TypeOK

\* The windows of the limiters keep their shape.
LEMMA Windowed ==
  ASSUME NEW w \in Windows \cup {NoWindow}, NEW at \in 0 .. MaxTime
  PROVE  /\ Current(w, at) \in Windows
         /\ [Current(w, at) EXCEPT !.used = @ + 1] \in Windows
         /\ [Current(w, at) EXCEPT !.used = @ + 1, !.seen = at] \in Windows
  <1>1. NoWindow \in Windows
    BY AdmissionAssumption DEF NoWindow, Windows
  <1>2. [NoWindow EXCEPT !.start = at] \in Windows
    BY <1>1 DEF Windows
  <1>3. Current(w, at) \in Windows
    BY <1>1, <1>2 DEF Current
  <1>4. \A c \in Windows : /\ [c EXCEPT !.used = @ + 1] \in Windows
                           /\ [c EXCEPT !.used = @ + 1, !.seen = at] \in Windows
    <2> TAKE c \in Windows
    <2>1. c.used + 1 \in Nat
      BY DEF Windows
    <2> QED
      BY <2>1 DEF Windows
  <1> QED
    BY <1>3, <1>4

LEMMA Counting ==
  ASSUME NEW c \in Counts, NEW at \in 0 .. MaxTime
  PROVE  Counted(c, at) \in Counts
  BY DEF Counted, Counts

LEMMA AllowGlobalInv ==
  ASSUME Inv, NEW r \in Requests, AllowGlobal(r)
  PROVE  PermitsBalance' /\ Authenticated'
  <1>0. PermitsBalance /\ TypeOK /\ Authenticated
    BY DEF Inv, PermitsBalance
  <1>1. PICK place \in {"authenticating", "answered"} : MovesTo(r, place)
    <2>1. Goes(r, "authenticating") \/ Answer(r)
      BY DEF AllowGlobal
    <2> QED
      BY <2>1 DEF MovesTo
  <1>2. requests[r].at = "counting" /\ place \in Places
    BY DEF AllowGlobal, At, Places
  <1>3. requests[r].read \in 0 .. MaxTime /\ global \in Windows /\ checked \in Counts
    BY <1>0 DEF TypeOK
  <1>4. global' \in Windows /\ checked' \in Counts
    <2> DEFINE w == Current(global, requests[r].read)
    <2>1. /\ w \in Windows /\ [w EXCEPT !.used = @ + 1] \in Windows
          /\ Counted(checked, requests[r].read) \in Counts
      BY <1>3, Windowed, Counting
    <2>2. /\ global' = w \/ global' = [w EXCEPT !.used = @ + 1]
          /\ checked' = checked \/ checked' = Counted(checked, requests[r].read)
      BY DEF AllowGlobal
    <2> HIDE DEF w
    <2> QED
      BY <1>3, <2>1, <2>2
  <1>5. TypeOK'
    BY <1>0, <1>1, <1>2, <1>4, Moving DEF AllowGlobal, TypeOK, RequestRows
  <1>6. Authenticated'
    BY <1>0, <1>1, <1>2, Moving DEF Authenticated, Holding
  <1> QED
    BY <1>0, <1>1, <1>2, <1>5, <1>6, KeepsBalance DEF AllowGlobal, Holding

LEMMA AuthenticateInv ==
  ASSUME Inv, NEW r \in Requests, Authenticate(r)
  PROVE  PermitsBalance' /\ Authenticated'
  <1>0. PermitsBalance /\ TypeOK /\ Authenticated
    BY DEF Inv, PermitsBalance
  <1>1. PICK place \in {"metering", "answered"} :
          MovesTo(r, place) /\ (place = "metering" => requests[r].who \in Devices)
    <2>1. \/ GoesWithClock(r, "metering") /\ requests[r].who \in Devices
          \/ Answer(r)
      BY DEF Authenticate
    <2> QED
      BY <2>1 DEF MovesTo
  <1>2. requests[r].at = "authenticating" /\ place \in Places
    BY DEF Authenticate, At, Places
  <1>3. TypeOK'
    BY <1>0, <1>1, <1>2, Moving DEF Authenticate, limits, TypeOK, RequestRows
  <1>4. Authenticated'
    BY <1>0, <1>1, <1>2, Moving DEF Authenticated, Holding
  <1> QED
    BY <1>0, <1>1, <1>2, <1>3, <1>4, KeepsBalance DEF Authenticate, Holding

LEMMA AllowDeviceInv ==
  ASSUME Inv, NEW r \in Requests, AllowDevice(r)
  PROVE  PermitsBalance' /\ Authenticated'
  <1> DEFINE at == requests[r].read
             d == requests[r].who
             w == Current(Known(d), at)
  <1>0. PermitsBalance /\ TypeOK /\ Authenticated
    BY DEF Inv, PermitsBalance
  <1>1. PICK place \in {"admitted", "answered"} : MovesTo(r, place)
    <2>1. Goes(r, "admitted") \/ Answer(r)
      BY DEF AllowDevice
    <2> QED
      BY <2>1 DEF MovesTo
  <1>2. requests[r].at = "metering" /\ place \in Places /\ d \in Devices
    BY <1>0 DEF AllowDevice, At, Places, Authenticated
  <1>3. PICK v \in IF Full(d) THEN Victims(at) ELSE {d} :
          LET others == IF Full(d) THEN Forgetting(v) ELSE windows
          IN  /\ evicted' = IF Full(d) THEN [evicted EXCEPT ![v] = @ + 1] ELSE evicted
              /\ \/ /\ w.used < DevicePerWindow
                    /\ windows' = [e \in DOMAIN others \cup {d} |->
                                     IF e = d THEN [w EXCEPT !.used = @ + 1, !.seen = at]
                                     ELSE others[e]]
                    /\ admitted' = [admitted EXCEPT ![d] = Counted(@, at)]
                 \/ /\ windows' = others
                    /\ UNCHANGED admitted
    BY DEF AllowDevice
  <1> DEFINE others == IF Full(d) THEN Forgetting(v) ELSE windows
  <1>4. at \in 0 .. MaxTime /\ DOMAIN windows \subseteq Devices
        /\ (\A e \in DOMAIN windows : windows[e] \in Windows)
        /\ IsFiniteSet(DOMAIN windows) /\ Cardinality(DOMAIN windows) \in Nat
        /\ Cardinality(DOMAIN windows) <= MaxDevices /\ MaxDevices \in Nat
    BY <1>0, AdmissionAssumption, FS_Subset, FS_CardinalityType DEF TypeOK
  <1>5. Full(d) => v \in DOMAIN windows
    BY <1>3 DEF Victims
  <1>6. /\ DOMAIN others \subseteq DOMAIN windows
        /\ \A e \in DOMAIN others : others[e] = windows[e]
        /\ Full(d) => DOMAIN others = DOMAIN windows \ {v}
    BY DEF Forgetting, Restrict
  <1>7. IsFiniteSet(DOMAIN others) /\ Cardinality(DOMAIN others) <= MaxDevices
        /\ Cardinality(DOMAIN others \cup {d}) <= MaxDevices
    <2>1. CASE Full(d)
      <3>1. /\ IsFiniteSet(DOMAIN others)
            /\ Cardinality(DOMAIN others) = Cardinality(DOMAIN windows) - 1
        BY <1>4, <1>5, <1>6, <2>1, FS_RemoveElement
      <3>2. Cardinality(DOMAIN others \cup {d}) = Cardinality(DOMAIN others) + 1
            \/ Cardinality(DOMAIN others \cup {d}) = Cardinality(DOMAIN others)
        BY <3>1, FS_AddElement
      <3> QED
        BY <1>4, <3>1, <3>2
    <2>2. CASE ~Full(d)
      <3>1. CASE d \in DOMAIN windows
        <4>1. DOMAIN others \cup {d} = DOMAIN windows /\ DOMAIN others = DOMAIN windows
          BY <2>2, <3>1
        <4> QED
          BY <1>4, <4>1
      <3>2. CASE d \notin DOMAIN windows /\ Cardinality(DOMAIN windows) < MaxDevices
        <4>1. DOMAIN others = DOMAIN windows
          BY <2>2
        <4>2. Cardinality(DOMAIN windows \cup {d}) = Cardinality(DOMAIN windows) + 1
          BY <1>4, <3>2, FS_AddElement
        <4> QED
          BY <1>4, <3>2, <4>1, <4>2
      <3> QED
        BY <1>4, <2>2, <3>1, <3>2 DEF Full
    <2> QED
      BY <2>1, <2>2
  <1>8. Known(d) \in Windows \cup {NoWindow}
    BY <1>4 DEF Known
  <1> HIDE DEF w, others
  <1>9. [w EXCEPT !.used = @ + 1, !.seen = at] \in Windows
    BY <1>4, <1>8, Windowed DEF w
  <1>10. /\ DOMAIN windows' \subseteq Devices /\ Cardinality(DOMAIN windows') <= MaxDevices
         /\ \A e \in DOMAIN windows' : windows'[e] \in Windows
    <2>1. CASE windows' = others
      BY <1>4, <1>6, <1>7, <2>1
    <2>2. CASE windows' = [e \in DOMAIN others \cup {d} |->
                             IF e = d THEN [w EXCEPT !.used = @ + 1, !.seen = at] ELSE others[e]]
      BY <1>2, <1>4, <1>6, <1>7, <1>9, <2>2
    <2> QED
      BY <1>3, <2>1, <2>2 DEF others, w
  <1>11. admitted' \in [Devices -> Counts]
    <2>1. admitted \in [Devices -> Counts]
      BY <1>0 DEF TypeOK
    <2>2. Counted(admitted[d], at) \in Counts
      BY <1>2, <1>4, <2>1, Counting
    <2> QED
      BY <1>2, <1>3, <2>1, <2>2
  <1>12. evicted' \in [Devices -> Nat]
    <2>1. evicted \in [Devices -> Nat]
      BY <1>0 DEF TypeOK
    <2>2. evicted' = evicted \/ evicted' = [evicted EXCEPT ![v] = @ + 1]
      BY <1>3
    <2> QED
      BY <1>4, <1>5, <2>1, <2>2, <1>3
  <1>13. TypeOK'
    BY <1>0, <1>1, <1>2, <1>10, <1>11, <1>12, Moving DEF AllowDevice, TypeOK, RequestRows
  <1>14. Authenticated'
    BY <1>0, <1>1, <1>2, Moving DEF Authenticated, Holding
  <1>15. UNCHANGED <<slots, permits>>
    BY DEF AllowDevice
  <1> QED
    BY <1>0, <1>1, <1>2, <1>13, <1>14, <1>15, KeepsBalance DEF Holding

----------------------------------------------------------------------------

LEMMA AcquireDeviceInv ==
  ASSUME Inv, NEW r \in Requests, AcquireDevice(r)
  PROVE  PermitsBalance' /\ Authenticated'
  <1>0. PermitsBalance /\ TypeOK /\ Authenticated
    BY DEF Inv, PermitsBalance
  <1>1. PICK d \in Devices : requests[r].who = d /\ requests[r].at = "admitted"
    BY <1>0 DEF AcquireDevice, At, Authenticated
  <1>2. CASE Answer(r) /\ UNCHANGED permits
    <2>1. MovesTo(r, "answered") /\ "answered" \in Places
      BY <1>2 DEF MovesTo, Places
    <2>2. TypeOK'
      BY <1>0, <1>2, <2>1, Moving DEF AcquireDevice, limits, TypeOK, RequestRows
    <2>3. Authenticated'
      BY <1>0, <2>1, Moving DEF Authenticated, Holding
    <2> QED
      BY <1>0, <1>1, <1>2, <2>1, <2>2, <2>3, KeepsBalance DEF AcquireDevice, Holding
  <1>3. CASE /\ Entry(d) < DeviceSlots
             /\ permits' = [e \in DOMAIN permits \cup {d} |->
                             IF e = d THEN Entry(d) + 1 ELSE permits[e]]
             /\ Goes(r, "serving")
    <2>1. /\ requests' \in [Requests -> RequestRows]
          /\ requests'[r].at = "serving" /\ requests'[r].who = d
          /\ \A q \in Requests \ {r} : requests'[q] = requests[q]
      BY <1>0, <1>1, <1>3, Moving DEF MovesTo, Places
    <2>2. Under' = Under
      BY <1>1, <2>1 DEF Under
    <2>3. Holders(d)' = Holders(d) \cup {r} /\ r \notin Holders(d)
      BY <1>1, <2>1 DEF Holders, Holding
    <2>4. \A e \in Devices \ {d} : Holders(e)' = Holders(e)
      BY <1>1, <2>1 DEF Holders, Holding
    <2>5. Cardinality(Holders(d)') = Cardinality(Holders(d)) + 1
      BY <2>3, OneMore DEF Holders
    <2>6. Entry(d) = Cardinality(Holders(d)) /\ Entry(d) \in Nat
      <3>1. CASE d \in DOMAIN permits
        BY <1>0, <3>1, AdmissionAssumption DEF PermitsBalance, TypeOK, Entry
      <3>2. CASE d \notin DOMAIN permits
        BY <1>0, <1>1, <3>2, FS_EmptySet DEF PermitsBalance, Entry
      <3> QED
        BY <3>1, <3>2
    <2>7. /\ DOMAIN permits' = DOMAIN permits \cup {d}
          /\ permits'[d] = Entry(d) + 1
          /\ \A e \in DOMAIN permits \ {d} : permits'[e] = permits[e]
      BY <1>3
    <2>8. /\ DOMAIN permits' \subseteq Devices
          /\ \A e \in DOMAIN permits' : permits'[e] \in 1 .. DeviceSlots
      BY <1>0, <1>1, <1>3, <2>6, <2>7, AdmissionAssumption DEF TypeOK
    <2>9. TypeOK'
      BY <1>0, <2>1, <2>8 DEF AcquireDevice, limits, TypeOK, RequestRows
    <2>10. DOMAIN permits' = {e \in Devices : Holders(e)' # {}}
      BY <1>0, <1>1, <2>3, <2>4, <2>7 DEF PermitsBalance
    <2>11. \A e \in DOMAIN permits' : permits'[e] = Cardinality(Holders(e)')
      BY <1>0, <2>4, <2>5, <2>6, <2>7 DEF PermitsBalance, TypeOK
    <2>12. slots' = Cardinality(Under')
      BY <1>0, <2>2 DEF PermitsBalance, Under, AcquireDevice
    <2>13. Authenticated'
      BY <1>0, <1>1, <2>1 DEF Authenticated
    <2> QED
      BY <2>9, <2>10, <2>11, <2>12, <2>13 DEF PermitsBalance, Under
  <1> QED
    BY <1>1, <1>2, <1>3 DEF AcquireDevice

LEMMA ServeInv ==
  ASSUME Inv, NEW r \in Requests, AnswerAlone(r) \/ ServeSync(r) \/ AnswerSync(r)
  PROVE  PermitsBalance' /\ Authenticated'
  <1>0. PermitsBalance /\ TypeOK /\ Authenticated
    BY DEF Inv, PermitsBalance
  <1>1. PICK place \in {"working", "leaving"} : MovesTo(r, place)
    BY DEF AnswerAlone, ServeSync, AnswerSync, MovesTo
  <1>2. requests[r].at \in {"serving", "working"} /\ place \in Places
    BY DEF AnswerAlone, ServeSync, AnswerSync, At, Places
  <1>3. TypeOK'
    <2>1. late' \in [Devices -> Nat]
      <3>1. requests[r].who \in Devices /\ late \in [Devices -> Nat]
        BY <1>0, <1>2 DEF Authenticated, Holding, TypeOK
      <3> QED
        BY <3>1 DEF AnswerAlone, ServeSync, AnswerSync
    <2> QED
      BY <1>0, <1>1, <1>2, <2>1, Moving
      DEF AnswerAlone, ServeSync, AnswerSync, limits, TypeOK, RequestRows
  <1>4. Authenticated'
    BY <1>0, <1>1, <1>2, Moving DEF Authenticated, Holding
  <1> QED
    BY <1>0, <1>1, <1>2, <1>3, <1>4, KeepsBalance DEF AnswerAlone, ServeSync, AnswerSync, Holding

LEMMA ReleaseDeviceInv ==
  ASSUME Inv, NEW r \in Requests, ReleaseDevice(r)
  PROVE  PermitsBalance' /\ Authenticated'
  <1>0. PermitsBalance /\ TypeOK /\ Authenticated
    BY DEF Inv, PermitsBalance
  <1>1. PICK d \in Devices : requests[r].who = d /\ requests[r].at = "leaving"
    BY <1>0 DEF ReleaseDevice, Authenticated, Holding
  <1>2. /\ requests' \in [Requests -> RequestRows]
        /\ requests'[r].at = "answered"
        /\ \A q \in Requests \ {r} : requests'[q] = requests[q]
    BY <1>0, Moving DEF ReleaseDevice, MovesTo, Places
  <1>3. Under' = Under
    BY <1>1, <1>2 DEF Under
  <1>4. Holders(d)' = Holders(d) \ {r} /\ r \in Holders(d)
    BY <1>1, <1>2 DEF Holders, Holding
  <1>5. \A e \in Devices \ {d} : Holders(e)' = Holders(e)
    BY <1>1, <1>2 DEF Holders, Holding
  <1>6. Cardinality(Holders(d)') = Cardinality(Holders(d)) - 1
    BY <1>4, OneFewer DEF Holders
  <1>7. /\ d \in DOMAIN permits /\ permits[d] = Cardinality(Holders(d))
        /\ permits[d] \in 1 .. DeviceSlots
    BY <1>0, <1>1, <1>4 DEF PermitsBalance, TypeOK
  <1>8. Holders(d)' = {} <=> permits[d] = 1
    BY <1>6, <1>7, FiniteRequests, AdmissionAssumption DEF Holders
  <1>9. /\ DOMAIN permits' = {e \in DOMAIN permits : e # d \/ permits[d] # 1}
        /\ permits[d] # 1 => permits'[d] = permits[d] - 1
        /\ \A e \in DOMAIN permits \ {d} : permits'[e] = permits[e]
    <2>1. CASE permits[d] = 1
      BY <1>1, <2>1 DEF ReleaseDevice, Restrict
    <2>2. CASE permits[d] # 1
      BY <1>1, <1>7, <2>2 DEF ReleaseDevice
    <2> QED
      BY <2>1, <2>2
  <1>10. /\ DOMAIN permits' \subseteq Devices
         /\ \A e \in DOMAIN permits' : permits'[e] \in 1 .. DeviceSlots
    BY <1>0, <1>7, <1>9, AdmissionAssumption DEF TypeOK
  <1>11. TypeOK'
    BY <1>0, <1>2, <1>10 DEF ReleaseDevice, limits, TypeOK, RequestRows
  <1>12. DOMAIN permits' = {e \in Devices : Holders(e)' # {}}
    BY <1>0, <1>1, <1>5, <1>7, <1>8, <1>9 DEF PermitsBalance
  <1>13. \A e \in DOMAIN permits' : permits'[e] = Cardinality(Holders(e)')
    BY <1>0, <1>5, <1>6, <1>7, <1>9 DEF PermitsBalance, TypeOK
  <1>14. slots' = Cardinality(Under')
    BY <1>0, <1>3 DEF PermitsBalance, Under, ReleaseDevice
  <1>15. Authenticated'
    BY <1>0, <1>2 DEF Authenticated, Holding
  <1> QED
    BY <1>11, <1>12, <1>13, <1>14, <1>15 DEF PermitsBalance, Under

LEMMA ReleaseGlobalInv ==
  ASSUME Inv, NEW r \in Requests, ReleaseGlobal(r)
  PROVE  PermitsBalance' /\ Authenticated'
  <1>0. PermitsBalance /\ TypeOK /\ Authenticated
    BY DEF Inv, PermitsBalance
  <1>1. requests[r].at = "answered"
    BY DEF ReleaseGlobal, At
  <1>2. Absent \in RequestRows /\ Absent.at = "absent"
    BY AdmissionAssumption DEF Absent, RequestRows, Places
  <1>3. /\ requests' \in [Requests -> RequestRows]
        /\ requests'[r].at = "absent"
        /\ \A q \in Requests \ {r} : requests'[q] = requests[q]
    BY <1>0, <1>2 DEF ReleaseGlobal, TypeOK, RequestRows
  <1>4. r \in Under /\ Under' = Under \ {r}
    BY <1>1, <1>3 DEF Under
  <1>5. Cardinality(Under') = Cardinality(Under) - 1 /\ Cardinality(Under') \in Nat
    BY <1>4, OneFewer, FiniteRequests DEF Under
  <1>6. slots' = Cardinality(Under') /\ slots' \in 0 .. Slots
    BY <1>0, <1>5, AdmissionAssumption DEF PermitsBalance, Under, ReleaseGlobal, TypeOK
  <1>7. \A d \in Devices : Holders(d)' = Holders(d)
    BY <1>1, <1>3 DEF Holders, Holding
  <1>8. permits' = permits /\ TypeOK'
    BY <1>0, <1>3, <1>6 DEF ReleaseGlobal, limits, TypeOK, RequestRows
  <1>9. Authenticated'
    BY <1>0, <1>3 DEF Authenticated, Holding
  <1> QED
    BY <1>0, <1>6, <1>7, <1>8, <1>9 DEF PermitsBalance, Under, TypeOK

\* The clock, revocations and the end of the process touch no request.
LEMMA OutsideInv ==
  ASSUME Inv,
         \/ \E d \in Devices : RevokeDevice(d)
         \/ BeginShutdown \/ Drained \/ Deadline \/ Exit \/ Tick
         \/ UNCHANGED vars
  PROVE  PermitsBalance' /\ Authenticated'
  <1>0. PermitsBalance /\ TypeOK /\ Authenticated
    BY DEF Inv, PermitsBalance
  <1>1. UNCHANGED <<requests, slots, permits>>
    BY DEF RevokeDevice, BeginShutdown, Drained, Deadline, Exit, Tick, vars
  <1>2. TypeOK'
    <2>1. now' \in 1 .. MaxTime /\ revoked' \subseteq Devices /\ UNCHANGED late
      BY <1>0, AdmissionAssumption
      DEF TypeOK, RevokeDevice, BeginShutdown, Drained, Deadline, Exit, Tick, vars
    <2>2. main' \in [at : {"serving", "shutting", "closing", "exited"}, clean : BOOLEAN]
      <3>1. \/ main' = main
            \/ main' = [main EXCEPT !.at = "exited"]
            \/ main' = [at |-> "closing", clean |-> FALSE]
            \/ \E clean \in BOOLEAN : main' = [at |-> "shutting", clean |-> clean]
        BY DEF RevokeDevice, BeginShutdown, Drained, Deadline, CleanWhenLate, Exit, Tick, vars
      <3>2. main \in [at : {"serving", "shutting", "closing", "exited"}, clean : BOOLEAN]
        BY <1>0 DEF TypeOK
      <3>3. CASE main' = main
        BY <3>2, <3>3
      <3>4. CASE main' = [main EXCEPT !.at = "exited"]
        BY <3>2, <3>4
      <3>5. CASE main' = [at |-> "closing", clean |-> FALSE]
        BY <3>5
      <3>6. CASE \E clean \in BOOLEAN : main' = [at |-> "shutting", clean |-> clean]
        BY <3>6
      <3> QED
        BY <3>1, <3>3, <3>4, <3>5, <3>6
    <2>3. UNCHANGED limits
      BY DEF RevokeDevice, BeginShutdown, Drained, Deadline, Exit, Tick, vars
    <2> QED
      BY <1>0, <1>1, <2>1, <2>2, <2>3 DEF TypeOK, limits
  <1> QED
    BY <1>0, <1>1, <1>2, StaysBalanced DEF Authenticated

----------------------------------------------------------------------------

\* A process that said it ended cleanly takes no more steps, and one that was late cannot say it.
LEMMA EndingInv == Inv /\ [Next]_vars => CleanEndLosesNothing' /\ ClosingIsLate'
  <1> SUFFICES ASSUME Inv, [Next]_vars
               PROVE  CleanEndLosesNothing' /\ ClosingIsLate'
    OBVIOUS
  <1>1. CASE BeginShutdown
    BY <1>1 DEF BeginShutdown, CleanEndLosesNothing, ClosingIsLate
  <1>2. CASE Drained
    BY <1>2 DEF Inv, PermitsBalance, TypeOK, Drained, Busy, CleanEndLosesNothing, ClosingIsLate
  <1>3. CASE Deadline
    BY <1>3 DEF Deadline, CleanWhenLate, CleanEndLosesNothing, ClosingIsLate
  <1>4. CASE Exit
    BY <1>4 DEF Inv, PermitsBalance, TypeOK, Exit, CleanEndLosesNothing, ClosingIsLate
  <1>5. CASE UNCHANGED main /\ Running
    BY <1>5 DEF Inv, Running, CleanEndLosesNothing, ClosingIsLate
  <1>6. CASE UNCHANGED vars
    BY <1>6 DEF vars, Inv, CleanEndLosesNothing, ClosingIsLate, Busy
  <1> QED
    BY <1>1, <1>2, <1>3, <1>4, <1>5, <1>6
    DEF Next, Arrive, AllowGlobal, Authenticate, AllowDevice, AcquireDevice, AnswerAlone, ServeSync,
        AnswerSync, ReleaseDevice, ReleaseGlobal, RevokeDevice, Tick, At

LEMMA StepInv == Inv /\ [Next]_vars => Inv'
  <1> SUFFICES ASSUME Inv, [Next]_vars PROVE Inv'
    OBVIOUS
  <1>1. PermitsBalance' /\ Authenticated'
    BY ArriveInv, AllowGlobalInv, AuthenticateInv, AllowDeviceInv, AcquireDeviceInv, ServeInv,
       ReleaseDeviceInv, ReleaseGlobalInv, OutsideInv
    DEF Next
  <1> QED
    BY <1>1, EndingInv DEF Inv

----------------------------------------------------------------------------

(***************************************************************************)
(* The rates.  What a limiter has let through is what it let through in    *)
(* windows it has forgotten, at most a full allowance for every window     *)
(* that can have begun, and what the window it knows and those before it   *)
(* account for.  A clock read early can move the time of the first request *)
(* back, and never the beginning of a window.                              *)
(***************************************************************************)

\* How many windows can have begun at time n.
WindowsAt(n, c) == 1 + (IF n > c.first THEN n - c.first ELSE 0) \div Window

Pace(w, c, limit) ==
  IF w.start = 0 THEN 0 ELSE limit * ((w.start - c.first) \div Window) + w.used

Paced(n, w, c, limit, forgotten) ==
  /\ w.used <= limit /\ w.start <= n /\ c.first <= n
  /\ w.start = 0 => w.used = 0
  /\ w.start # 0 => c.first # 0 /\ c.first <= w.start
  /\ c.first = 0 => c.total = 0
  /\ c.total <= (limit * WindowsAt(n, c)) * forgotten + Pace(w, c, limit)

Rates ==
  /\ \A r \in Requests :
       requests[r].at \in {"counting", "metering"} => requests[r].read \in 1 .. now
  /\ Paced(now, global, checked, GlobalPerWindow, 0)
  /\ \A d \in Devices : Paced(now, Known(d), admitted[d], DevicePerWindow, evicted[d])

LEMMA Quotient ==
  ASSUME NEW a \in Nat, NEW w \in Nat \ {0}
  PROVE  a \div w \in Nat /\ w * (a \div w) <= a /\ a < w * ((a \div w) + 1)
  OBVIOUS

LEMMA AtLeast ==
  ASSUME NEW a \in Nat, NEW w \in Nat \ {0}, NEW q \in Nat, w * q <= a
  PROVE  q <= a \div w
  <1> DEFINE p == a \div w
  <1>1. p \in Nat /\ w * p <= a /\ a < w * (p + 1)
    BY Quotient
  <1> HIDE DEF p
  <1>2. ASSUME p + 1 <= q PROVE FALSE
    <2>1. w * (p + 1) <= w * q
      BY <1>1, <1>2
    <2> QED
      BY <1>1, <2>1
  <1>3. q <= p
    BY <1>1, <1>2
  <1> QED
    BY <1>3 DEF p

\* More time, no fewer windows; a window's time more, one window more.
LEMMA Longer ==
  ASSUME NEW a \in Nat, NEW b \in Nat
  PROVE  /\ a <= b => a \div Window <= b \div Window
         /\ a + Window <= b => (a \div Window) + 1 <= b \div Window
         /\ a \div Window \in Nat
  <1> DEFINE p == a \div Window
  <1>0. Window \in Nat \ {0}
    BY AdmissionAssumption
  <1>1. p \in Nat /\ Window * p <= a
    BY <1>0, Quotient
  <1>2. Window * (p + 1) = Window * p + Window
    BY <1>0, <1>1
  <1> HIDE DEF p
  <1>3. a <= b => p <= b \div Window
    BY <1>0, <1>1, AtLeast
  <1>4. a + Window <= b => p + 1 <= b \div Window
    <2> SUFFICES ASSUME a + Window <= b PROVE p + 1 <= b \div Window
      OBVIOUS
    <2>1. Window * (p + 1) <= b
      BY <1>0, <1>1, <1>2
    <2> QED
      BY <1>0, <1>1, <2>1, AtLeast
  <1> QED
    BY <1>1, <1>3, <1>4 DEF p

LEMMA Times ==
  ASSUME NEW l \in Nat, NEW a \in Nat, NEW b \in Nat
  PROVE  /\ l * a \in Nat /\ l * (a + 1) = l * a + l
         /\ a <= b => l * a <= l * b
  OBVIOUS

\* As time passes and as the first request turns out to have been earlier, more windows
\* can have begun.
LEMMA WindowsGrow ==
  ASSUME NEW n \in Nat, NEW m \in Nat, n <= m, NEW c \in Counts, NEW e \in Counts,
         e.first <= c.first
  PROVE  /\ WindowsAt(n, c) \in Nat /\ WindowsAt(m, e) \in Nat
         /\ WindowsAt(n, c) <= WindowsAt(m, e)
  <1> DEFINE a == IF n > c.first THEN n - c.first ELSE 0
             b == IF m > e.first THEN m - e.first ELSE 0
  <1>1. a \in Nat /\ b \in Nat /\ a <= b
    BY AdmissionAssumption DEF Counts
  <1> HIDE DEF a, b
  <1>2. a \div Window <= b \div Window /\ a \div Window \in Nat /\ b \div Window \in Nat
    BY <1>1, Longer
  <1>3. WindowsAt(n, c) = 1 + a \div Window /\ WindowsAt(m, e) = 1 + b \div Window
    BY DEF WindowsAt, a, b
  <1> QED
    BY <1>2, <1>3

\* What was let through is within the windows that can have begun.
LEMMA PaceBounded ==
  ASSUME NEW n \in Nat, NEW w \in Windows, NEW c \in Counts, NEW limit \in Nat, NEW f \in Nat,
         Paced(n, w, c, limit, f)
  PROVE  /\ Pace(w, c, limit) <= limit * WindowsAt(n, c)
         /\ Pace(w, c, limit) \in Nat
         /\ c.total <= (limit * WindowsAt(n, c)) * (f + 1)
  <1> DEFINE N == WindowsAt(n, c)
             L == limit * N
             P == Pace(w, c, limit)
  <1>1. N \in Nat
    <2>1. n <= n /\ c.first <= c.first
      BY AdmissionAssumption DEF Counts
    <2> QED
      BY <2>1, WindowsGrow
  <1>2. P <= L /\ P \in Nat
    <2>1. CASE w.start = 0
      BY <1>1, <2>1, Times DEF Pace
    <2>2. CASE w.start # 0
      <3> DEFINE a == w.start - c.first
                 b == n - c.first
      <3>1. /\ a \in Nat /\ b \in Nat /\ a <= b
            /\ b = IF n > c.first THEN n - c.first ELSE 0
        BY <2>2 DEF Paced, Windows, Counts
      <3> HIDE DEF a, b
      <3>2. a \div Window <= b \div Window /\ a \div Window \in Nat /\ b \div Window \in Nat
        BY <3>1, Longer
      <3>3. /\ limit * (a \div Window) <= limit * (b \div Window)
            /\ limit * (a \div Window) \in Nat /\ limit * (b \div Window) \in Nat
            /\ limit * ((b \div Window) + 1) = limit * (b \div Window) + limit
        BY <3>2, Times
      <3>4. N = (b \div Window) + 1
        BY <3>1, <3>2 DEF WindowsAt
      <3>5. P = limit * (a \div Window) + w.used
        BY <2>2 DEF Pace, a
      <3>6. w.used <= limit /\ w.used \in Nat
        BY DEF Paced, Windows
      <3> HIDE DEF N, P
      <3> QED
        BY <3>3, <3>4, <3>5, <3>6
    <2> QED
      BY <2>1, <2>2
  <1> HIDE DEF N, P
  <1>3. L \in Nat
    BY <1>1, Times
  <1>4. c.total <= L * f + P
    BY DEF Paced, N, P
  <1> HIDE DEF L
  <1>5. L * (f + 1) = L * f + L /\ L * f \in Nat
    BY <1>3, Times
  <1>6. c.total <= L * (f + 1)
    BY <1>2, <1>3, <1>4, <1>5 DEF Counts
  <1> QED
    BY <1>2, <1>6 DEF L, N, P

\* A request that is let through is accounted for, however early its clock was read.
LEMMA Admitting ==
  ASSUME NEW n \in Nat, NEW w \in Windows, NEW c \in Counts, NEW limit \in Nat \ {0},
         NEW f \in Nat, NEW t \in 1 .. n, t \in 0 .. MaxTime, Paced(n, w, c, limit, f),
         Current(w, t).used < limit,
         NEW x \in Windows, x.start = Current(w, t).start, x.used = Current(w, t).used + 1
  PROVE  Paced(n, x, Counted(c, t), limit, f)
  <1> DEFINE e == Counted(c, t)
             L == (limit * WindowsAt(n, c)) * f
             M == (limit * WindowsAt(n, e)) * f
  <1>1. /\ c.first \in Nat /\ c.total \in Nat /\ w.start \in Nat /\ w.used \in Nat
        /\ x.start \in Nat /\ x.used \in Nat /\ Window \in Nat \ {0}
    BY AdmissionAssumption DEF Counts, Windows
  <1>2. /\ e \in Counts /\ e.total = c.total + 1 /\ e.first \in Nat /\ e.first # 0
        /\ e.first <= t /\ e.first <= n /\ t <= n
        /\ c.first # 0 => e.first <= c.first
        /\ c.first # 0 /\ c.first <= t => e.first = c.first
    BY <1>1, Counting DEF Counted
  <1>3. /\ L \in Nat /\ M \in Nat
        /\ c.first # 0 => L <= M
    <2> DEFINE N == WindowsAt(n, c)
               O == WindowsAt(n, e)
    <2>1. n <= n /\ c.first <= c.first /\ e.first <= e.first
      BY <1>1, <1>2
    <2>2. N \in Nat /\ O \in Nat /\ (c.first # 0 => N <= O)
      BY <1>2, <2>1, WindowsGrow
    <2> HIDE DEF N, O
    <2>3. limit * N \in Nat /\ limit * O \in Nat /\ (c.first # 0 => limit * N <= limit * O)
      BY <2>2, Times
    <2>4. /\ f * (limit * N) \in Nat /\ f * (limit * O) \in Nat
          /\ c.first # 0 => f * (limit * N) <= f * (limit * O)
      BY <2>3, Times
    <2>5. L = f * (limit * N) /\ M = f * (limit * O)
      BY <2>3 DEF N, O
    <2> QED
      BY <2>4, <2>5
  <1>4. /\ w.used <= limit /\ w.start <= n
        /\ w.start = 0 => w.used = 0
        /\ w.start # 0 => c.first # 0 /\ c.first <= w.start
        /\ c.first = 0 => c.total = 0
        /\ c.total <= L + Pace(w, c, limit)
    BY DEF Paced
  <1>5. x.used <= limit /\ x.start <= n /\ x.start # 0 /\ e.first <= x.start
    <2>1. CASE Over(w, t)
      BY <1>1, <1>2, <2>1 DEF Current, NoWindow
    <2>2. CASE ~Over(w, t)
      BY <1>1, <1>2, <1>4, <2>2 DEF Current, Over
    <2> QED
      BY <2>1, <2>2
  <1> DEFINE q == (x.start - e.first) \div Window
  <1>6. Pace(x, e, limit) = limit * q + x.used
    BY <1>5 DEF Pace
  <1>7. q \in Nat /\ limit * q \in Nat
    <2>1. x.start - e.first \in Nat
      BY <1>1, <1>2, <1>5
    <2>2. q \in Nat
      BY <2>1, Longer
    <2> QED
      BY <2>2, Times
  <1>8. c.total + 1 <= M + limit * q + x.used
    <2>1. CASE w.start = 0
      <3>1. Pace(w, c, limit) = 0 /\ x.used = 1
        BY <2>1 DEF Pace, Current, Over, NoWindow
      <3> HIDE DEF L, M, q, e
      <3> QED
        BY <1>1, <1>3, <1>4, <1>7, <3>1
    <2>2. CASE w.start # 0
      <3> DEFINE p == (w.start - c.first) \div Window
      <3>1. w.start - c.first \in Nat /\ x.start - e.first \in Nat
        BY <1>1, <1>2, <1>4, <1>5, <2>2
      <3>2. p \in Nat /\ limit * p \in Nat /\ limit * (p + 1) = limit * p + limit
        BY <3>1, Longer, Times
      <3>3. Pace(w, c, limit) = limit * p + w.used
        BY <2>2 DEF Pace
      <3>4. c.total <= L + limit * p + w.used
        <4> HIDE DEF L, p
        <4> QED
          BY <1>1, <1>3, <1>4, <3>2, <3>3
      <3>5. CASE Over(w, t)
        <4>1. x.start = t /\ x.used = 1 /\ w.start + Window <= t
          BY <1>1, <2>2, <3>5 DEF Current, Over, NoWindow
        <4>2. e.first = c.first
          BY <1>1, <1>2, <1>4, <2>2, <4>1
        <4>3. (w.start - c.first) + Window <= x.start - e.first
          BY <1>1, <1>2, <4>1, <4>2
        <4>4. p + 1 <= q
          BY <3>1, <4>3, Longer
        <4> HIDE DEF p, q
        <4>5. limit * (p + 1) <= limit * q
          BY <1>7, <3>2, <4>4, Times
        <4> HIDE DEF L, M, e
        <4> QED
          BY <1>1, <1>3, <1>4, <1>7, <2>2, <3>4, <3>2, <4>1, <4>5
      <3>6. CASE ~Over(w, t)
        <4>1. x.start = w.start /\ x.used = w.used + 1
          BY <3>6 DEF Current
        <4>2. w.start - c.first <= x.start - e.first
          BY <1>1, <1>2, <1>4, <2>2, <4>1
        <4>3. p <= q
          BY <3>1, <4>2, Longer
        <4> HIDE DEF p, q
        <4>4. limit * p <= limit * q
          BY <1>7, <3>2, <4>3, Times
        <4> HIDE DEF L, M, e
        <4> QED
          BY <1>1, <1>3, <1>4, <1>7, <2>2, <3>4, <3>2, <4>1, <4>4
      <3> QED
        BY <3>5, <3>6
    <2> QED
      BY <2>1, <2>2
  <1> HIDE DEF q
  <1>9. e.total <= M + Pace(x, e, limit)
    <2> HIDE DEF M, e
    <2> QED
      BY <1>1, <1>2, <1>3, <1>6, <1>7, <1>8
  <1> QED
    BY <1>2, <1>5, <1>9 DEF Paced

\* Time passes.
LEMMA Passing ==
  ASSUME NEW n \in Nat, NEW m \in Nat, n <= m, NEW w \in Windows, NEW c \in Counts,
         NEW limit \in Nat, NEW f \in Nat, Paced(n, w, c, limit, f)
  PROVE  Paced(m, w, c, limit, f)
  <1> DEFINE N == WindowsAt(n, c)
             O == WindowsAt(m, c)
  <1>1. c.first \in Nat /\ c.total \in Nat /\ w.start \in Nat /\ c.first <= c.first
    BY AdmissionAssumption DEF Counts, Windows
  <1>2. N \in Nat /\ O \in Nat /\ N <= O
    BY <1>1, WindowsGrow
  <1>3. Pace(w, c, limit) \in Nat
    BY PaceBounded
  <1>4. c.total <= (limit * N) * f + Pace(w, c, limit)
    BY DEF Paced
  <1> HIDE DEF N, O
  <1>5. limit * N \in Nat /\ limit * O \in Nat /\ limit * N <= limit * O
    BY <1>2, Times
  <1>6. /\ f * (limit * N) \in Nat /\ f * (limit * O) \in Nat
        /\ f * (limit * N) <= f * (limit * O)
    BY <1>5, Times
  <1>7. (limit * N) * f = f * (limit * N) /\ (limit * O) * f = f * (limit * O)
    BY <1>5
  <1>8. c.total <= (limit * O) * f + Pace(w, c, limit)
    BY <1>1, <1>3, <1>4, <1>6, <1>7
  <1> QED
    BY <1>1, <1>8 DEF Paced, O

\* The window of a device is forgotten.
LEMMA Forgotten ==
  ASSUME NEW n \in Nat, NEW w \in Windows, NEW c \in Counts, NEW limit \in Nat, NEW f \in Nat,
         Paced(n, w, c, limit, f)
  PROVE  Paced(n, NoWindow, c, limit, f + 1)
  <1>1. c.total <= (limit * WindowsAt(n, c)) * (f + 1)
    BY PaceBounded
  <1>2. /\ NoWindow.start = 0 /\ NoWindow.used = 0 /\ Pace(NoWindow, c, limit) = 0
        /\ WindowsAt(n, c) \in Nat
    <2>1. n <= n /\ c.first <= c.first
      BY AdmissionAssumption DEF Counts
    <2> QED
      BY <2>1, WindowsGrow DEF NoWindow, Pace
  <1> DEFINE N == WindowsAt(n, c)
  <1>3. (limit * N) * (f + 1) \in Nat
    <2> HIDE DEF N
    <2>1. limit * N \in Nat
      BY <1>2, Times DEF N
    <2> QED
      BY <2>1, Times
  <1>4. (limit * N) * (f + 1) + 0 = (limit * N) * (f + 1)
    <2> HIDE DEF N
    <2> QED
      BY <1>3
  <1> QED
    BY <1>1, <1>2, <1>4 DEF Paced

LEMMA InitRates == Init => Rates
  <1> SUFFICES ASSUME Init PROVE Rates
    OBVIOUS
  <1>1. \A limit \in Nat, c \in {NoCount} : Paced(1, NoWindow, c, limit, 0)
    <2> TAKE limit \in Nat, c \in {NoCount}
    <2>1. WindowsAt(1, c) \in Nat
      <3>1. c \in Counts /\ c.first <= c.first /\ 1 <= 1
        BY AdmissionAssumption DEF NoCount, Counts
      <3> QED
        BY <3>1, WindowsGrow
    <2> DEFINE N == WindowsAt(1, c)
    <2>2. (limit * N) * 0 = 0
      <3> HIDE DEF N
      <3>1. limit * N \in Nat
        BY <2>1, Times DEF N
      <3> QED
        BY <3>1
    <2> QED
      BY <2>2 DEF Paced, NoWindow, NoCount, Pace
  <1>2. \A d \in Devices : Known(d) = NoWindow /\ admitted[d] = NoCount /\ evicted[d] = 0
    BY DEF Init, Known
  <1>3. \A r \in Requests : requests[r].at = "absent"
    BY DEF Init, Absent
  <1> QED
    BY <1>1, <1>2, <1>3, AdmissionAssumption DEF Init, Rates

\* The clocks read are not ahead of the clock.
LEMMA ClocksRead ==
  ASSUME Inv, Rates, [Next]_vars
  PROVE  /\ now \in Nat /\ now' \in Nat /\ now <= now'
         /\ \A r \in Requests :
              requests'[r].at \in {"counting", "metering"} => requests'[r].read \in 1 .. now'
  <1>1. TypeOK /\ now \in Nat \ {0}
    BY AdmissionAssumption DEF Inv, PermitsBalance, TypeOK
  <1>2. CASE Tick \/ (UNCHANGED <<now, requests>>)
    BY <1>1, <1>2 DEF Tick, Rates
  <1>3. ASSUME UNCHANGED now, NEW r \in Requests, NEW x,
               requests' = [requests EXCEPT ![r] = x],
               x.at \in {"counting", "metering"} => x.read = now
        PROVE  \A q \in Requests :
                 requests'[q].at \in {"counting", "metering"} => requests'[q].read \in 1 .. now'
    BY <1>1, <1>3 DEF Rates, TypeOK
  <1>4. ASSUME NEW r \in Requests, NEW place \in Places, UNCHANGED now,
               \/ Goes(r, place) /\ place \notin {"counting", "metering"}
               \/ GoesWithClock(r, place)
               \/ Answer(r)
        PROVE  \A q \in Requests :
                 requests'[q].at \in {"counting", "metering"} => requests'[q].read \in 1 .. now'
    <2>1. CASE Goes(r, place) /\ place \notin {"counting", "metering"}
      BY <1>1, <1>4, <2>1, Moving DEF Rates, MovesTo
    <2>2. CASE GoesWithClock(r, place)
      <3>1. requests'[r].read = now
        BY <1>1, <2>2 DEF GoesWithClock, TypeOK
      <3> QED
        BY <1>1, <1>4, <2>2, <3>1, Moving DEF Rates, MovesTo
    <2>3. CASE Answer(r)
      BY <1>1, <1>3, <1>4, <2>3 DEF Answer, Answered, Absent
    <2> QED
      BY <1>4, <2>1, <2>2, <2>3
  <1>5. ASSUME NEW r \in Requests, NEW who \in Devices \cup {Stranger, Nobody}, Arrive(r, who)
        PROVE  \A q \in Requests :
                 requests'[q].at \in {"counting", "metering"} => requests'[q].read \in 1 .. now'
    BY <1>3, <1>5 DEF Arrive, Answer, Answered, Absent
  <1>6. ASSUME NEW r \in Requests,
               \/ AllowGlobal(r) \/ Authenticate(r) \/ AllowDevice(r) \/ AcquireDevice(r)
               \/ AnswerAlone(r) \/ ServeSync(r) \/ AnswerSync(r) \/ ReleaseDevice(r)
        PROVE  \A q \in Requests :
                 requests'[q].at \in {"counting", "metering"} => requests'[q].read \in 1 .. now'
    <2>1. UNCHANGED now
      BY <1>6 DEF AllowGlobal, Authenticate, AllowDevice, AcquireDevice, AnswerAlone, ServeSync,
                  AnswerSync, ReleaseDevice
    <2>2. \/ Goes(r, "authenticating") \/ GoesWithClock(r, "metering") \/ Goes(r, "admitted")
          \/ Goes(r, "serving") \/ Goes(r, "working") \/ Goes(r, "leaving") \/ Answer(r)
      BY <1>6 DEF AllowGlobal, Authenticate, AllowDevice, AcquireDevice, AnswerAlone, ServeSync,
                  AnswerSync, ReleaseDevice
    <2> QED
      BY <1>4, <2>1, <2>2 DEF Places
  <1>7. ASSUME NEW r \in Requests, ReleaseGlobal(r)
        PROVE  \A q \in Requests :
                 requests'[q].at \in {"counting", "metering"} => requests'[q].read \in 1 .. now'
    BY <1>3, <1>7 DEF ReleaseGlobal, Absent
  <1>8. now' \in Nat /\ now <= now'
    <2>1. CASE UNCHANGED now
      BY <1>1, <2>1
    <2>2. CASE Tick
      BY <1>1, <2>2 DEF Tick
    <2> QED
      BY <2>1, <2>2
      DEF Next, vars, Arrive, AllowGlobal, Authenticate, AllowDevice, AcquireDevice, AnswerAlone,
          ServeSync, AnswerSync, ReleaseDevice, ReleaseGlobal, RevokeDevice, BeginShutdown, Drained, Deadline,
          Exit
  <1>9. CASE Next
    <2>1. \/ Tick \/ UNCHANGED <<now, requests>>
          \/ \E r \in Requests, who \in Devices \cup {Stranger, Nobody} : Arrive(r, who)
          \/ \E r \in Requests :
               \/ AllowGlobal(r) \/ Authenticate(r) \/ AllowDevice(r) \/ AcquireDevice(r)
               \/ AnswerAlone(r) \/ ServeSync(r) \/ AnswerSync(r) \/ ReleaseDevice(r)
          \/ \E r \in Requests : ReleaseGlobal(r)
      BY <1>9 DEF Next, RevokeDevice, BeginShutdown, Drained, Deadline, Exit
    <2> QED
      BY <1>1, <1>2, <1>5, <1>6, <1>7, <1>8, <2>1
  <1>10. CASE UNCHANGED vars
    BY <1>1, <1>2, <1>8, <1>10 DEF vars
  <1> QED
    BY <1>1, <1>8, <1>9, <1>10

\* The parts of the invariants the limiters rely on.
LEMMA Metered ==
  ASSUME Inv, NEW d \in Devices
  PROVE  /\ global \in Windows /\ checked \in Counts
         /\ Known(d) \in Windows /\ admitted[d] \in Counts /\ evicted[d] \in Nat
         /\ now \in Nat /\ GlobalPerWindow \in Nat \ {0} /\ DevicePerWindow \in Nat \ {0}
  <1>1. NoWindow \in Windows
    BY AdmissionAssumption DEF NoWindow, Windows
  <1>2. Known(d) \in Windows
    BY <1>1 DEF Inv, PermitsBalance, TypeOK, Known
  <1> QED
    BY <1>2, AdmissionAssumption DEF Inv, PermitsBalance, TypeOK

LEMMA GlobalRate ==
  ASSUME Inv, Rates, NEW r \in Requests, AllowGlobal(r)
  PROVE  Paced(now', global', checked', GlobalPerWindow, 0)
  <1> DEFINE at == requests[r].read
             w == Current(global, at)
  <1>1. at \in 1 .. now /\ at \in 0 .. MaxTime
    BY DEF AllowGlobal, At, Rates, Inv, PermitsBalance, TypeOK
  <1>2. /\ global \in Windows /\ checked \in Counts /\ now \in Nat
        /\ GlobalPerWindow \in Nat \ {0}
    BY AdmissionAssumption DEF Inv, PermitsBalance, TypeOK
  <1>3. Paced(now, global, checked, GlobalPerWindow, 0) /\ now' = now
    BY DEF Rates, AllowGlobal
  <1>4. CASE /\ w.used < GlobalPerWindow
             /\ global' = [w EXCEPT !.used = @ + 1]
             /\ checked' = Counted(checked, at)
    <2>1. [w EXCEPT !.used = @ + 1] \in Windows /\ w \in Windows
      BY <1>1, <1>2, Windowed
    <2>2. /\ [w EXCEPT !.used = @ + 1].start = w.start
          /\ [w EXCEPT !.used = @ + 1].used = w.used + 1
      <3> HIDE DEF w
      <3> QED
        BY <2>1 DEF Windows
    <2> QED
      BY <1>1, <1>2, <1>3, <1>4, <2>1, <2>2, Admitting
  <1>5. CASE w.used >= GlobalPerWindow /\ global' = w /\ checked' = checked
    <2>1. w = global
      BY <1>2, <1>5 DEF Current, NoWindow
    <2> QED
      BY <1>3, <1>5, <2>1
  <1> QED
    BY <1>4, <1>5 DEF AllowGlobal

LEMMA DeviceRate ==
  ASSUME Inv, Rates, NEW r \in Requests, AllowDevice(r), NEW e \in Devices
  PROVE  Paced(now', Known(e)', admitted'[e], DevicePerWindow, evicted'[e])
  <1>0. TypeOK /\ now' = now
    BY DEF Inv, PermitsBalance, AllowDevice
  <1> DEFINE d == requests[r].who
             at == requests[r].read
  <1>1. d \in Devices /\ at \in 1 .. now /\ at \in 0 .. MaxTime
    BY <1>0 DEF AllowDevice, At, Rates, Inv, Authenticated, TypeOK
  <1> DEFINE w == Current(Known(d), at)
  <1>2. PICK v \in IF Full(d) THEN Victims(at) ELSE {d} :
          LET others == IF Full(d) THEN Forgetting(v) ELSE windows
          IN  /\ evicted' = IF Full(d) THEN [evicted EXCEPT ![v] = @ + 1] ELSE evicted
              /\ \/ /\ w.used < DevicePerWindow
                    /\ windows' = [x \in DOMAIN others \cup {d} |->
                                     IF x = d THEN [w EXCEPT !.used = @ + 1, !.seen = at]
                                     ELSE others[x]]
                    /\ admitted' = [admitted EXCEPT ![d] = Counted(@, at)]
                 \/ /\ w.used >= DevicePerWindow
                    /\ windows' = others
                    /\ UNCHANGED admitted
    BY DEF AllowDevice
  <1> DEFINE others == IF Full(d) THEN Forgetting(v) ELSE windows
  <1>3. /\ Full(d) => v \in DOMAIN windows /\ v # d /\ v \in Devices
        /\ DOMAIN others = IF Full(d) THEN DOMAIN windows \ {v} ELSE DOMAIN windows
        /\ \A x \in DOMAIN others : others[x] = windows[x]
    BY <1>0, <1>2 DEF Victims, Full, Forgetting, Restrict, TypeOK
  <1>4. \A x \in Devices :
          /\ Paced(now, Known(x), admitted[x], DevicePerWindow, evicted[x])
          /\ Known(x) \in Windows /\ admitted[x] \in Counts /\ evicted[x] \in Nat
    BY Metered DEF Rates
  <1>5. now \in Nat /\ DevicePerWindow \in Nat \ {0}
    BY Metered
  <1>6. evicted'[e] = IF Full(d) /\ e = v THEN evicted[e] + 1 ELSE evicted[e]
    BY <1>0, <1>2 DEF TypeOK
  <1> HIDE DEF w, others
  <1>7. CASE e # d
    <2>1. admitted'[e] = admitted[e]
      BY <1>0, <1>2, <1>7 DEF TypeOK
    <2>2. /\ DOMAIN windows' \in {DOMAIN others, DOMAIN others \cup {d}}
          /\ e \in DOMAIN others => windows'[e] = others[e]
      BY <1>2, <1>7 DEF others, w
    <2>3. CASE Full(d) /\ e = v
      <3>1. Known(e)' = NoWindow
        BY <1>3, <1>7, <2>2, <2>3 DEF Known
      <3> QED
        BY <1>0, <1>4, <1>5, <1>6, <2>1, <2>3, <3>1, Forgotten
    <2>4. CASE ~(Full(d) /\ e = v)
      <3>1. Known(e)' = Known(e)
        BY <1>3, <1>7, <2>2, <2>4 DEF Known
      <3> QED
        BY <1>0, <1>4, <1>6, <2>1, <2>4, <3>1
    <2> QED
      BY <2>3, <2>4
  <1>8. CASE e = d
    <2>1. evicted'[e] = evicted[e]
      BY <1>3, <1>6, <1>8
    <2>2. CASE /\ w.used < DevicePerWindow
               /\ windows' = [x \in DOMAIN others \cup {d} |->
                                IF x = d THEN [w EXCEPT !.used = @ + 1, !.seen = at]
                                ELSE others[x]]
               /\ admitted' = [admitted EXCEPT ![d] = Counted(@, at)]
      <3> DEFINE x == [w EXCEPT !.used = @ + 1, !.seen = at]
      <3>1. x \in Windows /\ w \in Windows
        BY <1>1, <1>4, Windowed DEF w
      <3>2. x.start = w.start /\ x.used = w.used + 1
        BY <3>1 DEF Windows
      <3>3. Known(e)' = x /\ admitted'[e] = Counted(admitted[e], at)
        BY <1>0, <1>8, <2>2 DEF Known, TypeOK
      <3>4. /\ w.used < DevicePerWindow
            /\ Current(Known(e), at).used < DevicePerWindow
            /\ x.start = Current(Known(e), at).start
            /\ x.used = Current(Known(e), at).used + 1
        BY <1>8, <2>2, <3>2 DEF w
      <3> HIDE DEF x
      <3> QED
        BY <1>0, <1>1, <1>4, <1>5, <2>1, <3>1, <3>3, <3>4, Admitting
    <2>3. CASE windows' = others /\ UNCHANGED admitted
      <3>1. Known(e)' = Known(e)
        BY <1>3, <1>8, <2>3 DEF Known, Full
      <3> QED
        BY <1>0, <1>4, <2>1, <2>3, <3>1
    <2> QED
      BY <1>2, <2>2, <2>3 DEF w, others
  <1> QED
    BY <1>7, <1>8

LEMMA StepRates == Inv /\ Rates /\ [Next]_vars => Rates'
  <1> SUFFICES ASSUME Inv, Rates, [Next]_vars PROVE Rates'
    OBVIOUS
  <1> DEFINE Kept == /\ Paced(now', global', checked', GlobalPerWindow, 0)
                     /\ \A d \in Devices : Paced(now', Known(d)', admitted'[d],
                                                 DevicePerWindow, evicted'[d])
  <1>1. ASSUME UNCHANGED limits PROVE Kept
    <2>1. UNCHANGED <<global, windows, checked, admitted, evicted>>
      BY <1>1 DEF limits
    <2>2. \A d \in Devices : Known(d)' = Known(d)
      BY <2>1 DEF Known
    <2>3. now \in Nat /\ now' \in Nat /\ now <= now'
      BY ClocksRead
    <2>4. Paced(now', global, checked, GlobalPerWindow, 0)
      <3>1. global \in Windows /\ checked \in Counts /\ GlobalPerWindow \in Nat
        BY AdmissionAssumption DEF Inv, PermitsBalance, TypeOK
      <3> QED
        BY <2>3, <3>1, Passing DEF Rates
    <2>5. \A d \in Devices : Paced(now', Known(d), admitted[d], DevicePerWindow, evicted[d])
      <3> TAKE d \in Devices
      <3>1. /\ Known(d) \in Windows /\ admitted[d] \in Counts /\ evicted[d] \in Nat
            /\ DevicePerWindow \in Nat
        BY Metered
      <3> QED
        BY <2>3, <3>1, Passing DEF Rates
    <2> QED
      BY <2>1, <2>2, <2>4, <2>5
  <1>2. ASSUME NEW r \in Requests, AllowGlobal(r) PROVE Kept
    <2>1. \A d \in Devices : Known(d)' = Known(d)
      BY <1>2 DEF AllowGlobal, Known
    <2> QED
      BY <1>2, <2>1, GlobalRate DEF AllowGlobal, Rates
  <1>3. ASSUME NEW r \in Requests, AllowDevice(r) PROVE Kept
    BY <1>3, DeviceRate DEF AllowDevice, Rates
  <1>4. Kept
    BY <1>1, <1>2, <1>3
    DEF Next, vars, Arrive, Authenticate, AcquireDevice, AnswerAlone, ServeSync, AnswerSync,
        ReleaseDevice, ReleaseGlobal, RevokeDevice, BeginShutdown, Drained, Deadline, Exit, Tick
  <1> QED
    BY <1>4, ClocksRead DEF Rates

\* Rates say what they are to say.
LEMMA RatesAreRates == Inv /\ Rates => RatesHold
  <1> SUFFICES ASSUME Inv, Rates PROVE RatesHold
    OBVIOUS
  <1>1. \A c : WindowsIn(c) = WindowsAt(now, c)
    BY DEF WindowsIn, WindowsAt, Elapsed
  <1>2. checked.total <= GlobalPerWindow * WindowsIn(checked)
    <2> DEFINE L == GlobalPerWindow * WindowsAt(now, checked)
    <2>1. /\ global \in Windows /\ checked \in Counts /\ now \in Nat
          /\ GlobalPerWindow \in Nat /\ 0 \in Nat
      BY AdmissionAssumption DEF Inv, PermitsBalance, TypeOK
    <2>2. checked.total <= L * (0 + 1)
      BY <2>1, PaceBounded DEF Rates
    <2>3. L \in Nat
      <3>1. now <= now /\ checked.first <= checked.first
        BY <2>1, AdmissionAssumption DEF Counts
      <3>2. WindowsAt(now, checked) \in Nat
        BY <2>1, <3>1, WindowsGrow
      <3> QED
        BY <2>1, <3>2, Times
    <2> HIDE DEF L
    <2>4. L * (0 + 1) = L
      BY <2>3
    <2> QED
      BY <1>1, <2>2, <2>4 DEF L
  <1>3. ASSUME NEW d \in Devices
        PROVE  admitted[d].total
                 <= DevicePerWindow * WindowsIn(admitted[d]) * (1 + evicted[d])
    <2>1. /\ Known(d) \in Windows /\ admitted[d] \in Counts /\ evicted[d] \in Nat
          /\ now \in Nat /\ DevicePerWindow \in Nat
      BY Metered
    <2>2. admitted[d].total
            <= (DevicePerWindow * WindowsAt(now, admitted[d])) * (evicted[d] + 1)
      BY <2>1, PaceBounded DEF Rates
    <2>3. evicted[d] + 1 = 1 + evicted[d]
      BY <2>1
    <2> QED
      BY <1>1, <2>2, <2>3
  <1> QED
    BY <1>2, <1>3 DEF RatesHold

\* On every way a request takes, past every limit, failure and revocation, its slot and its
\* permit are given back, and a device has an entry exactly while it holds permits
\* (syncapi/http.go).
THEOREM PermitsAlwaysBalance == Spec => []PermitsBalance
  <1>1. Inv => PermitsBalance
    BY DEF Inv
  <1> QED
    BY InitInv, StepInv, <1>1, PTL DEF Spec

\* Whenever a server fails, the signal comes or the deadline passes: the process ends without
\* an error only when nothing was under way (cmd/vgxness-syncd/main.go).
THEOREM CleanEndNeverLoses == Spec => []CleanEndLosesNothing
  <1>1. Inv => CleanEndLosesNothing
    BY DEF Inv
  <1> QED
    BY InitInv, StepInv, <1>1, PTL DEF Spec

\* However long requests stall between a clock and the lock of its limiter and whatever devices
\* it forgets: what comes past a limiter stays within its windows (syncapi/http.go).
THEOREM RatesAlwaysHold == Spec => []RatesHold
  <1>1. Init => Inv /\ Rates
    BY InitInv, InitRates
  <1>2. Inv /\ Rates /\ [Next]_vars => (Inv /\ Rates)'
    BY StepInv, StepRates
  <1> QED
    BY <1>1, <1>2, RatesAreRates, PTL DEF Spec

(***************************************************************************)
(* Revocation.  A device that is revoked has at most as many requests in   *)
(* the hands of the backend as it has permits; none joins them, and each   *)
(* is answered once.                                                       *)
(***************************************************************************)

Workers(d) == {r \in Requests : requests[r].at = "working" /\ requests[r].who = d}

\* What a device was answered since it was revoked, and what it may still be answered.
Felt ==
  \A d \in Devices :
    /\ d \notin revoked => late[d] = 0
    /\ d \in revoked => late[d] + Cardinality(Workers(d)) <= DeviceSlots

\* Who works holds a permit.
LEMMA WorkersHold ==
  ASSUME PermitsBalance, NEW d \in Devices
  PROVE  Cardinality(Workers(d)) <= DeviceSlots
  <1>1. Workers(d) \subseteq Holders(d) /\ Holders(d) \subseteq Requests
    BY DEF Workers, Holders, Holding
  <1>2. Cardinality(Workers(d)) <= Cardinality(Holders(d))
    BY <1>1, FiniteRequests, FS_Subset
  <1>3. CASE Holders(d) = {}
    BY <1>1, <1>3, FS_EmptySet, AdmissionAssumption
  <1>4. CASE Holders(d) # {}
    <2>1. d \in DOMAIN permits /\ permits[d] = Cardinality(Holders(d)) /\ permits[d] \in 1 .. DeviceSlots
      BY <1>4 DEF PermitsBalance, TypeOK
    <2>2. Cardinality(Workers(d)) \in Nat
      BY <1>1, FiniteRequests
    <2> QED
      BY <1>2, <2>1, <2>2, AdmissionAssumption
  <1> QED
    BY <1>3, <1>4

\* No step but that in which the backend looks at the device gives it a request.
LEMMA OnlyTheBackendTakes ==
  ASSUME TypeOK, [Next]_vars, \A r \in Requests : ~ServeSync(r),
         NEW q \in Requests, requests'[q].at = "working"
  PROVE  requests'[q] = requests[q]
  <1>0. requests \in [Requests -> RequestRows]
    BY DEF TypeOK, RequestRows
  <1>1. ASSUME NEW r \in Requests, NEW x, requests' = [requests EXCEPT ![r] = x], x.at # "working"
        PROVE  requests'[q] = requests[q]
    BY <1>0, <1>1
  <1>2. ASSUME NEW r \in Requests, NEW place \in Places \ {"working"}, MovesTo(r, place)
        PROVE  requests'[q] = requests[q]
    BY <1>2, Moving
  <1>3. ASSUME NEW r \in Requests, NEW who, Arrive(r, who)
        PROVE  requests'[q] = requests[q]
    <2>1. Answered.at = "answered" /\ [at |-> "counting", who |-> who, read |-> now].at = "counting"
      BY DEF Answered, Absent
    <2> QED
      BY <1>1, <1>3, <2>1 DEF Arrive, Answer
  <1>4. ASSUME NEW r \in Requests, AllowGlobal(r) \/ Authenticate(r) \/ AllowDevice(r)
        PROVE  requests'[q] = requests[q]
    <2>1. \/ MovesTo(r, "authenticating") \/ MovesTo(r, "metering")
          \/ MovesTo(r, "admitted") \/ MovesTo(r, "answered")
      BY <1>4 DEF AllowGlobal, Authenticate, AllowDevice, MovesTo
    <2> QED
      BY <1>2, <2>1 DEF Places
  <1>5. ASSUME NEW r \in Requests,
               AcquireDevice(r) \/ AnswerAlone(r) \/ AnswerSync(r) \/ ReleaseDevice(r)
        PROVE  requests'[q] = requests[q]
    <2>1. MovesTo(r, "serving") \/ MovesTo(r, "leaving") \/ MovesTo(r, "answered")
      BY <1>5 DEF AcquireDevice, AnswerAlone, AnswerSync, ReleaseDevice, MovesTo
    <2> QED
      BY <1>2, <2>1 DEF Places
  <1>6. ASSUME NEW r \in Requests, ReleaseGlobal(r)
        PROVE  requests'[q] = requests[q]
    BY <1>1, <1>6 DEF ReleaseGlobal, Absent
  <1> QED
    BY <1>3, <1>4, <1>5, <1>6
    DEF Next, vars, RevokeDevice, BeginShutdown, Drained, Deadline, Exit, Tick

\* Every step keeps what is felt.
LEMMA FeltInv == Inv /\ Felt /\ [Next]_vars => Felt'
  <1> SUFFICES ASSUME Inv, Felt, [Next]_vars, NEW d \in Devices
               PROVE  /\ d \notin revoked' => late'[d] = 0
                      /\ d \in revoked' => late'[d] + Cardinality(Workers(d)') <= DeviceSlots
    BY DEF Felt
  <1>0. /\ TypeOK /\ PermitsBalance /\ requests \in [Requests -> RequestRows]
        /\ late \in [Devices -> Nat] /\ DeviceSlots \in Nat
    BY AdmissionAssumption DEF Inv, PermitsBalance, TypeOK, RequestRows
  <1>1. IsFiniteSet(Workers(d)) /\ Cardinality(Workers(d)) \in Nat /\ Workers(d) \subseteq Requests
    BY FiniteRequests DEF Workers
  <1>2. CASE \E r \in Requests : ServeSync(r)
    <2>1. PICK r \in Requests : ServeSync(r)
      BY <1>2
    <2>2. late' = late /\ revoked' = revoked
      BY <2>1 DEF ServeSync
    <2>3. ASSUME d \in revoked PROVE Workers(d)' = Workers(d)
      <3>1. PICK place \in {"working", "leaving"} :
              MovesTo(r, place) /\ (place = "working" => requests[r].who \notin revoked)
        BY <2>1 DEF ServeSync, RequireDevice, MovesTo
      <3>2. /\ requests'[r].at = place /\ requests'[r].who = requests[r].who
            /\ \A q \in Requests \ {r} : requests'[q] = requests[q]
        BY <1>0, <3>1, Moving DEF Places
      <3> QED
        BY <2>1, <2>3, <3>1, <3>2 DEF Workers, ServeSync, At
    <2> QED
      BY <2>2, <2>3 DEF Felt
  <1>3. CASE \A r \in Requests : ~ServeSync(r)
    <2>1. Workers(d)' \subseteq Workers(d)
      BY <1>0, <1>3, OnlyTheBackendTakes DEF Workers
    <2>2. Cardinality(Workers(d)') \in Nat /\ Cardinality(Workers(d)') <= Cardinality(Workers(d))
      BY <1>1, <2>1, FS_Subset, FiniteRequests
    <2>3. CASE UNCHANGED <<revoked, late>>
      BY <1>0, <1>1, <2>2, <2>3 DEF Felt
    <2>4. ASSUME NEW r \in Requests, AnswerSync(r)
          PROVE  /\ d \notin revoked' => late'[d] = 0
                 /\ d \in revoked' => late'[d] + Cardinality(Workers(d)') <= DeviceSlots
      <3>1. revoked' = revoked
        BY <2>4 DEF AnswerSync
      <3>2. CASE late'[d] = late[d]
        BY <1>0, <1>1, <2>2, <3>1, <3>2 DEF Felt
      <3>3. CASE late'[d] # late[d]
        <4>1. requests[r].who = d /\ d \in revoked /\ late'[d] = late[d] + 1 /\ r \in Workers(d)
          BY <1>0, <2>4, <3>3 DEF AnswerSync, At, Workers
        <4>2. requests'[r].at = "leaving"
          BY <1>0, <2>4, Moving DEF AnswerSync, MovesTo, Places
        <4>3. Workers(d)' \subseteq Workers(d) \ {r}
          BY <2>1, <4>2 DEF Workers
        <4>4. /\ Cardinality(Workers(d) \ {r}) = Cardinality(Workers(d)) - 1
              /\ IsFiniteSet(Workers(d) \ {r})
          BY <1>1, <4>1, OneFewer, FS_RemoveElement
        <4>5. Cardinality(Workers(d)') <= Cardinality(Workers(d)) - 1
          BY <4>3, <4>4, FS_Subset
        <4> QED
          BY <1>0, <1>1, <2>2, <3>1, <4>1, <4>5 DEF Felt
      <3> QED
        BY <3>2, <3>3
    <2>5. ASSUME NEW e \in Devices, RevokeDevice(e)
          PROVE  /\ d \notin revoked' => late'[d] = 0
                 /\ d \in revoked' => late'[d] + Cardinality(Workers(d)') <= DeviceSlots
      <3>1. late' = late /\ revoked' = revoked \cup {e} /\ e \notin revoked
        BY <2>5 DEF RevokeDevice
      <3> QED
        BY <1>0, <1>1, <2>2, <3>1, WorkersHold DEF Felt
    <2> QED
      BY <1>3, <2>3, <2>4, <2>5
      DEF Next, vars, Arrive, AllowGlobal, Authenticate, AllowDevice, AcquireDevice, AnswerAlone,
          ReleaseDevice, ReleaseGlobal, BeginShutdown, Drained, Deadline, Exit, Tick
  <1> QED
    BY <1>2, <1>3

\* However many requests of a device are past its authentication when it is revoked, what is
\* answered to them afterwards is at most what its permits allow (syncapi/http.go, syncpg).
THEOREM RevocationIsAlwaysFelt == Spec => []RevocationIsFelt
  <1>1. Init => Inv /\ Felt
    BY InitInv DEF Init, Felt
  <1>2. Inv /\ Felt /\ [Next]_vars => (Inv /\ Felt)'
    BY StepInv, FeltInv
  <1>3. Inv /\ Felt => RevocationIsFelt
    <2> SUFFICES ASSUME Inv, Felt, NEW d \in Devices PROVE late[d] <= DeviceSlots
      BY DEF RevocationIsFelt
    <2>1. late[d] \in Nat /\ DeviceSlots \in Nat /\ Cardinality(Workers(d)) \in Nat
      BY FiniteRequests, AdmissionAssumption DEF Inv, PermitsBalance, TypeOK, Workers
    <2> QED
      BY <2>1 DEF Felt
  <1> QED
    BY <1>1, <1>2, <1>3, PTL DEF Spec
=============================================================================
