----------------------------- MODULE LoginProofs -----------------------------
(***************************************************************************)
(* Theorems about Login, for any number of sessions and any number of      *)
(* crashes, failures, lost answers and expiries.                           *)
(***************************************************************************)
EXTENDS Login, TLAPS

\* The inductive invariant.
IInv == TypeOK /\ PairsMatch /\ NeverOwnRevoked /\ PlaceInv /\ CountInv

LEMMA PairType ==
  ASSUME NEW s \in Sessions
  PROVE  Pair(s) \in Auths /\ Pair(s) # NoAuth /\ Pair(s).cookie = s /\ Pair(s).token = s
BY LoginAssumption DEF LoginAssumption, Pair, Auths

LEMMA InitInv == Init => IInv
<1> SUFFICES ASSUME Init PROVE IInv
  OBVIOUS
<1>1. file \in Auths \cup {NoAuth} /\ (file # NoAuth => file.cookie = file.token)
  BY PairType DEF Init
<1>2. valid \subseteq Sessions /\ (file # NoAuth => file.cookie \in valid)
  BY <1>1 DEF Init, Of, Auths
<1>3. TypeOK
  BY <1>1, <1>2, LoginAssumption DEF Init, TypeOK, LoginAssumption
<1>4. PairsMatch /\ NeverOwnRevoked /\ PlaceInv
  BY <1>1 DEF Init, PairsMatch, NeverOwnRevoked, PlaceInv
<1>5. CountInv
  BY <1>2 DEF Init, CountInv, Usable, Current
<1> QED
  BY <1>3, <1>4, <1>5 DEF IInv

\* The process ends: what was saved is all that is left.  The count is kept when a
\* fault is counted, or when the file holds what the process counted on.
LEMMA DownInv ==
  ASSUME IInv, Down, UNCHANGED <<file, revoked>>,
         valid' \subseteq Sessions, valid' \cap revoked = {},
         faults' \in 0 .. MaxFaults, scans' \in Nat,
         scans' <= faults' + (IF file # NoAuth /\ file.cookie \in valid' THEN 1 ELSE 0),
         faults' = 0 => file = NoAuth \/ file.cookie \in valid'
  PROVE  IInv'
<1>1. TypeOK'
  BY DEF IInv, TypeOK, Down
<1>2. PairsMatch' /\ NeverOwnRevoked' /\ PlaceInv'
  BY DEF IInv, PairsMatch, NeverOwnRevoked, PlaceInv, Down
<1>3. CountInv'
  BY DEF CountInv, Usable, Current, Down
<1> QED
  BY <1>1, <1>2, <1>3 DEF IInv

\* A fault that ends the process.
LEMMA ExitInv ==
  ASSUME IInv, Exit, UNCHANGED <<file, valid, revoked, scans>>
  PROVE  IInv'
<1>1. faults \in Nat /\ scans \in Nat /\ MaxFaults \in Nat /\ scans <= faults + 1
  BY LoginAssumption DEF IInv, TypeOK, CountInv, LoginAssumption
<1>2. faults' = faults + 1 /\ faults' \in 0 .. MaxFaults
  BY <1>1 DEF Exit, Fault, IInv, TypeOK
<1> QED
  BY <1>1, <1>2, DownInv DEF Exit, IInv, TypeOK, PlaceInv

LEMMA NextInv == IInv /\ [Next]_vars => IInv'
<1> SUFFICES ASSUME IInv, [Next]_vars PROVE IInv'
  OBVIOUS
<1>0. TypeOK /\ PairsMatch /\ NeverOwnRevoked /\ PlaceInv /\ CountInv
  BY DEF IInv
<1>n. faults \in Nat /\ scans \in Nat /\ MaxFaults \in Nat /\ scans <= faults + 1
  BY <1>0, LoginAssumption DEF TypeOK, CountInv, LoginAssumption
<1>c. \A auth \in {mem, loaded, file} : auth # NoAuth =>
        auth \in Auths /\ auth.cookie \in Sessions /\ auth.token = auth.cookie
  BY <1>0 DEF TypeOK, PairsMatch, Auths
<1> USE <1>0 DEF TypeOK, PairsMatch, NeverOwnRevoked, PlaceInv, CountInv, Usable, Current
<1>1. CASE Crash \/ LoginFails \/ SaveFails \/ RefreshFails
  BY <1>1, ExitInv DEF Crash, LoginFails, SaveFails, RefreshFails
<1>2. CASE Stop
  BY <1>2, <1>n, DownInv DEF Stop
<1>3. CASE Expire
  <2>1. valid' \subseteq valid /\ faults' = faults + 1 /\ faults' \in 0 .. MaxFaults
    BY <1>3, <1>n DEF Expire, Fault
  <2> QED
    BY <1>3, <2>1, <1>n DEF Expire, IInv
<1>4. CASE Start
  BY <1>4 DEF Start, Found, IInv
<1>5. CASE LoadedValid
  BY <1>5, <1>c DEF LoadedValid, IInv
<1>6. CASE LoadedInvalid
  <2>1. faults' \in 0 .. MaxFaults /\ scans <= faults'
    BY <1>6, <1>n DEF LoadedInvalid, Fault
  <2>2. /\ pc' = "qr" /\ loaded' = NoAuth
        /\ UNCHANGED <<mem, fresh, after, file, valid, revoked, scans>>
    BY <1>6 DEF LoadedInvalid
  <2>3. TypeOK'
    BY <2>1, <2>2
  <2>4. PairsMatch' /\ NeverOwnRevoked' /\ PlaceInv'
    BY <2>2
  <2>5. Current' = NoAuth /\ ~Usable'
    BY <2>2
  <2>6. scans' \in Nat /\ faults' \in Nat /\ scans' <= faults'
    BY <2>1, <2>2, <1>n
  <2>7. CountInv'
    <3> HIDE DEF Usable, Current
    <3> QED
      BY <2>5, <2>6
  <2> QED
    BY <2>3, <2>4, <2>7 DEF IInv
<1>7. CASE QrShown
  BY <1>7 DEF QrShown, IInv
<1>8. CASE Scanned
  <2>1. scans <= faults /\ pc = "poll" /\ scans' = scans + 1 /\ file' = file
    BY <1>8 DEF Scanned
  <2>2. CASE Exit /\ UNCHANGED <<valid, revoked>>
    <3>1. faults' = faults + 1 /\ faults' \in 0 .. MaxFaults
      BY <2>2, <1>n DEF Exit, Fault
    <3> QED
      BY <2>1, <2>2, <3>1, <1>n, DownInv DEF Exit
  <2>3. ASSUME NEW s \in New,
               /\ loaded' = Pair(s)
               /\ valid' = valid \cup {s} /\ revoked' = revoked \ {s}
               /\ pc' = "accept"
               /\ UNCHANGED <<mem, fresh, after, faults>>
        PROVE  IInv'
    <3>1. s \in Sessions /\ Pair(s) \in Auths /\ Pair(s) # NoAuth
          /\ Pair(s).cookie = s /\ Pair(s).token = s
      BY PairType DEF New
    <3> QED
      BY <2>1, <2>3, <3>1, <1>n DEF IInv
  <2> QED
    BY <1>8, <2>2, <2>3 DEF Scanned
<1>9. CASE LoginAccepted
  BY <1>9, <1>c DEF LoginAccepted, Saved, IInv
<1>10. CASE LoginRefused
  BY <1>10, <1>n, DownInv DEF LoginRefused
<1>11. CASE Truncate
  BY <1>11 DEF Truncate, IInv
<1>12. CASE Write
  BY <1>12 DEF Write, IInv
<1>13. CASE NoRefreshNeeded \/ RefreshNeeded
  BY <1>13 DEF NoRefreshNeeded, RefreshNeeded, IInv
<1>14. CASE Refreshed
  <2>1. CASE Exit /\ UNCHANGED <<valid, revoked>>
    BY <1>14, <2>1, ExitInv DEF Refreshed
  <2>2. ASSUME NEW s \in New,
               /\ fresh' = s
               /\ valid' = valid \cup {s} /\ revoked' = revoked \ {s}
               /\ pc' = "confirm"
               /\ UNCHANGED <<mem, loaded, after, faults, file, scans>>
        PROVE  IInv'
    <3>1. s \in Sessions /\ s \notin Of(mem)
      BY DEF New, Held
    <3> QED
      BY <1>14, <2>2, <3>1 DEF Refreshed, IInv
  <2> QED
    BY <1>14, <2>1, <2>2 DEF Refreshed
<1>15. CASE Confirmed
  <2>1. /\ pc = "confirm" /\ fresh \in valid /\ fresh \in Sessions
        /\ fresh # mem.token /\ file' = file /\ scans' = scans
        /\ valid' = valid \ {mem.token} /\ revoked' = revoked \cup {mem.token}
    BY <1>15 DEF Confirmed, Confirming, Renewed, Saved, Revoke, Of
  <2>2. mem.token \in Sessions
    BY <2>1, <1>c
  <2>3. CASE Exit
    <3>1. faults' = faults + 1 /\ faults' \in 0 .. MaxFaults
      BY <2>3, <1>n DEF Exit, Fault
    <3> QED
      BY <2>1, <2>2, <2>3, <3>1, <1>n DEF Exit, Down, IInv
  <2>4. CASE /\ mem' = Pair(fresh) /\ fresh' = NoSession
             /\ pc' = "save" /\ after' = "up"
             /\ UNCHANGED <<loaded, faults>>
    <3>1. Pair(fresh) \in Auths /\ Pair(fresh) # NoAuth
          /\ Pair(fresh).cookie = fresh /\ Pair(fresh).token = fresh
      BY <2>1, PairType
    <3> QED
      BY <2>1, <2>2, <2>4, <3>1, <1>n DEF IInv
  <2> QED
    BY <1>15, <2>3, <2>4 DEF Confirmed, Confirming, Renewed, Saved
<1>16. CASE RefreshRefused
  BY <1>16, <1>n, DownInv DEF RefreshRefused
<1>17. CASE UNCHANGED vars
  BY <1>17 DEF vars, IInv
<1> QED
  BY <1>1, <1>2, <1>3, <1>4, <1>5, <1>6, <1>7, <1>8, <1>9, <1>10, <1>11, <1>12, <1>13,
     <1>14, <1>15, <1>16, <1>17
  DEF Next, Loading, SigningIn, Saving, Refreshing

THEOREM Invariance == Spec => []IInv
BY InitInv, NextInv, PTL DEF Spec

\* Every variable keeps its type.
THEOREM TypeCorrect == Spec => []TypeOK
<1>1. IInv => TypeOK
  BY DEF IInv
<1> QED
  BY <1>1, Invariance, PTL

\* Cookies and refresh token are never parted.
THEOREM PairsNeverPart == Spec => []PairsMatch
<1>1. IInv => PairsMatch
  BY DEF IInv
<1> QED
  BY <1>1, Invariance, PTL

\* The program never uses or saves a session it has revoked itself.
THEOREM NeverRevokesItsOwn == Spec => []NeverOwnRevoked
<1>1. IInv => NeverOwnRevoked
  BY DEF IInv
<1> QED
  BY <1>1, Invariance, PTL

\* Without a fault the file is always good for the next start.
THEOREM FileAlwaysUsable == Spec => []FileStaysUsable
<1>1. IInv => FileStaysUsable
  BY DEF IInv, TypeOK, PlaceInv, CountInv, Usable, Current, FileStaysUsable
<1> QED
  BY <1>1, Invariance, PTL

\* A fault costs at most one login by hand.
THEOREM FaultsCostOneScan == Spec => []OneScanPerFault
<1>1. IInv => OneScanPerFault
  BY DEF IInv, TypeOK, CountInv, OneScanPerFault
<1> QED
  BY <1>1, Invariance, PTL

=============================================================================
