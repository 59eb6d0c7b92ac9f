-------------------------------- MODULE Login --------------------------------
(***************************************************************************)
(* Signing in (src/login.rs, called at the start of run in src/main.rs).   *)
(*                                                                         *)
(* A start loads the session saved in the auth file and asks the platform  *)
(* whether it is valid; if not, a user scans a QR code.  Then the platform *)
(* is asked whether the session must be refreshed: a refresh issues a new  *)
(* session, which has to be confirmed with the old one's refresh token;    *)
(* the confirmation revokes the old one.  Any step may fail, an answer may *)
(* be lost after its request took effect, the file is truncated before it  *)
(* is written, and the process may crash anywhere and is started again.    *)
(***************************************************************************)
EXTENDS Naturals

CONSTANTS
  Sessions,   \* names for sessions of the platform
  NoAuth,     \* no session: an auth file that is missing or torn
  NoSession,  \* no refreshed session
  MaxFaults   \* bound of the crashes, failures, lost answers and expiries

ASSUME LoginAssumption ==
  /\ NoAuth \notin [cookie : Sessions, token : Sessions]
  /\ NoSession \notin Sessions
  /\ MaxFaults \in Nat

VARIABLES
  pc,       \* where the process is
  mem,      \* AuthData: cookies and refresh_token
  loaded,   \* what load read, or the session a scan brought
  fresh,    \* new_cookies and new_refresh_token
  after,    \* where the process goes on after save
  file,     \* the auth file
  valid,    \* sessions the platform accepts
  revoked,  \* sessions a confirmation has revoked
  faults,   \* history: the faults so far
  scans     \* history: QR codes scanned

vars == <<pc, mem, loaded, fresh, after, file, valid, revoked, faults, scans>>

\* The pair of cookies and refresh token of a session.
Pair(s) == [cookie |-> s, token |-> s]
Auths == [cookie : Sessions, token : Sessions]

\* The sessions the process or the file holds; the platform keeps others too, which
\* nobody can use.
Of(auth) == IF auth = NoAuth THEN {} ELSE {auth.cookie, auth.token}
Held == Of(mem) \cup Of(loaded) \cup Of(file) \cup ({fresh} \cap Sessions)
New == Sessions \ Held

Init ==
  /\ pc = "down"
  /\ mem = NoAuth /\ loaded = NoAuth /\ fresh = NoSession /\ after = "up"
  /\ file \in {NoAuth} \cup {Pair(s) : s \in Sessions}
  /\ valid = Of(file) /\ revoked = {}
  /\ faults = 0 /\ scans = 0

-----------------------------------------------------------------------------
(* The end of the process; only the file survives. *)

Down ==
  /\ pc' = "down"
  /\ mem' = NoAuth /\ loaded' = NoAuth /\ fresh' = NoSession /\ after' = "up"

Fault == faults < MaxFaults /\ faults' = faults + 1

\* A step returns an error: it leaves run, and main exits.
Exit == Fault /\ Down

Crash ==
  /\ pc # "down"
  /\ Exit
  /\ UNCHANGED <<file, valid, revoked, scans>>

\* The running program is stopped.
Stop ==
  /\ pc = "up"
  /\ Down
  /\ UNCHANGED <<file, valid, revoked, faults, scans>>

\* The platform ends a session by itself.
Expire ==
  /\ Fault
  /\ \E s \in valid : valid' = valid \ {s}
  /\ UNCHANGED <<pc, mem, loaded, fresh, after, file, revoked, scans>>

-----------------------------------------------------------------------------
(* AuthData::new, load. *)

\* Mutant: a file that cannot be read ends the program.
FoundNeeded == IF file = NoAuth THEN "down" ELSE "validate"

\* A file that is missing or cannot be parsed calls for a login.
Found == IF file = NoAuth THEN "qr" ELSE "validate"

Start ==
  /\ pc = "down"
  /\ loaded' = file
  /\ pc' = Found
  /\ UNCHANGED <<mem, fresh, after, file, valid, revoked, faults, scans>>

LoadedValid ==
  /\ pc = "validate" /\ loaded.cookie \in valid
  /\ mem' = loaded /\ loaded' = NoAuth
  /\ pc' = "check"
  /\ UNCHANGED <<fresh, after, file, valid, revoked, faults, scans>>

\* A session that is not accepted, or a check that fails, calls for a new login.
LoadedInvalid ==
  /\ pc = "validate"
  /\ \/ loaded.cookie \notin valid /\ UNCHANGED faults
     \/ Fault
  /\ loaded' = NoAuth
  /\ pc' = "qr"
  /\ UNCHANGED <<mem, fresh, after, file, valid, revoked, scans>>

(* qr_login, poll_login_status, handle_login_success. *)

QrShown ==
  /\ pc = "qr"
  /\ pc' = "poll"
  /\ UNCHANGED <<mem, loaded, fresh, after, file, valid, revoked, faults, scans>>

\* The user confirms in time: the answer brings a session, or is lost.
Scanned ==
  /\ pc = "poll"
  /\ scans' = scans + 1
  /\ \/ \E s \in New :
          /\ loaded' = Pair(s)
          /\ valid' = valid \cup {s} /\ revoked' = revoked \ {s}
          /\ pc' = "accept"
          /\ UNCHANGED <<mem, fresh, after, faults>>
     \/ Exit /\ UNCHANGED <<valid, revoked>>
  /\ UNCHANGED file

\* Mutant: save is not called.
SavedNot(next) == pc' = next /\ UNCHANGED after

\* save is called, and after it the process goes on.
Saved(next) == pc' = "save" /\ after' = next

LoginAccepted ==
  /\ pc = "accept" /\ loaded.cookie \in valid
  /\ mem' = loaded /\ loaded' = NoAuth
  /\ Saved("check")
  /\ UNCHANGED <<fresh, file, valid, revoked, faults, scans>>

\* An error on the way: no QR code, time out, an answer that is not understood, cookies
\* that are not accepted.
LoginFails ==
  /\ pc \in {"qr", "poll", "accept"}
  /\ Exit
  /\ UNCHANGED <<file, valid, revoked, scans>>

LoginRefused ==
  /\ pc = "accept" /\ loaded.cookie \notin valid
  /\ Down
  /\ UNCHANGED <<file, valid, revoked, faults, scans>>

-----------------------------------------------------------------------------
(* save: fs::write truncates the file, then writes it. *)

Truncate ==
  /\ pc = "save"
  /\ file' = NoAuth
  /\ pc' = "write"
  /\ UNCHANGED <<mem, loaded, fresh, after, valid, revoked, faults, scans>>

Write ==
  /\ pc = "write"
  /\ file' = mem
  /\ pc' = after /\ after' = "up"
  /\ UNCHANGED <<mem, loaded, fresh, valid, revoked, faults, scans>>

SaveFails ==
  /\ pc \in {"save", "write"}
  /\ Exit
  /\ UNCHANGED <<file, valid, revoked, scans>>

-----------------------------------------------------------------------------
(* refresh_cookie. *)

NoRefreshNeeded ==
  /\ pc = "check" /\ mem.cookie \in valid
  /\ pc' = "up"
  /\ UNCHANGED <<mem, loaded, fresh, after, file, valid, revoked, faults, scans>>

RefreshNeeded ==
  /\ pc = "check" /\ mem.cookie \in valid
  /\ pc' = "refresh"
  /\ UNCHANGED <<mem, loaded, fresh, after, file, valid, revoked, faults, scans>>

\* perform_refresh: the platform issues a session beside the old one; its answer may
\* be lost.
Refreshed ==
  /\ pc = "refresh" /\ mem.cookie \in valid /\ mem.token \in valid
  /\ \/ \E s \in New :
          /\ fresh' = s
          /\ valid' = valid \cup {s} /\ revoked' = revoked \ {s}
          /\ pc' = "confirm"
          /\ UNCHANGED <<mem, loaded, after, faults>>
     \/ Exit /\ UNCHANGED <<valid, revoked>>
  /\ UNCHANGED <<file, scans>>

\* The platform drops the session whose refresh token it is given.
Revoke(s) == valid' = valid \ {s} /\ revoked' = revoked \cup {s}

\* Mutant: the new refresh token is taken over before the confirmation.
ConfirmingNew == fresh

\* The token of the session to be given up.
Confirming == mem.token

\* Mutant: the answer's refresh token is not read.
RenewedTokenless == [cookie |-> fresh, token |-> NoSession]

\* Mutant: the new refresh token is not taken over.
RenewedOldToken == [mem EXCEPT !.cookie = fresh]

Renewed == Pair(fresh)

\* confirm_refresh with the new cookies and the old token; then the new session takes
\* the place of the old one and is saved.
Confirmed ==
  /\ pc = "confirm" /\ fresh \in valid
  /\ Revoke(Confirming)
  /\ \/ /\ mem' = Renewed /\ fresh' = NoSession
        /\ Saved("up")
        /\ UNCHANGED <<loaded, faults>>
     \/ Exit
  /\ UNCHANGED <<file, scans>>

\* An error on the way, from need_refresh to the confirmation.
RefreshFails ==
  /\ pc \in {"check", "refresh", "confirm"}
  /\ Exit
  /\ UNCHANGED <<file, valid, revoked, scans>>

\* The platform refuses because a session has expired meanwhile.
RefreshRefused ==
  /\ \/ pc \in {"check", "refresh"} /\ mem.cookie \notin valid
     \/ pc = "confirm" /\ fresh \notin valid
  /\ Down
  /\ UNCHANGED <<file, valid, revoked, faults, scans>>

-----------------------------------------------------------------------------
Loading    == Start \/ LoadedValid \/ LoadedInvalid
SigningIn  == QrShown \/ Scanned \/ LoginAccepted \/ LoginFails \/ LoginRefused
Saving     == Truncate \/ Write \/ SaveFails
Refreshing == NoRefreshNeeded \/ RefreshNeeded \/ Refreshed \/ Confirmed \/ RefreshFails
              \/ RefreshRefused

Next == Loading \/ SigningIn \/ Saving \/ Refreshing \/ Stop \/ Crash \/ Expire

\* A program that is down is started again, its requests get answers, and the user
\* scans a code that is shown.
Fairness ==
  WF_vars(Loading \/ SigningIn \/ Saving \/ Refreshing)

Spec == Init /\ [][Next]_vars /\ Fairness

-----------------------------------------------------------------------------
(* Properties. *)

\* Every variable keeps its type.
TypeOK ==
  /\ pc \in {"down", "validate", "qr", "poll", "accept", "save", "write", "check",
             "refresh", "confirm", "up"}
  /\ {mem, loaded, file} \subseteq Auths \cup {NoAuth}
  /\ fresh \in Sessions \cup {NoSession}
  /\ after \in {"check", "up"}
  /\ valid \subseteq Sessions /\ revoked \subseteq Sessions
  /\ faults \in 0 .. MaxFaults
  /\ scans \in Nat

\* The session the program counts on: the saved one while it is down, the one read or
\* scanned while that is examined, the one in memory from then on.
Current ==
  IF pc = "down" THEN file
  ELSE IF pc \in {"validate", "accept"} THEN loaded
  ELSE IF pc \in {"qr", "poll"} THEN NoAuth
  ELSE mem
Usable == Current # NoAuth /\ Current.cookie \in valid

\* Where the sessions are: examined and used ones exist, what runs is what is saved,
\* a refreshed session is not the old one, none is both accepted and revoked.
PlaceInv ==
  /\ pc \notin {"down", "qr", "poll"} => Current # NoAuth
  /\ pc = "validate" => loaded = file
  /\ pc \in {"check", "refresh", "confirm", "up"} => file = mem
  /\ pc = "confirm" => fresh \in Sessions /\ fresh \notin Of(mem)
  /\ valid \cap revoked = {}

\* The current session fails only after a fault, and one scan is granted for each
\* fault and for each usable session.
CountInv ==
  /\ faults = 0 => Current = NoAuth \/ Usable
  /\ scans <= faults + (IF Usable THEN 1 ELSE 0)

\* Cookies and refresh token always are of one session, in memory and in the file: a
\* refresh that breaks off never leaves one of them behind.
PairsMatch == \A auth \in {mem, loaded, file} \ {NoAuth} : auth.cookie = auth.token

\* The program never runs, and never begins to save, with a session that its own
\* confirmation has revoked.
NeverOwnRevoked ==
  pc \in {"check", "refresh", "confirm", "save", "write", "up"} =>
    mem.cookie \notin revoked

\* Unless something fails, the file holds a session the platform accepts whenever the
\* program runs or is down, through any number of refreshes and restarts.
FileStaysUsable ==
  faults = 0 /\ pc \in {"up", "down", "check", "refresh"} =>
    /\ scans > 0 => file # NoAuth
    /\ file # NoAuth => file.cookie \in valid

\* The program asks its user to scan once at first, and at most once more for each
\* fault: a torn file, a lost answer or a revoked session costs one login, not several.
OneScanPerFault == scans <= faults + 1

\* A program that is down comes up again, whatever a crash has left of its file.
ComesUp == pc = "down" ~> pc = "up"

=============================================================================
