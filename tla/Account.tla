------------------------------ MODULE Account ------------------------------
(***************************************************************************)
(* The one account of an installation: its profile, kept in a file and in   *)
(* the database, its user at the identity provider (Supabase Auth) with a   *)
(* password of its own and authenticators, and the profile photos in the    *)
(* provider's storage.  Every handler of the web process changes one or     *)
(* more of them; another request may run wherever a handler awaits.         *)
(*                                                                          *)
(* Built-in mode with the provider configured.  A password, a name, a photo *)
(* is the number of the change that made it.                                *)
(***************************************************************************)
EXTENDS Naturals, FiniteSets

CONSTANTS
  Browsers,    \* each runs one request at a time
  Emails,      \* addresses a set-up form is filled with
  None,
  MaxCalls,    \* bound: requests that change something
  MaxMissed,   \* bound: writes of the profile the database misses
  MaxFaults    \* bound: requests the identity provider fails

VARIABLES
  file,     \* users.json: the profile, or None
  pg,       \* the row of user_profile, or None
  users,    \* users[e]: the provider's user for the address e, or None
  factors,  \* the authenticators of the profile's user: number -> verified?
  objects,  \* photos in storage
  session,  \* session[b]: the name in b's cookie, or None
  call,     \* call[b]: the handler b waits for
  calls, missed, faults,
  last      \* history: the last request to change the password, and whether
            \* it and no other one ran

vars == <<file, pg, users, factors, objects, session, call, calls, missed, faults, last>>

Numbers == 0..MaxCalls
Profiles == [name : Numbers, pw : Numbers, photo : Numbers, user : Emails]
Idle == [do |-> "idle"]

TypeOK ==
  /\ file \in Profiles \cup {None} /\ pg \in Profiles \cup {None}
  /\ users \in [Emails -> [pw : Numbers, name : Numbers] \cup {None}]
  /\ DOMAIN factors \subseteq Numbers /\ \A f \in DOMAIN factors : factors[f] \in BOOLEAN
  /\ objects \subseteq Numbers
  /\ session \in [Browsers -> Numbers \cup {None}]
  /\ DOMAIN call = Browsers
  /\ calls \in Numbers /\ missed \in 0..MaxMissed /\ faults \in 0..MaxFaults
  /\ last \in [pw : Numbers, ok : BOOLEAN]

Init ==
  /\ file = None /\ pg = None /\ users = [e \in Emails |-> None]
  /\ factors = [f \in {} |-> TRUE] /\ objects = {}
  /\ session = [b \in Browsers |-> None] /\ call = [b \in Browsers |-> Idle]
  /\ calls = 0 /\ missed = 0 /\ faults = 0 /\ last = [pw |-> 0, ok |-> FALSE]

----------------------------------------------------------------------------
\* get_user: the database's profile goes before the file's.
User == IF pg # None THEN pg ELSE file
SetUp == pg # None \/ file # None
SignedIn(b) == SetUp /\ session[b] = User.name

\* _save_user: the file, then the database, whose failure goes unnoticed.
Save(profile) ==
  /\ file' = profile
  /\ \/ pg' = profile /\ missed' = missed
     \/ pg' = pg /\ missed < MaxMissed /\ missed' = missed + 1

stores == <<file, pg, missed>>
Fails == faults < MaxFaults /\ faults' = faults + 1
Does(b, do) == call[b].do = do
Becomes(b, state) == call' = [call EXCEPT ![b] = state]
End(b) == Becomes(b, Idle)
Begin(b, state) ==
  /\ Does(b, "idle") /\ calls < MaxCalls
  /\ calls' = calls + 1
  /\ Becomes(b, state)

----------------------------------------------------------------------------
(* Set-up: the provider's user, the photo, the profile.                     *)
Setup(b, e, photo) ==
  /\ ~SetUp
  /\ Begin(b, [do |-> "setup", user |-> e, n |-> calls + 1, photo |-> photo])
  /\ UNCHANGED <<stores, users, factors, objects, session, faults, last>>

CreateUser(b) ==
  /\ Does(b, "setup")
  /\ LET c == call[b] IN
       \/ /\ users[c.user] = None
          /\ users' = [users EXCEPT ![c.user] = [pw |-> c.n, name |-> c.n]]
          /\ Becomes(b, [c EXCEPT !.do = IF c.photo THEN "avatar" ELSE "record"])
          /\ UNCHANGED faults
       \/ /\ users[c.user] # None \/ faults < MaxFaults
          /\ faults' = IF users[c.user] # None THEN faults ELSE faults + 1
          /\ End(b) /\ UNCHANGED users
  /\ UNCHANGED <<stores, factors, objects, session, calls, last>>

\* The photo is stored, or is no image: then the set-up ends here.
Avatar(b) ==
  /\ Does(b, "avatar")
  /\ \/ objects' = objects \cup {call[b].n} /\ Becomes(b, [call[b] EXCEPT !.do = "record"])
     \/ UNCHANGED objects /\ End(b)
  /\ UNCHANGED <<stores, users, factors, session, calls, faults, last>>

\* create_user looks again whether the account exists.
CreateProfile(b) ==
  /\ Does(b, "record") /\ ~SetUp
  /\ LET c == call[b] IN
       /\ Save([name |-> c.n, pw |-> c.n, photo |-> IF c.photo THEN c.n ELSE 0, user |-> c.user])
       /\ session' = [session EXCEPT ![b] = c.n]
       /\ last' = [pw |-> c.n, ok |-> TRUE]
  /\ End(b)
  /\ UNCHANGED <<users, factors, objects, calls, faults>>

TooLate(b) ==
  /\ Does(b, "record") /\ SetUp
  /\ End(b)
  /\ UNCHANGED <<stores, users, factors, objects, session, calls, faults, last>>

----------------------------------------------------------------------------
(* Signing in and out.                                                      *)
Verified == {f \in DOMAIN factors : factors[f]}

\* A bug: the profile's password is not tried once the provider has the user.
AcceptsMutant(profile, pw) ==
  users[profile.user] # None /\ users[profile.user].pw = pw

\* The provider's password, or the profile's while no authenticator is verified.
Accepts(profile, pw) ==
  \/ users[profile.user] # None /\ users[profile.user].pw = pw
  \/ Verified = {} /\ profile.pw = pw

\* The profile is read, then the provider is asked.
Login(b, pw) ==
  /\ SetUp /\ Does(b, "idle") /\ session[b] # User.name
  /\ Becomes(b, [do |-> "login", profile |-> User, pw |-> pw])
  /\ UNCHANGED <<stores, users, factors, objects, session, calls, faults, last>>

\* The authenticator's code, where one is asked for, is given.
LoggedIn(b) ==
  /\ Does(b, "login")
  /\ session' = IF Accepts(call[b].profile, call[b].pw)
                THEN [session EXCEPT ![b] = call[b].profile.name] ELSE session
  /\ End(b)
  /\ UNCHANGED <<stores, users, factors, objects, calls, faults, last>>

Logout(b) ==
  /\ Does(b, "idle") /\ session[b] # None
  /\ session' = [session EXCEPT ![b] = None]
  /\ UNCHANGED <<stores, users, factors, objects, call, calls, faults, last>>

----------------------------------------------------------------------------
(* Changes of the profile: the profile first, then the provider's copy.     *)
ChangePassword(b) ==
  /\ SignedIn(b)
  /\ Begin(b, [do |-> "password", user |-> User.user, n |-> calls + 1,
               alone |-> ~\E c \in Browsers : Does(c, "password")])
  /\ Save([User EXCEPT !.pw = calls + 1])
  /\ last' = [pw |-> calls + 1, ok |-> FALSE]
  /\ UNCHANGED <<users, factors, objects, session, faults>>

\* admin_update_password; a failure is answered as one.
SyncPassword(b) ==
  /\ Does(b, "password")
  /\ LET c == call[b] IN
       \/ /\ users' = [users EXCEPT ![c.user].pw = c.n]
          /\ last' = [last EXCEPT !.ok = c.alone /\ last.pw = c.n]
          /\ UNCHANGED faults
       \/ Fails /\ UNCHANGED <<users, last>>
  /\ End(b)
  /\ UNCHANGED <<stores, factors, objects, session, calls>>

ChangeName(b) ==
  /\ SignedIn(b)
  /\ Begin(b, [do |-> "name", user |-> User.user, n |-> calls + 1])
  /\ Save([User EXCEPT !.name = calls + 1])
  /\ UNCHANGED <<users, factors, objects, session, faults, last>>

\* The cookie with the new name is set only when the provider has it too.
SyncName(b) ==
  /\ Does(b, "name")
  /\ LET c == call[b] IN
       \/ /\ users' = [users EXCEPT ![c.user].name = c.n]
          /\ session' = [session EXCEPT ![b] = c.n]
          /\ UNCHANGED faults
       \/ Fails /\ UNCHANGED <<users, session>>
  /\ End(b)
  /\ UNCHANGED <<stores, factors, objects, calls, last>>

----------------------------------------------------------------------------
(* The photo: upload, remove the one before, then name the new one.         *)
Upload(b) ==
  /\ SignedIn(b)
  /\ Begin(b, [do |-> "upload", n |-> calls + 1, previous |-> User.photo])
  /\ UNCHANGED <<stores, users, factors, objects, session, faults, last>>

Uploaded(b) ==
  /\ Does(b, "upload")
  /\ \/ objects' = objects \cup {call[b].n} /\ UNCHANGED faults
        /\ Becomes(b, [call[b] EXCEPT !.do = "replace"])
     \/ Fails /\ End(b) /\ UNCHANGED objects
  /\ UNCHANGED <<stores, users, factors, session, calls, last>>

DeletePhoto(b) ==
  /\ SignedIn(b)
  /\ Begin(b, [do |-> "replace", n |-> 0, previous |-> User.photo])
  /\ UNCHANGED <<stores, users, factors, objects, session, faults, last>>

\* A failure to remove the old object is only logged.
RemoveOld(b) ==
  /\ Does(b, "replace")
  /\ \/ objects' = objects \ {call[b].previous} /\ UNCHANGED faults
     \/ Fails /\ UNCHANGED objects
  /\ Becomes(b, [call[b] EXCEPT !.do = "point"])
  /\ UNCHANGED <<stores, users, factors, session, calls, last>>

\* A bug: the profile read before the upload is written back.
PointMutant(b) ==
  /\ Does(b, "point")
  /\ Save([User EXCEPT !.photo = IF call[b].n = 0 THEN call[b].previous ELSE call[b].n])
  /\ End(b)
  /\ UNCHANGED <<users, factors, objects, session, calls, faults, last>>

\* set_profile_photo reads the profile again.
Point(b) ==
  /\ Does(b, "point")
  /\ Save([User EXCEPT !.photo = call[b].n])
  /\ End(b)
  /\ UNCHANGED <<users, factors, objects, session, calls, faults, last>>

----------------------------------------------------------------------------
(* The authenticator.                                                       *)
\* None may be verified; unverified ones are dropped.
Enroll(b) ==
  /\ SignedIn(b) /\ Verified = {}
  /\ factors' = [f \in {} |-> TRUE]
  /\ Begin(b, [do |-> "enroll", n |-> calls + 1])
  /\ UNCHANGED <<stores, users, objects, session, faults, last>>

\* The provider checks the password and makes the factor, whose code is asked.
Enrolled(b) ==
  /\ Does(b, "enroll")
  /\ \/ /\ factors' = [f \in DOMAIN factors \cup {call[b].n} |->
                         f \in DOMAIN factors /\ factors[f]]
        /\ Becomes(b, [call[b] EXCEPT !.do = "confirm"])
     \/ UNCHANGED factors /\ End(b)
  /\ UNCHANGED <<stores, users, objects, session, calls, faults, last>>

\* The first code confirms it, unless it was dropped or the user gives up.
Confirm(b) ==
  /\ Does(b, "confirm")
  /\ \/ /\ call[b].n \in DOMAIN factors
        /\ factors' = [factors EXCEPT ![call[b].n] = TRUE]
     \/ UNCHANGED factors
  /\ End(b)
  /\ UNCHANGED <<stores, users, objects, session, calls, faults, last>>

Disable(b, f) ==
  /\ SignedIn(b) /\ Does(b, "idle") /\ f \in Verified
  /\ factors' = [g \in DOMAIN factors \ {f} |-> factors[g]]
  /\ UNCHANGED <<stores, users, objects, session, call, calls, faults, last>>

Request(b) ==
  \/ \E e \in Emails, photo \in BOOLEAN : Setup(b, e, photo)
  \/ \E pw \in 1..calls : Login(b, pw)
  \/ Logout(b) \/ ChangePassword(b) \/ ChangeName(b)
  \/ Upload(b) \/ DeletePhoto(b) \/ Enroll(b)
  \/ \E f \in Numbers : Disable(b, f)

Continue(b) ==
  \/ LoggedIn(b) \/ CreateUser(b) \/ Avatar(b) \/ CreateProfile(b) \/ TooLate(b)
  \/ SyncPassword(b) \/ SyncName(b)
  \/ Uploaded(b) \/ RemoveOld(b) \/ Point(b) \/ Enrolled(b) \/ Confirm(b)

Next == \E b \in Browsers : Request(b) \/ Continue(b)
Spec == Init /\ [][Next]_vars

----------------------------------------------------------------------------
\* A password the user was told is changed, with no other change meanwhile or
\* since, signs in, although the database missed writes of the profile and
\* the provider failed, as long as no authenticator is asked for.
LastPasswordWorks == SetUp /\ last.ok /\ Verified = {} => Accepts(User, last.pw)

\* While no photo is being changed and the database missed nothing, the photo
\* the profile names is in storage, whichever uploads and removals overlapped.
PhotoThere ==
  SetUp /\ missed = 0 /\ (\A b \in Browsers : call[b].do \notin {"replace", "point"})
    => User.photo = 0 \/ User.photo \in objects
=============================================================================
