-------------------------------- MODULE Auth --------------------------------
(***************************************************************************)
(* Logins, tokens and password changes.  The handlers read the hash under  *)
(* the lock of the store, check it without, and a change sets the new one  *)
(* under the lock again; requests, saves, restores and restarts interleave *)
(* with these steps.  A token carries its expiry in whole seconds, while   *)
(* the program runs on a finer clock: time passes here in half seconds.    *)
(*                                                                         *)
(* A hash keeps nothing but the password it was made from.  Of the store   *)
(* there is the one login in memory and the one in the snapshot file: its  *)
(* steps are those Login describes and Lifecycle implements.               *)
(***************************************************************************)
EXTENDS Integers, FiniteSets

CONSTANTS
    Users,         \* logins
    Passwords,     \* passwords people choose
    Secrets,       \* values of JWT_SECRET
    Requests,      \* concurrent requests
    Hours,         \* JWT_EXPIRY_HOURS
    Hour,          \* half seconds in an hour
    HalfRange,     \* a time.Duration is in -HalfRange .. HalfRange - 1 half seconds
    Epoch,         \* when the first process starts, in half seconds since 1970
    MaxTime,       \* bound: the time
    MaxStarts,     \* bound: starts of the process
    MaxTokens,     \* bound: tokens followed
    MaxRestores    \* bound: dumps restored

ASSUME AuthAssumption ==
    /\ Hours \in Int /\ Hour \in Nat /\ HalfRange \in Nat \ {0}
    /\ Epoch \in Nat /\ Epoch >= 2
    /\ MaxTime \in Nat /\ MaxStarts \in Nat /\ MaxTokens \in Nat
    /\ MaxRestores \in Nat
    /\ Passwords \cap Nat = {} /\ Secrets \cap (Nat \cup {"unset"}) = {}

VARIABLES
    now,       \* time.Now
    starts,    \* the processes started so far; identifies the running one
    env,       \* JWT_SECRET of the running process, or Unset
    login,     \* the administrator in memory
    past,      \* the administrators the process has had in memory
    saved,     \* the administrator a start would load
    tokens,    \* the tokens issued (up to the bound), with history: see Token
    req,       \* the requests: see Idle
    known,     \* history: the passwords somebody has been told or has chosen
    restores   \* history: dumps restored

process == <<starts, env>>
vars == <<now, process, login, past, saved, tokens, req, known, restores>>

Generated == 1..MaxStarts     \* randomString(12): another one at each start

\* HashPassword and CheckPassword: PBKDF2 tells any two passwords apart.  (The
\* salt, which tells two hashes of one password apart, is left out.)
HashPassword(p) == [of |-> p]
CheckPassword(hash, p) == hash.of = p

NoHash == HashPassword(0)
NoLogin == [user |-> "none", hash |-> NoHash]

-----------------------------------------------------------------------------
(* Tokens *)

Unset == "unset"

\* h.Cfg.JWTSecret: the configured one, or a random one made at each start.
Secret(start, configured) == IF configured = Unset THEN start ELSE configured

secret == Secret(starts, env)

\* time.Time.Unix: whole seconds.
Unix(t) == t \div 2

\* A product of type time.Duration: 64 bits, which wrap around.
Duration(t) == ((t + HalfRange) % (2 * HalfRange)) - HalfRange

\* GenerateToken, and when, by which process and how it was signed (history).
GenerateToken(u) ==
    LET expiresAt == now + Duration(Hours * Hour)
    IN  [user |-> u, exp |-> Unix(expiresAt), secret |-> secret,
         issued |-> now, start |-> starts, env |-> env]

\* Mutant: the second in which the token expires is one too many.
ParseTokenStrictly(tok) ==
    /\ tok.secret = secret
    /\ ~(tok.exp > 0 /\ Unix(now) >= tok.exp)

\* ParseToken accepts the token.
ParseToken(tok) ==
    /\ tok.secret = secret
    /\ ~(tok.exp > 0 /\ Unix(now) > tok.exp)

-----------------------------------------------------------------------------
(* Requests *)

\* A request: its step and handler, the login and the password it presents,
\* the new password of a change, the hash it has read; and, as history, the
\* hashes that login has had since the request came.
Idle == [at |-> "idle", kind |-> "login", user |-> "none", password |-> 0,
         new |-> 0, hash |-> NoHash, window |-> {}]

At(r, step) == req[r].at = step
Finish(r) == req' = [req EXCEPT ![r] = Idle]

HashOf(l, u) == IF l.user = u THEN {l.hash} ELSE {}

\* The requests as they are when the login becomes l.
Widened(l) ==
    [r \in Requests |->
        IF At(r, "idle") THEN req[r]
        ELSE [req[r] EXCEPT !.window = @ \cup HashOf(l, req[r].user)]]

\* Login with a body that parses.
BeginLogin(r, u, p) ==
    /\ At(r, "idle")
    /\ req' = [req EXCEPT ![r] =
           [Idle EXCEPT !.at = "read", !.user = u, !.password = p,
                        !.window = HashOf(login, u)]]
    /\ UNCHANGED <<now, process, login, past, saved, tokens, known, restores>>

\* A request with this token is let through.
RequireAuth(tok) == ParseToken(tok)

\* ChangePassword with a body that parses.  The token names the user; nobody
\* asks if there is such a login still.
BeginChange(r, tok, old, new) ==
    /\ At(r, "idle")
    /\ RequireAuth(tok)
    /\ req' = [req EXCEPT ![r] =
           [at |-> "read", kind |-> "change", user |-> tok.user, password |-> old,
            new |-> new, hash |-> NoHash, window |-> HashOf(login, tok.user)]]
    /\ UNCHANGED <<now, process, login, past, saved, tokens, known, restores>>

\* Mutant: the hash comes from a copy that is refreshed by the saves.
ReadHashCached(r) ==
    /\ At(r, "read")
    /\ LET l == IF saved = NoLogin THEN login ELSE saved
       IN  IF l.user = req[r].user
           THEN req' = [req EXCEPT ![r].hash = l.hash, ![r].at = "check"]
           ELSE Finish(r)
    /\ UNCHANGED <<now, process, login, past, saved, tokens, known, restores>>

\* Store.PasswordHash; 401 if there is no such login.
ReadHash(r) ==
    /\ At(r, "read")
    /\ IF login.user = req[r].user
       THEN req' = [req EXCEPT ![r].hash = login.hash, ![r].at = "check"]
       ELSE Finish(r)
    /\ UNCHANGED <<now, process, login, past, saved, tokens, known, restores>>

\* CheckPassword; 401 if it is another one.
Check(r) ==
    /\ At(r, "check")
    /\ IF CheckPassword(req[r].hash, req[r].password)
       THEN req' = [req EXCEPT ![r].at = IF req[r].kind = "login" THEN "issue" ELSE "set"]
       ELSE Finish(r)
    /\ UNCHANGED <<now, process, login, past, saved, tokens, known, restores>>

\* The end of Login.  (Tokens past the bound are not followed.)
Issue(r) ==
    /\ At(r, "issue")
    /\ tokens' = IF Cardinality(tokens) < MaxTokens
                 THEN tokens \cup {GenerateToken(req[r].user)} ELSE tokens
    /\ Finish(r)
    /\ UNCHANGED <<now, process, login, past, saved, known, restores>>

\* The end of ChangePassword: the hash is made, and set if there is such a
\* login still; the old one is not looked at again.
SetPasswordHash(r) ==
    /\ At(r, "set")
    /\ login' = IF login.user = req[r].user
                THEN [login EXCEPT !.hash = HashPassword(req[r].new)] ELSE login
    /\ known' = IF login.user = req[r].user THEN known \cup {req[r].new} ELSE known
    /\ req' = [Widened(login') EXCEPT ![r] = Idle]
    /\ past' = past \cup {login'}
    /\ UNCHANGED <<now, process, saved, tokens, restores>>

-----------------------------------------------------------------------------
(* The rest of the program *)

Tick ==
    /\ now < MaxTime
    /\ now' = now + 1
    /\ UNCHANGED <<process, login, past, saved, tokens, req, known, restores>>

\* A save ends that has read the login before a change or a restore, or after;
\* saves that overlap may leave an empty file; one that fails leaves the file.
\* (What the last process of the bound would save nobody loads.)
Save ==
    /\ starts < MaxStarts
    /\ saved' \in past \cup {NoLogin}
    /\ UNCHANGED <<now, process, login, past, tokens, req, known, restores>>

\* A dump of this program or of another one comes back, and is yet to be saved;
\* who restores it knows its password or once did.
Restore(u, p) ==
    /\ restores < MaxRestores /\ restores' = restores + 1
    /\ login' = [user |-> u, hash |-> HashPassword(p)]
    /\ past' = past \cup {login'}
    /\ known' = known \cup {p}
    /\ req' = Widened(login')
    /\ UNCHANGED <<now, process, saved, tokens>>

\* The environment of a process: JWT_SECRET, the name of the
\* administrator, and the password, printed if it is generated.
Configuration(n) == [env : Secrets \cup {Unset}, user : Users, password : Passwords \cup {n}]

\* Mutant: the password of the configuration is set at every start, and
\* printed when the login is created.
EnsureAdminAlways(l, c) ==
    /\ login' = [user |-> c.user, hash |-> HashPassword(c.password)]
    /\ known' = IF l = NoLogin \/ c.password \in Passwords
                THEN known \cup {c.password} ELSE known

\* Mutant: only the first start creates the administrator.
EnsureAdminFirst(l, c) ==
    /\ login' = l
    /\ known' = known

\* main creates the administrator if what New loaded has none; only then is
\* the password of the configuration used, and printed.
EnsureAdmin(l, c) ==
    IF l = NoLogin
    THEN /\ login' = [user |-> c.user, hash |-> HashPassword(c.password)]
         /\ known' = known \cup {c.password}
    ELSE /\ login' = l
         /\ known' = known

\* The process ends, killed or stopped, and starts again.
Restart ==
    /\ starts < MaxStarts
    /\ starts' = starts + 1
    /\ \E c \in Configuration(starts') : env' = c.env /\ EnsureAdmin(saved, c)
    /\ past' = {login'}
    /\ req' = [r \in Requests |-> Idle]
    /\ UNCHANGED <<now, saved, tokens, restores>>

Init ==
    /\ now = Epoch
    /\ starts = 1
    /\ saved = NoLogin
    /\ \E c \in Configuration(1) :
        /\ env = c.env
        /\ login = [user |-> c.user, hash |-> HashPassword(c.password)]
        /\ known = {c.password}
    /\ past = {login}
    /\ tokens = {} /\ restores = 0
    /\ req = [r \in Requests |-> Idle]

Next ==
    \/ \E r \in Requests :
        \/ \E u \in Users, p \in Passwords \cup known : BeginLogin(r, u, p)
        \/ \E tok \in tokens, old \in Passwords \cup known, new \in Passwords :
               BeginChange(r, tok, old, new)
        \/ ReadHash(r) \/ Check(r) \/ Issue(r) \/ SetPasswordHash(r)
    \/ Tick
    \/ Save
    \/ \E u \in Users, p \in Passwords \cup known : Restore(u, p)
    \/ Restart

Spec == Init /\ [][Next]_vars

-----------------------------------------------------------------------------
(* Properties *)

AnyPassword == Passwords \cup Nat
Hash == [of : AnyPassword]
LoginRecord == [user : Users, hash : Hash]
Environment == Secrets \cup {Unset}
Token == [user : Users, exp : Int, secret : Secrets \cup Nat,
          issued : Nat, start : Nat, env : Environment]
Request == [at : {"idle", "read", "check", "issue", "set"}, kind : {"login", "change"},
            user : Users \cup {"none"}, password : AnyPassword, new : AnyPassword,
            hash : Hash, window : SUBSET Hash]

AuthTypeOK ==
    /\ now \in Nat /\ starts \in Nat /\ env \in Environment
    /\ login \in LoginRecord /\ past \subseteq LoginRecord
    /\ saved \in LoginRecord \cup {NoLogin}
    /\ tokens \subseteq Token
    /\ req \in [Requests -> Request]
    /\ known \subseteq AnyPassword /\ restores \in Nat

\* A request that is let through presented a password its login had at some
\* moment since the request came: one that is sent after a change was answered
\* cannot use the old password, whatever else is going on (auth.go:56, 99).
Earned ==
    \A r \in Requests :
        req[r].at \in {"issue", "set"} =>
            \E h \in req[r].window : CheckPassword(h, req[r].password)

\* The password in effect is one that somebody was told or has chosen, and not
\* one of those that are generated at each start and thrown away: nobody is
\* locked out by a restart, a crash or a restore (main.go:52-68).
KnownLogin == \E p \in known : CheckPassword(login.hash, p)

\* A token is good in the process that issued it and, if both were started with
\* the same JWT_SECRET, in a later one; in no other one, neither with another
\* JWT_SECRET nor without (main.go:47-50, README.md:37).
SameSecret(tok) == tok.start = starts \/ (tok.env = env /\ env # Unset)

\* There it is accepted for the configured hours from its issue, through any
\* restarts in between, and refused when a second more has passed; elsewhere
\* it is refused at all times (jwt.go:34-49, 85).
LifetimeAsConfigured ==
    \A tok \in tokens :
        /\ SameSecret(tok) /\ now <= tok.issued + Hours * Hour => ParseToken(tok)
        /\ ~SameSecret(tok) \/ now >= tok.issued + Hours * Hour + 2 => ~ParseToken(tok)

=============================================================================
