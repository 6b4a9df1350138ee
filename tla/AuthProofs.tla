----------------------------- MODULE AuthProofs -----------------------------
(***************************************************************************)
(* Logins, tokens and password changes, for any number of users, requests, *)
(* tokens, restarts and restores.  Three independent arguments: a request  *)
(* carries the hashes its login has had since it came (RequestsEarned); a  *)
(* token tells when and by which process it was signed (TokensSigned); the *)
(* password of every copy of the login is known (LoginsKnown).             *)
(***************************************************************************)
EXTENDS Auth, TLAPS

\* While a request is handled its window holds the hash in effect, and the one
\* it has read; past the check, one it has presented the password of.
RequestsEarned ==
    \A r \in Requests :
        /\ ~At(r, "idle") => /\ req[r].user \in Users
                             /\ HashOf(login, req[r].user) \subseteq req[r].window
        /\ At(r, "check") => req[r].hash \in req[r].window
        /\ req[r].at \in {"issue", "set"} =>
               \E h \in req[r].window : CheckPassword(h, req[r].password)

\* A token was signed by one of the processes so far with the secret it had.
TokensSigned ==
    /\ now >= Epoch /\ starts >= 1
    /\ \A tok \in tokens :
           /\ tok.secret = Secret(tok.start, tok.env)
           /\ tok.exp = Unix(tok.issued + Duration(Hours * Hour))
           /\ tok.issued >= Epoch
           /\ 1 <= tok.start /\ tok.start <= starts
           /\ tok.start = starts => tok.env = env

\* Somebody knows the passwords this process has had in memory, all of which a
\* save may write, and the one in the file.
LoginsKnown ==
    /\ login \in past
    /\ \A l \in past : \E p \in known : CheckPassword(l.hash, p)
    /\ saved # NoLogin => \E p \in known : CheckPassword(saved.hash, p)

AuthInv == AuthTypeOK /\ RequestsEarned /\ TokensSigned /\ LoginsKnown

-----------------------------------------------------------------------------

LEMMA HashTypes ==
    /\ NoHash \in Hash
    /\ \A p \in AnyPassword : HashPassword(p) \in Hash /\ HashPassword(p).of = p
    /\ \A l \in LoginRecord \cup {NoLogin} : \A u : HashOf(l, u) \subseteq Hash
<1>1. \A p \in AnyPassword : HashPassword(p) \in Hash /\ HashPassword(p).of = p
  BY DEF HashPassword, Hash
<1>2. NoHash \in Hash BY <1>1 DEF NoHash, AnyPassword
<1> QED BY <1>1, <1>2 DEF HashOf, LoginRecord, NoLogin

\* Widening adds the new hash to the windows and changes nothing else.
LEMMA WidenedFacts ==
    ASSUME req \in [Requests -> Request], NEW l \in LoginRecord
    PROVE  /\ Widened(l) \in [Requests -> Request]
           /\ \A r \in Requests :
                  LET q == Widened(l)[r]
                  IN  /\ q.at = req[r].at /\ q.hash = req[r].hash
                      /\ q.user = req[r].user /\ q.password = req[r].password
                      /\ q.at # "idle" => q.window = req[r].window \cup HashOf(l, req[r].user)
<1> SUFFICES ASSUME NEW r \in Requests
             PROVE  LET q == Widened(l)[r]
                    IN  /\ q \in Request
                        /\ q.at = req[r].at /\ q.hash = req[r].hash
                        /\ q.user = req[r].user /\ q.password = req[r].password
                        /\ q.at # "idle" => q.window = req[r].window \cup HashOf(l, req[r].user)
  BY DEF Widened
<1>1. HashOf(l, req[r].user) \subseteq Hash BY HashTypes
<1>2. req[r] \in Request OBVIOUS
<1>3. CASE At(r, "idle") BY <1>2, <1>3 DEF Widened, At
<1>4. CASE ~At(r, "idle")
  <2>1. Widened(l)[r] = [req[r] EXCEPT !.window = @ \cup HashOf(l, req[r].user)]
    BY <1>4 DEF Widened
  <2> QED BY <1>1, <1>2, <2>1 DEF Request
<1> QED BY <1>3, <1>4

\* An idle request satisfies whatever is asked of requests.
LEMMA IdleFacts == Idle \in Request /\ Idle.at = "idle"
  BY HashTypes DEF Idle, Request, AnyPassword

-----------------------------------------------------------------------------
(* The steps of requests *)

\* A step that changes one request and keeps the promises about it.
LEMMA OneRequest ==
    ASSUME AuthInv, UNCHANGED <<now, process, login, past, saved, tokens, known, restores>>,
           NEW r \in Requests, NEW q \in Request, req' = [req EXCEPT ![r] = q],
           q.at # "idle" => q.user \in Users /\ HashOf(login, q.user) \subseteq q.window,
           q.at = "check" => q.hash \in q.window,
           q.at \in {"issue", "set"} => \E h \in q.window : CheckPassword(h, q.password)
    PROVE  AuthInv'
<1>1. AuthTypeOK' BY DEF AuthInv, AuthTypeOK, process
<1>2. RequestsEarned' BY DEF AuthInv, AuthTypeOK, RequestsEarned, At, process
<1>3. TokensSigned' /\ LoginsKnown' BY DEF AuthInv, TokensSigned, LoginsKnown, process
<1> QED BY <1>1, <1>2, <1>3 DEF AuthInv

LEMMA BeginLoginStep ==
    ASSUME AuthInv, NEW r \in Requests, NEW u \in Users, NEW p \in Passwords \cup known,
           BeginLogin(r, u, p)
    PROVE  AuthInv'
<1> DEFINE q == [Idle EXCEPT !.at = "read", !.user = u, !.password = p,
                             !.window = HashOf(login, u)]
<1>1. HashOf(login, u) \subseteq Hash BY HashTypes DEF AuthInv, AuthTypeOK
<1>2. p \in AnyPassword BY DEF AuthInv, AuthTypeOK, AnyPassword
<1>3. q \in Request /\ q.at = "read" /\ q.user = u /\ q.window = HashOf(login, u)
  BY <1>1, <1>2, IdleFacts DEF Idle, Request
<1>4. req' = [req EXCEPT ![r] = q]
      /\ UNCHANGED <<now, process, login, past, saved, tokens, known, restores>>
  BY DEF BeginLogin
<1> HIDE DEF q
<1> QED BY <1>3, <1>4, OneRequest

LEMMA BeginChangeStep ==
    ASSUME AuthInv, NEW r \in Requests, NEW tok \in tokens,
           NEW old \in Passwords \cup known, NEW new \in Passwords,
           BeginChange(r, tok, old, new)
    PROVE  AuthInv'
<1> DEFINE q == [at |-> "read", kind |-> "change", user |-> tok.user, password |-> old,
                 new |-> new, hash |-> NoHash, window |-> HashOf(login, tok.user)]
<1>1. HashOf(login, tok.user) \subseteq Hash BY HashTypes DEF AuthInv, AuthTypeOK
<1>2. old \in AnyPassword /\ new \in AnyPassword /\ tok.user \in Users
  BY DEF AuthInv, AuthTypeOK, AnyPassword, Token
<1>3. q \in Request /\ q.at = "read" /\ q.user = tok.user /\ q.window = HashOf(login, tok.user)
  BY <1>1, <1>2, HashTypes DEF Request
<1>4. req' = [req EXCEPT ![r] = q]
      /\ UNCHANGED <<now, process, login, past, saved, tokens, known, restores>>
  BY DEF BeginChange
<1> HIDE DEF q
<1> QED BY <1>2, <1>3, <1>4, OneRequest

LEMMA FinishStep ==
    ASSUME AuthInv, UNCHANGED <<now, process, login, past, saved, tokens, known, restores>>,
           NEW r \in Requests, Finish(r)
    PROVE  AuthInv'
  BY OneRequest, IdleFacts DEF Finish

LEMMA ReadHashStep ==
    ASSUME AuthInv, NEW r \in Requests, ReadHash(r)
    PROVE  AuthInv'
<1>0. UNCHANGED <<now, process, login, past, saved, tokens, known, restores>> BY DEF ReadHash
<1>1. CASE login.user = req[r].user
  <2> DEFINE q == [req[r] EXCEPT !.hash = login.hash, !.at = "check"]
  <2>1. login.hash \in Hash /\ req[r] \in Request
    BY DEF AuthInv, AuthTypeOK, LoginRecord
  <2>2. q \in Request /\ q.at = "check" /\ q.hash = login.hash /\ q.user = req[r].user
        /\ q.window = req[r].window
    BY <2>1 DEF Request
  <2>3. req[r].user \in Users /\ HashOf(login, req[r].user) \subseteq req[r].window
    BY DEF AuthInv, RequestsEarned, ReadHash, At
  <2>4. login.hash \in req[r].window BY <1>1, <2>3 DEF HashOf
  <2>5. req' = [req EXCEPT ![r] = q] BY <1>1 DEF ReadHash, AuthInv, AuthTypeOK
  <2> HIDE DEF q
  <2> QED BY <1>0, <2>2, <2>3, <2>4, <2>5, OneRequest
<1>2. CASE login.user # req[r].user
  BY <1>0, <1>2, FinishStep DEF ReadHash
<1> QED BY <1>1, <1>2

LEMMA CheckStep ==
    ASSUME AuthInv, NEW r \in Requests, Check(r)
    PROVE  AuthInv'
<1>0. UNCHANGED <<now, process, login, past, saved, tokens, known, restores>> BY DEF Check
<1>1. CASE CheckPassword(req[r].hash, req[r].password)
  <2> DEFINE next == IF req[r].kind = "login" THEN "issue" ELSE "set"
             q == [req[r] EXCEPT !.at = next]
  <2>1. req[r] \in Request BY DEF AuthInv, AuthTypeOK
  <2>2. q \in Request /\ q.at \in {"issue", "set"} /\ q.password = req[r].password
        /\ q.window = req[r].window /\ q.user = req[r].user
    BY <2>1 DEF Request
  <2>3. /\ req[r].user \in Users /\ HashOf(login, req[r].user) \subseteq req[r].window
        /\ req[r].hash \in req[r].window
    BY DEF AuthInv, RequestsEarned, Check, At
  <2>4. req' = [req EXCEPT ![r] = q] BY <1>1 DEF Check, AuthInv, AuthTypeOK
  <2> HIDE DEF q, next
  <2>5. \E h \in q.window : CheckPassword(h, q.password) BY <1>1, <2>2, <2>3
  <2>6. q.at # "check" BY <2>2
  <2> QED BY <1>0, <2>2, <2>3, <2>4, <2>5, <2>6, OneRequest
<1>2. CASE ~CheckPassword(req[r].hash, req[r].password)
  BY <1>0, <1>2, FinishStep DEF Check
<1> QED BY <1>1, <1>2

LEMMA TokenFacts ==
    ASSUME AuthInv, NEW u \in Users
    PROVE  LET tok == GenerateToken(u)
           IN  /\ tok \in Token /\ tok.secret = Secret(tok.start, tok.env)
               /\ tok.exp = Unix(tok.issued + Duration(Hours * Hour))
               /\ tok.issued = now /\ tok.start = starts /\ tok.env = env
<1> DEFINE exp == Unix(now + Duration(Hours * Hour))
<1>1. now \in Nat /\ starts \in Nat /\ env \in Environment
  BY DEF AuthInv, AuthTypeOK
<1>2. exp \in Int
  <2>1. Hours * Hour \in Int /\ HalfRange \in Nat \ {0} BY AuthAssumption
  <2>2. Duration(Hours * Hour) \in Int BY <2>1 DEF Duration
  <2> QED BY <1>1, <2>2 DEF Unix
<1>3. secret \in Secrets \cup Nat BY <1>1 DEF secret, Secret, Environment
<1>4. GenerateToken(u) = [user |-> u, exp |-> exp, secret |-> secret,
                          issued |-> now, start |-> starts, env |-> env]
  BY DEF GenerateToken
<1> HIDE DEF exp
<1>5. GenerateToken(u) \in Token BY <1>1, <1>2, <1>3, <1>4 DEF Token
<1> QED BY <1>4, <1>5 DEF exp, secret

LEMMA IssueStep ==
    ASSUME AuthInv, NEW r \in Requests, Issue(r)
    PROVE  AuthInv'
<1> DEFINE tok == GenerateToken(req[r].user)
<1>1. /\ UNCHANGED <<now, process, login, past, saved, known, restores>>
      /\ tokens' = tokens \/ tokens' = tokens \cup {tok}
      /\ req' = [req EXCEPT ![r] = Idle]
  BY DEF Issue, Finish
<1>2. /\ tok \in Token /\ tok.secret = Secret(tok.start, tok.env)
      /\ tok.exp = Unix(tok.issued + Duration(Hours * Hour))
      /\ tok.issued = now /\ tok.start = starts /\ tok.env = env
  <2>1. req[r].user \in Users BY DEF AuthInv, RequestsEarned, Issue, At
  <2> QED BY <2>1, TokenFacts
<1> HIDE DEF tok
<1>3. AuthTypeOK' BY <1>1, <1>2, IdleFacts DEF AuthInv, AuthTypeOK, process
<1>4. RequestsEarned' BY <1>1, IdleFacts DEF AuthInv, AuthTypeOK, RequestsEarned, At, process
<1>5. TokensSigned' BY <1>1, <1>2 DEF AuthInv, AuthTypeOK, TokensSigned, process
<1>6. LoginsKnown' BY <1>1 DEF AuthInv, LoginsKnown
<1> QED BY <1>3, <1>4, <1>5, <1>6 DEF AuthInv

\* When the login changes the windows widen with it.
LEMMA WidenedEarned ==
    ASSUME AuthInv, NEW l \in LoginRecord
    PROVE  \A r \in Requests :
               LET q == Widened(l)[r]
               IN  /\ q \in Request
                   /\ q.at # "idle" => q.user \in Users /\ HashOf(l, q.user) \subseteq q.window
                   /\ q.at = "check" => q.hash \in q.window
                   /\ q.at \in {"issue", "set"} =>
                          \E h \in q.window : CheckPassword(h, q.password)
<1> SUFFICES ASSUME NEW r \in Requests, NEW q, q = Widened(l)[r]
             PROVE  /\ q \in Request
                    /\ q.at # "idle" => q.user \in Users /\ HashOf(l, q.user) \subseteq q.window
                    /\ q.at = "check" => q.hash \in q.window
                    /\ q.at \in {"issue", "set"} =>
                           \E h \in q.window : CheckPassword(h, q.password)
  OBVIOUS
<1>1. /\ q \in Request /\ q.at = req[r].at /\ q.hash = req[r].hash
      /\ q.user = req[r].user /\ q.password = req[r].password
      /\ q.at # "idle" => q.window = req[r].window \cup HashOf(l, req[r].user)
  BY WidenedFacts DEF AuthInv, AuthTypeOK
<1>2. /\ q.at # "idle" => req[r].user \in Users
      /\ q.at = "check" => req[r].hash \in req[r].window
      /\ q.at \in {"issue", "set"} =>
             \E h \in req[r].window : CheckPassword(h, req[r].password)
  BY <1>1 DEF AuthInv, RequestsEarned, At
<1> QED BY <1>1, <1>2

LEMMA SetPasswordHashStep ==
    ASSUME AuthInv, NEW r \in Requests, SetPasswordHash(r)
    PROVE  AuthInv'
<1>1. /\ UNCHANGED <<now, process, saved, tokens, restores>> /\ past' = past \cup {login'}
      /\ req' = [Widened(login') EXCEPT ![r] = Idle]
  BY DEF SetPasswordHash
<1>2. req[r].new \in AnyPassword BY DEF AuthInv, AuthTypeOK, Request
<1>3. /\ login' \in LoginRecord /\ known \subseteq known' /\ known' \subseteq AnyPassword
      /\ \E p \in known' : CheckPassword(login'.hash, p)
  <2>1. CASE login.user = req[r].user
    <3>1. login' = [login EXCEPT !.hash = HashPassword(req[r].new)]
          /\ known' = known \cup {req[r].new}
      BY <2>1 DEF SetPasswordHash
    <3>2. HashPassword(req[r].new) \in Hash /\ CheckPassword(HashPassword(req[r].new), req[r].new)
      BY <1>2, HashTypes DEF CheckPassword
    <3>3. login' \in LoginRecord /\ login'.hash = HashPassword(req[r].new)
      BY <3>1, <3>2 DEF AuthInv, AuthTypeOK, LoginRecord
    <3> QED BY <1>2, <3>1, <3>2, <3>3 DEF AuthInv, AuthTypeOK
  <2>2. CASE login.user # req[r].user
    BY <2>2 DEF SetPasswordHash, AuthInv, AuthTypeOK, LoginsKnown
  <2> QED BY <2>1, <2>2
<1>4. \A s \in Requests :
          /\ req'[s] = IF s = r THEN Idle ELSE Widened(login')[s]
          /\ req'[s] \in Request
  BY <1>1, <1>3, WidenedEarned, IdleFacts DEF Widened
<1>5. req' \in [Requests -> Request] BY <1>1, <1>4 DEF Widened
<1>6. AuthTypeOK' BY <1>1, <1>3, <1>5 DEF AuthInv, AuthTypeOK, process
<1>7. RequestsEarned' BY <1>3, <1>4, WidenedEarned, IdleFacts DEF RequestsEarned, At
<1>8. TokensSigned' BY <1>1 DEF AuthInv, TokensSigned, process
<1>9. LoginsKnown' BY <1>1, <1>3 DEF AuthInv, LoginsKnown
<1> QED BY <1>6, <1>7, <1>8, <1>9 DEF AuthInv

-----------------------------------------------------------------------------
(* The other steps *)

LEMMA TickStep ==
    ASSUME AuthInv, Tick
    PROVE  AuthInv'
<1>1. now' = now + 1 /\ UNCHANGED <<starts, env, login, past, saved, tokens, req, known, restores>>
  BY DEF Tick, process
<1>2. AuthTypeOK' BY <1>1 DEF AuthInv, AuthTypeOK
<1>3. TokensSigned' BY <1>1, AuthAssumption DEF AuthInv, AuthTypeOK, TokensSigned
<1>4. RequestsEarned' /\ LoginsKnown' BY <1>1 DEF AuthInv, RequestsEarned, LoginsKnown, At
<1> QED BY <1>2, <1>3, <1>4 DEF AuthInv

LEMMA SaveStep ==
    ASSUME AuthInv, Save
    PROVE  AuthInv'
<1>1. /\ saved' \in past \cup {NoLogin}
      /\ UNCHANGED <<now, starts, env, login, past, tokens, req, known, restores>>
  BY DEF Save, process
<1> QED
  BY <1>1 DEF AuthInv, AuthTypeOK, RequestsEarned, TokensSigned, LoginsKnown, At

LEMMA RestoreStep ==
    ASSUME AuthInv, NEW u \in Users, NEW p \in Passwords \cup known, Restore(u, p)
    PROVE  AuthInv'
<1>1. /\ UNCHANGED <<now, starts, env, saved, tokens>> /\ req' = Widened(login')
      /\ login' = [user |-> u, hash |-> HashPassword(p)] /\ past' = past \cup {login'}
      /\ known' = known \cup {p} /\ restores' = restores + 1
  BY DEF Restore, process
<1>2. p \in AnyPassword BY DEF AuthInv, AuthTypeOK, AnyPassword
<1>3. login' \in LoginRecord /\ CheckPassword(login'.hash, p)
  BY <1>1, <1>2, HashTypes DEF LoginRecord, CheckPassword
<1>4. AuthTypeOK'
  <2>1. req' \in [Requests -> Request] BY <1>1, <1>3, WidenedEarned DEF Widened
  <2> QED BY <1>1, <1>2, <1>3, <2>1 DEF AuthInv, AuthTypeOK
<1>5. RequestsEarned' BY <1>1, <1>3, WidenedEarned DEF RequestsEarned, At
<1>6. TokensSigned' BY <1>1 DEF AuthInv, TokensSigned
<1>7. LoginsKnown' BY <1>1, <1>3 DEF AuthInv, LoginsKnown
<1> QED BY <1>4, <1>5, <1>6, <1>7 DEF AuthInv

\* Whatever the configuration, the login of a new process is known.
LEMMA ConfiguredFacts ==
    ASSUME NEW n \in Nat, NEW c \in Configuration(n)
    PROVE  LET l == [user |-> c.user, hash |-> HashPassword(c.password)]
           IN  /\ c.env \in Environment /\ c.password \in AnyPassword
               /\ l \in LoginRecord /\ CheckPassword(l.hash, c.password)
<1>1. c.env \in Environment /\ c.user \in Users /\ c.password \in AnyPassword
  BY DEF Configuration, Environment, AnyPassword
<1> QED BY <1>1, HashTypes DEF LoginRecord, CheckPassword

LEMMA RestartStep ==
    ASSUME AuthInv, Restart
    PROVE  AuthInv'
<1>0. starts \in Nat /\ starts' = starts + 1 BY DEF Restart, AuthInv, AuthTypeOK
<1>1. PICK c \in Configuration(starts') : env' = c.env /\ EnsureAdmin(saved, c)
  BY DEF Restart
<1>2. /\ UNCHANGED <<now, saved, tokens, restores>> /\ req' = [r \in Requests |-> Idle]
      /\ past' = {login'}
  BY DEF Restart
<1>3. starts' \in Nat /\ c \in Configuration(starts') BY <1>0
<1>4. /\ env' \in Environment /\ login' \in LoginRecord
      /\ known \subseteq known' /\ known' \subseteq AnyPassword
      /\ \E p \in known' : CheckPassword(login'.hash, p)
  <2>1. CASE saved = NoLogin
    BY <1>1, <1>3, <2>1, ConfiguredFacts DEF EnsureAdmin, AuthInv, AuthTypeOK
  <2>2. CASE saved # NoLogin
    BY <1>1, <1>3, <2>2, ConfiguredFacts DEF EnsureAdmin, AuthInv, AuthTypeOK, LoginsKnown
  <2> QED BY <2>1, <2>2
<1>5. AuthTypeOK' BY <1>2, <1>3, <1>4, IdleFacts DEF AuthInv, AuthTypeOK
<1>6. RequestsEarned' BY <1>2, IdleFacts DEF RequestsEarned, At
<1>7. TokensSigned'
  BY <1>0, <1>2 DEF AuthInv, AuthTypeOK, TokensSigned, Token
<1>8. LoginsKnown' BY <1>2, <1>4 DEF AuthInv, LoginsKnown
<1> QED BY <1>5, <1>6, <1>7, <1>8 DEF AuthInv

LEMMA AuthInit == Init => AuthInv
<1> SUFFICES ASSUME Init PROVE AuthInv OBVIOUS
<1>1. PICK c \in Configuration(1) :
          /\ env = c.env
          /\ login = [user |-> c.user, hash |-> HashPassword(c.password)]
          /\ known = {c.password}
  BY DEF Init
<1>2. env \in Environment /\ login \in LoginRecord /\ c.password \in AnyPassword
      /\ CheckPassword(login.hash, c.password)
  BY <1>1, ConfiguredFacts
<1>3. AuthTypeOK BY <1>1, <1>2, IdleFacts, AuthAssumption DEF Init, AuthTypeOK
<1>4. RequestsEarned BY IdleFacts DEF Init, RequestsEarned, At
<1>5. TokensSigned BY AuthAssumption DEF Init, TokensSigned
<1>6. LoginsKnown BY <1>1, <1>2 DEF Init, LoginsKnown
<1> QED BY <1>3, <1>4, <1>5, <1>6 DEF AuthInv

LEMMA AuthStep ==
    ASSUME AuthInv, [Next]_vars
    PROVE  AuthInv'
<1>1. CASE UNCHANGED vars
  BY <1>1 DEF AuthInv, AuthTypeOK, RequestsEarned, TokensSigned, LoginsKnown, At, vars, process
<1> QED
  BY <1>1, BeginLoginStep, BeginChangeStep, ReadHashStep, CheckStep, IssueStep,
     SetPasswordHashStep, TickStep, SaveStep, RestoreStep, RestartStep DEF Next

\* Requests, tokens and logins keep the facts the properties rest on.
THEOREM AuthInvariant == Spec => []AuthInv
  BY AuthInit, AuthStep, PTL DEF Spec

\* Every field has its type.
THEOREM AuthTypes == Spec => []AuthTypeOK
<1>1. AuthInv => AuthTypeOK BY DEF AuthInv
<1> QED BY <1>1, AuthInvariant, PTL

\* Who is let through knew a password the login had while the request was
\* handled, whatever changes, restores and restarts come in between
\* (auth.go:56, 99).
THEOREM PasswordsEarned == Spec => []Earned
<1>1. AuthInv => Earned BY DEF AuthInv, RequestsEarned, Earned
<1> QED BY <1>1, AuthInvariant, PTL

\* Nobody is locked out: the password in effect was told or chosen
\* (main.go:52-68).
THEOREM LoginKnown == Spec => []KnownLogin
<1>1. AuthInv => KnownLogin BY DEF AuthInv, LoginsKnown, KnownLogin
<1> QED BY <1>1, AuthInvariant, PTL

\* A token is signed with the secret of this process exactly if it was issued
\* here or both processes were started with the same JWT_SECRET: a configured
\* secret is never one that another process made up.
LEMMA SecretsCompared ==
    ASSUME AuthInv, NEW tok \in tokens
    PROVE  tok.secret = secret <=> SameSecret(tok)
<1>1. /\ tok.secret = Secret(tok.start, tok.env)
      /\ tok.start = starts => tok.env = env
      /\ tok.start \in Nat /\ starts \in Nat
      /\ tok.env \in Environment /\ env \in Environment
  BY DEF AuthInv, AuthTypeOK, TokensSigned, Token
<1>2. \A k \in Secrets : k \notin Nat /\ k # Unset BY AuthAssumption DEF Unset
<1>3. CASE tok.env = Unset BY <1>1, <1>2, <1>3 DEF Secret, secret, SameSecret, Environment
<1>4. CASE tok.env # Unset BY <1>1, <1>2, <1>4 DEF Secret, secret, SameSecret, Environment
<1> QED BY <1>3, <1>4

\* The lifetime a token really gets, when it ends after 1970.
Lifetime == Duration(Hours * Hour)

LEMMA LifetimeMeasured ==
    ASSUME AuthInv, NEW tok \in tokens, tok.secret = secret, Epoch + Lifetime >= 2
    PROVE  /\ now <= tok.issued + Lifetime => ParseToken(tok)
           /\ now >= tok.issued + Lifetime + 2 => ~ParseToken(tok)
<1>1. Lifetime \in Int
  <2>1. Hours * Hour \in Int /\ HalfRange \in Nat \ {0} BY AuthAssumption
  <2> QED BY <2>1 DEF Duration, Lifetime
<1>2. /\ tok.exp = (tok.issued + Lifetime) \div 2
      /\ tok.issued \in Nat /\ tok.issued >= Epoch /\ Epoch \in Nat /\ now \in Nat
  BY AuthAssumption DEF AuthInv, AuthTypeOK, TokensSigned, Token, Unix, Lifetime
<1>3. ParseToken(tok) <=> ~(tok.exp > 0 /\ now \div 2 > tok.exp)
  BY DEF ParseToken, Unix
<1>4. tok.issued + Lifetime >= 2 BY <1>1, <1>2
<1>5. now <= tok.issued + Lifetime => now \div 2 <= tok.exp BY <1>1, <1>2, <1>4
<1>6. now >= tok.issued + Lifetime + 2 => now \div 2 > tok.exp BY <1>1, <1>2, <1>4
<1>7. tok.exp > 0 /\ tok.exp \in Int /\ now \div 2 \in Int BY <1>1, <1>2, <1>4
<1> QED BY <1>3, <1>5, <1>6, <1>7

\* A configured lifetime that fits a time.Duration is kept to the second, also
\* a negative one, whose tokens have expired when they are issued; through any
\* restarts with the same JWT_SECRET, and under no other secret
\* (auth.go:62, jwt.go:34-49, 85, main.go:47-50).
THEOREM LifetimesKept ==
    ASSUME -HalfRange <= Hours * Hour, Hours * Hour < HalfRange, Epoch + Hours * Hour >= 2
    PROVE  Spec => []LifetimeAsConfigured
<1>1. Lifetime = Hours * Hour
  <2> DEFINE life == Hours * Hour
  <2>1. life \in Int /\ HalfRange \in Nat /\ -HalfRange <= life /\ life < HalfRange
    BY AuthAssumption
  <2> HIDE DEF life
  <2>2. life + HalfRange \in Nat /\ life + HalfRange < 2 * HalfRange BY <2>1
  <2>3. (life + HalfRange) % (2 * HalfRange) = life + HalfRange BY <2>1, <2>2
  <2>4. Duration(life) = life BY <2>1, <2>3 DEF Duration
  <2> QED BY <2>4 DEF life, Lifetime
<1>2. AuthInv => LifetimeAsConfigured
  <2> SUFFICES ASSUME AuthInv, NEW tok \in tokens
               PROVE  /\ SameSecret(tok) /\ now <= tok.issued + Hours * Hour => ParseToken(tok)
                      /\ ~SameSecret(tok) \/ now >= tok.issued + Hours * Hour + 2 => ~ParseToken(tok)
    BY DEF LifetimeAsConfigured
  <2>1. CASE SameSecret(tok) BY <1>1, <2>1, SecretsCompared, LifetimeMeasured
  <2>2. CASE ~SameSecret(tok) BY <2>2, SecretsCompared DEF ParseToken
  <2> QED BY <2>1, <2>2
<1> QED BY <1>2, AuthInvariant, PTL

\* A lifetime that does not fit wraps around, and whatever it becomes is kept
\* to the second, unless it ends before 1970: a token is not accepted longer
\* or shorter than the product of auth.go:62 says.
THEOREM LifetimesWrap ==
    ASSUME Epoch + Lifetime >= 2
    PROVE  Spec => [](\A tok \in tokens : SameSecret(tok) =>
                          /\ now <= tok.issued + Lifetime => ParseToken(tok)
                          /\ now >= tok.issued + Lifetime + 2 => ~ParseToken(tok))
<1>1. AuthInv => \A tok \in tokens : SameSecret(tok) =>
                     /\ now <= tok.issued + Lifetime => ParseToken(tok)
                     /\ now >= tok.issued + Lifetime + 2 => ~ParseToken(tok)
  BY LifetimeMeasured, SecretsCompared
<1> QED BY <1>1, AuthInvariant, PTL

=============================================================================
