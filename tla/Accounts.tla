------------------------------ MODULE Accounts ------------------------------
(***************************************************************************)
(* Signing in to one account: e-mailed links to reset the password and to  *)
(* verify the address, refresh tokens, two-factor codes                    *)
(* (src/server/user_security.py, user_auth.py, auth.py).  Each of them is  *)
(* meant to serve once.  A handler reads the row, decides, and writes it   *)
(* in another statement, so that a request on another worker may come      *)
(* between the two; a reset writes in two transactions.                    *)
(***************************************************************************)
EXTENDS Integers, Sequences, FiniteSets

CONSTANTS
    Worker,
    ResetLink, VerifyLink,  \* e-mailed links
    Token,                  \* refresh tokens
    MaxSecrets,             \* bound on set-ups of two-factor sign-in
    MaxPeriod,              \* bound on the clock, in steps of 30 seconds
    MaxLogins               \* bound on sign-ins with a code

Credential == ResetLink \cup VerifyLink \cup Token

AccountsConstants == MaxSecrets \in Nat /\ MaxPeriod \in Nat \ {0}

VARIABLES
    cred,       \* state of each credential: "none", "live", "used", "expired"
    verified,   \* users.email_verified
    period,     \* the time step
    secret,     \* users.totp_secret_enc: the number of its set-up, 0 for NULL
    setups,     \* how many set-ups there were
    enabled,    \* users.totp_enabled
    last,       \* users.totp_last_period, 0 for NULL
    challenge,  \* a two-factor challenge has been issued
    req,        \* what each worker's request has decided and not yet written
    uses,       \* history: uses of each credential by a request nobody overtook
    accepted,   \* history: codes accepted since a request was last overtaken
    proved,     \* history: secrets a code was shown for when the factor was enabled
    raced       \* history: an enabling request was overtaken

vars == <<cred, verified, period, secret, setups, enabled, last, challenge, req, uses, accepted,
          proved, raced>>
links == <<cred, verified, uses>>
factor == <<secret, setups, enabled, last, challenge, accepted, proved, raced>>

NoRequest == [kind |-> "none", on |-> "none", secret |-> 0, step |-> 0, at |-> 0, stale |-> FALSE]
Request(kind, on, k, s) ==
    [kind |-> kind, on |-> on, secret |-> k, step |-> s, at |-> period, stale |-> FALSE]

Init ==
    /\ cred = [c \in Credential |-> "none"]
    /\ verified = FALSE
    /\ period = 1
    /\ secret = 0 /\ setups = 0 /\ enabled = FALSE /\ last = 0
    /\ challenge = FALSE
    /\ req = [w \in Worker |-> NoRequest]
    /\ uses = [c \in Credential |-> 0]
    /\ accepted = <<>>
    /\ proved = {}
    /\ raced = FALSE

Decides(w, r) == req[w] = NoRequest /\ req' = [req EXCEPT ![w] = r]

\* A request commits and goes on as "next": whoever has read before is overtaken.
CommitsAs(w, next) ==
    req' = [v \in Worker |-> IF v = w THEN next
                             ELSE IF req[v] = NoRequest THEN NoRequest
                             ELSE [req[v] EXCEPT !.stale = TRUE]]

Commits(w) == CommitsAs(w, NoRequest)

Counted(w, c) == uses' = IF req[w].stale THEN uses ELSE [uses EXCEPT ![c] = @ + 1]

\* create_user_tokens and create_token: a new refresh token.
Issue(before) ==
    \/ \E t \in Token : before[t] = "none" /\ cred' = [before EXCEPT ![t] = "live"]
    \/ (\A t \in Token : before[t] # "none") /\ cred' = before
-----------------------------------------------------------------------------
\* forgot_password, resend_verification_email and register_user: _issue_email_token.
SendLink(l) ==
    /\ l \in ResetLink \/ (l \in VerifyLink /\ ~verified)
    /\ cred[l] = "none"
    /\ cred' = [cred EXCEPT ![l] = "live"]
    /\ UNCHANGED <<verified, period, factor, req, uses>>

Expire(c) ==
    /\ cred[c] = "live"
    /\ cred' = [cred EXCEPT ![c] = "expired"]
    /\ UNCHANGED <<verified, period, factor, req, uses>>

\* _consume_email_token reads the row: there, not used, not expired.
LookReset(w, l) ==
    /\ cred[l] = "live"
    /\ Decides(w, Request("reset", l, 0, 0))
    /\ UNCHANGED <<links, period, factor>>

\* Mutant of Consumed: the link is not marked.
ConsumedNever(c) == cred

\* The row is marked, whatever it says by now.
Consumed(c) == [cred EXCEPT ![c] = "used"]

ConsumeReset(w) ==
    /\ req[w].kind = "reset"
    /\ cred' = Consumed(req[w].on)
    /\ Counted(w, req[w].on)
    /\ CommitsAs(w, Request("password", req[w].on, 0, 0))
    /\ UNCHANGED <<verified, period, factor>>

\* The rest of reset_password: a weak password is refused, after the link is used up.
SetPassword(w) ==
    /\ req[w].kind = "password"
    /\ \/ Issue(cred) /\ Commits(w)
       \/ UNCHANGED cred /\ req' = [req EXCEPT ![w] = NoRequest]
    /\ UNCHANGED <<verified, uses, period, factor>>

LookVerify(w, l) ==
    /\ cred[l] = "live"
    /\ Decides(w, Request("verify", l, 0, 0))
    /\ UNCHANGED <<links, period, factor>>

\* verify_email: all links of the account are marked.
WriteVerify(w) ==
    /\ req[w].kind = "verify"
    /\ cred' = [c \in Credential |-> IF c \in VerifyLink /\ cred[c] # "none" THEN "used" ELSE cred[c]]
    /\ verified' = TRUE
    /\ Counted(w, req[w].on)
    /\ Commits(w)
    /\ UNCHANGED <<period, factor>>

\* refresh_access_token: the token is decoded, which reads the revocations,
LookRefresh(w, t) ==
    /\ cred[t] = "live"
    /\ Decides(w, Request("refresh", t, 0, 0))
    /\ UNCHANGED <<links, period, factor>>

\* then revoked, by an insert that ignores that it already is, and replaced.
WriteRefresh(w) ==
    /\ req[w].kind = "refresh"
    /\ Issue(Consumed(req[w].on))
    /\ Counted(w, req[w].on)
    /\ Commits(w)
    /\ UNCHANGED <<verified, period, factor>>
-----------------------------------------------------------------------------
\* Mutant of Starts: what was enabled stays enabled.
StartsEnabled(k) == secret' = k /\ UNCHANGED enabled

Starts(k) == secret' = k /\ enabled' = FALSE

\* setup_two_factor: a fresh secret.
Setup(w) ==
    /\ req[w] = NoRequest /\ setups < MaxSecrets
    /\ setups' = setups + 1
    /\ Starts(setups')
    /\ Commits(w)
    /\ UNCHANGED <<links, period, last, challenge, accepted, proved, raced>>

\* enable_two_factor, with the password and a code of the secret it reads.
LookEnable(w) ==
    /\ secret # 0
    /\ Decides(w, Request("enable", "none", secret, period))
    /\ UNCHANGED <<links, period, factor>>

\* The UPDATE does not look at the secret again.
WriteEnable(w) ==
    /\ req[w].kind = "enable"
    /\ enabled' = TRUE
    /\ proved' = proved \cup {req[w].secret}
    /\ raced' = (raced \/ req[w].stale)
    /\ Commits(w)
    /\ UNCHANGED <<links, period, secret, setups, last, challenge, accepted>>

\* disable_two_factor, with the password.
Disable(w) ==
    /\ req[w] = NoRequest /\ (secret # 0 \/ enabled)
    /\ secret' = 0 /\ enabled' = FALSE /\ last' = 0
    /\ Commits(w)
    /\ UNCHANGED <<links, period, setups, challenge, accepted, proved, raced>>

\* login_user, with the password: tokens, or a challenge for the second factor.
Login(w) ==
    /\ req[w] = NoRequest
    /\ IF enabled THEN challenge' = TRUE /\ UNCHANGED cred
       ELSE Issue(cred) /\ UNCHANGED challenge
    /\ Commits(w)
    /\ UNCHANGED <<verified, uses, period, secret, setups, enabled, last, accepted, proved, raced>>

\* _verify_totp_code: one step to either side.
ValidSteps == {s \in 1..(MaxPeriod + 1) : s \in (period - 1)..(period + 1)}

\* Mutant of Unused: the step before is let through.
UnusedStep == last = 0 \/ last < period

\* The replay check looks at when a code was last accepted, not at which.
Unused == last = 0 \/ last < period - 1

\* login_with_two_factor
LookCode(w, s) ==
    /\ challenge /\ enabled /\ secret # 0 /\ Len(accepted) < MaxLogins
    /\ s \in ValidSteps /\ Unused
    /\ Decides(w, Request("code", "none", secret, s))
    /\ UNCHANGED <<links, period, factor>>

WriteCode(w) ==
    LET r == req[w] IN
    /\ r.kind = "code"
    /\ last' = r.at
    /\ accepted' = IF r.stale THEN <<>> ELSE Append(accepted, r)
    /\ Issue(cred)
    /\ Commits(w)
    /\ UNCHANGED <<verified, uses, period, secret, setups, enabled, challenge, proved, raced>>

Tick ==
    /\ period < MaxPeriod
    /\ period' = period + 1
    /\ UNCHANGED <<links, factor, req>>

Next ==
    \/ \E w \in Worker :
           \/ \E l \in ResetLink : LookReset(w, l)
           \/ \E l \in VerifyLink : LookVerify(w, l)
           \/ \E t \in Token : LookRefresh(w, t)
           \/ \E s \in 1..(MaxPeriod + 1) : LookCode(w, s)
           \/ ConsumeReset(w) \/ SetPassword(w) \/ WriteVerify(w) \/ WriteRefresh(w)
           \/ Setup(w) \/ LookEnable(w) \/ WriteEnable(w) \/ Disable(w)
           \/ Login(w) \/ WriteCode(w)
    \/ \E c \in Credential : SendLink(c) \/ Expire(c)
    \/ Tick

Spec == Init /\ [][Next]_vars
-----------------------------------------------------------------------------
\* Every variable has its type.
TypeOK ==
    /\ cred \in [Credential -> {"none", "live", "used", "expired"}]
    /\ period \in 1..MaxPeriod /\ last \in 0..MaxPeriod
    /\ secret \in 0..MaxSecrets /\ setups \in 0..MaxSecrets
    /\ proved \subseteq 1..MaxSecrets
    /\ \A i \in DOMAIN accepted : accepted[i].kind = "code"

\* A link or a refresh token is honoured once, requests apart that were overtaken
\* between their look and their write ("single-use", _consume_email_token and
\* refresh_access_token).
HonouredOnce == \A c \in Credential : uses[c] <= 1

\* Two-factor sign-in is on only for a secret a code was shown for, unless an
\* enabling request was overtaken by a set-up or a disabling ("enable_2fa does,
\* after the user proves they hold the secret").
EnabledIsProved == enabled /\ ~raced => secret \in proved

\* A code is accepted again only two time steps later at the least, as long as no
\* request with a code is overtaken by another (login_with_two_factor, "the same
\* code cannot be reused within its 30s window").
CodeSpaced ==
    \A i, j \in DOMAIN accepted :
        i < j /\ accepted[i].secret = accepted[j].secret /\ accepted[i].step = accepted[j].step =>
            accepted[j].at >= accepted[i].at + 2

-----------------------------------------------------------------------------
(* The inductive invariant *)

Kinds == {"none", "reset", "password", "verify", "refresh", "enable", "code"}
Fields == [kind: Kinds, on: Credential \cup {"none"}, secret: 0..MaxSecrets, step: Nat,
           at: 0..MaxPeriod, stale: BOOLEAN]
Requests == {r \in Fields : r.kind \in {"enable", "code"} => r.secret # 0}

\* What TypeOK leaves out of the requests and the histories.
Shapes ==
    /\ req \in [Worker -> Requests]
    /\ uses \in [Credential -> Nat]
    /\ accepted \in Seq(Requests)

\* What was honoured is marked.
Marked == \A c \in Credential : uses[c] = 1 => cred[c] = "used"

\* A request for a link or a token has one that was sent, and nobody has used it
\* who was not overtaken.
LinksRead ==
    \A w \in Worker :
        req[w].kind \in {"reset", "verify", "refresh"} =>
            /\ req[w].on \in Credential /\ cred[req[w].on] # "none"
            /\ req[w].kind = "verify" => req[w].on \in VerifyLink
            /\ ~req[w].stale => uses[req[w].on] = 0

\* A request for the second factor that nobody overtook has read the secret there
\* is, and its code comes after the one that was accepted last.
FactorRead ==
    \A w \in Worker :
        ~req[w].stale =>
            /\ req[w].kind \in {"enable", "code"} => secret # 0 /\ req[w].secret = secret
            /\ req[w].kind = "code" => req[w].at >= 1 /\ (last = 0 \/ last < req[w].at - 1)

\* The codes accepted of the present secret are not later than last says; no
\* secret comes twice.
CodesKept ==
    /\ secret <= setups
    /\ \A i \in DOMAIN accepted :
           /\ accepted[i].secret \in 1..setups /\ accepted[i].at >= 1
           /\ accepted[i].secret = secret => accepted[i].at <= last

AccountsInv ==
    /\ TypeOK /\ Shapes /\ HonouredOnce /\ Marked /\ LinksRead
    /\ EnabledIsProved /\ FactorRead /\ CodesKept /\ CodeSpaced
=============================================================================
