------------------------------ MODULE Accounts ------------------------------
(***************************************************************************)
(* How a person comes to have an account, and how long what was given to   *)
(* them holds (routers/auth, routers/users, routers/oidc, token_service,   *)
(* services/oidc, bootstrap_admin, dependencies).                          *)
(*                                                                         *)
(* An account is registered, provisioned by an administrator, by the       *)
(* bootstrap command or by the identity provider, or accepted from an      *)
(* invite.  Its password is changed by its owner, by a mailed link or by   *)
(* an administrator.  Sessions are signed tokens nobody stores: a session  *)
(* is ended by moving the account's cutoff past the second it was issued   *)
(* in.                                                                     *)
(*                                                                         *)
(* Every endpoint reads, hashes and commits without a lock over the whole, *)
(* so requests for one account overlap, and may die at any point.  The     *)
(* exercise an invite enrols into is ExerciseRun's; here it lets the       *)
(* newcomer in or refuses.                                                 *)
(***************************************************************************)
EXTENDS Throttle

CONSTANTS Emails, Invites, Resets, Requests,
          Offered,      \* what the settings offer: ConfigSync is how they change
          MaxBegun      \* bound on requests

ASSUME AccountsAssumption ==
    /\ Invites \cap Resets = {}
    /\ "none" \notin Emails
    /\ Offered \subseteq {"local", "registration", "mail", "host"}

ASSUME RequestsAssumption == IsFiniteSet(Requests)

VARIABLES
    account,    \* [Emails -> Rows]
    generation, \* [Emails -> changes of password or provider role committed]
    latest,     \* [Emails -> the latest second such a change took as its cutoff]
    crossed,    \* accounts whose last change was made over a row read before another
    token,      \* [Links -> [email, used, live]]: rows of emailed links
    madeBy,     \* invites an account was made from
    session,    \* the sessions issued: [email, iat]
    request, begun

vars == <<now, hits, account, generation, latest, crossed, token, madeBy, session, request, begun>>

Links == Invites \cup Resets
Roles == {"participant", "facilitator"}
Passwords == {"none", "chosen", "temporary"}

\* cutoff is token_valid_after, 0 before any; flagged is must_change_password;
\* managed is role_managed_by_idp.
Row(provider, role, password) ==
    [provider |-> provider, role |-> role, managed |-> provider = "idp", password |-> password,
     flagged |-> FALSE, cutoff |-> 0]
Rows == [provider : {"none", "local", "idp"}, role : Roles, managed : BOOLEAN, password : Passwords,
         flagged : BOOLEAN, cutoff : Times]
NoAccount == Row("none", "participant", "none")
Exists(e) == account[e].provider # "none"
Local(e) == account[e].provider = "local"

Idle == [kind |-> "idle"]

NoLink == [email |-> "none", used |-> FALSE, live |-> FALSE]

\* create_access_token, resolve_user_from_token.
Issue(e) == session' = session \cup {[email |-> e, iat |-> now]}
Honoured(s) == Exists(s.email) /\ s.iat >= account[s.email].cutoff

Init ==
    /\ now = 1
    /\ hits = [scope \in Scopes |-> NoHits]
    /\ account = [e \in Emails |-> NoAccount]
    /\ generation = [e \in Emails |-> 0]
    /\ latest = [e \in Emails |-> 0]
    /\ crossed = {}
    /\ token = [l \in Links |-> NoLink]
    /\ madeBy = {}
    /\ session = {}
    /\ request = [q \in Requests |-> Idle]
    /\ begun = 0

Begin(q, r) ==
    /\ request[q] = Idle /\ begun < MaxBegun
    /\ begun' = begun + 1
    /\ request' = [request EXCEPT ![q] = r]
Goes(q, r) == request' = [request EXCEPT ![q] = r] /\ UNCHANGED begun
Ends(q) == Goes(q, Idle)
Is(q, kind) == request[q].kind = kind

\* The guards of the endpoints: _require_local_auth, _require_registration_enabled,
\* _require_smtp, _require_link_base.
LocalOffered == "local" \in Offered
RegistrationOffered == "registration" \in Offered
MailOffered == "mail" \in Offered
LinksOffered == "host" \in Offered

-----------------------------------------------------------------------------
(***************************************************************************)
(* New accounts.                                                           *)
(***************************************************************************)

\* register: the limiter is asked,
RegisterCheck(q, e) ==
    /\ LocalOffered /\ RegistrationOffered
    /\ ~Limited("registration")
    /\ Begin(q, [kind |-> "register", email |-> e])
    /\ UNCHANGED <<now, hits, account, generation, latest, crossed, token, madeBy, session>>

\* the attempt counted, whatever comes of it, and the address looked up.
RegisterRead(q) ==
    LET e == request[q].email IN
    /\ Is(q, "register")
    /\ hits' = Counted("registration")
    /\ IF Exists(e) THEN Ends(q)
       ELSE Goes(q, [kind |-> "insert", email |-> e, row |-> Row("local", "participant", "chosen")])
    /\ UNCHANGED <<now, account, generation, latest, crossed, token, madeBy, session>>

\* create_user, and upsert_admin of an address nobody has.
CreateRead(q, e, role) ==
    /\ ~Exists(e)
    /\ Begin(q, [kind |-> "insert", email |-> e, row |-> Row("local", role, "chosen")])
    /\ UNCHANGED <<now, hits, account, generation, latest, crossed, token, madeBy, session>>

\* provision_oidc_user of an identity seen for the first time: no account has its
\* address.
ProvisionRead(q, e, role) ==
    /\ ~Exists(e)
    /\ Begin(q, [kind |-> "insert", email |-> e, row |-> Row("idp", role, "none")])
    /\ UNCHANGED <<now, hits, account, generation, latest, crossed, token, madeBy, session>>

\* The insert meets the unique address: the loser of a race fails whole.  The
\* identity provider's user is signed in at once.
Insert(q) ==
    LET e == request[q].email IN
    /\ Is(q, "insert")
    /\ Ends(q)
    /\ IF Exists(e) THEN UNCHANGED <<account, session>>
       ELSE /\ account' = [account EXCEPT ![e] = request[q].row]
            /\ IF request[q].row.provider = "idp" THEN Issue(e)
               ELSE UNCHANGED session
    /\ UNCHANGED <<now, hits, generation, latest, crossed, token, madeBy>>

\* invite_user
Invite(l, e) ==
    /\ MailOffered /\ LinksOffered
    /\ l \in Invites /\ token[l] = NoLink
    /\ ~Exists(e)
    /\ token' = [token EXCEPT ![l] = [email |-> e, used |-> FALSE, live |-> TRUE]]
    /\ UNCHANGED <<now, hits, account, generation, latest, crossed, madeBy, session, request, begun>>

\* consume, up to its write.
Spendable(l) == token[l].email # "none" /\ ~token[l].used /\ token[l].live

\* invite_accept: the link is read,
AcceptRead(q, l) ==
    /\ l \in Invites /\ MailOffered /\ Spendable(l)
    /\ Begin(q, [kind |-> "accept", link |-> l])
    /\ UNCHANGED <<now, hits, account, generation, latest, crossed, token, madeBy, session>>

\* Mutant: consume commits the burn before the account is attempted.
AcceptBurnFirst(q) ==
    LET l == request[q].link
        e == token[l].email IN
    /\ Is(q, "accept")
    /\ Ends(q)
    /\ token' = [token EXCEPT ![l].used = TRUE]
    /\ IF Exists(e) THEN UNCHANGED <<account, madeBy, session>>
       ELSE /\ account' = [account EXCEPT ![e] = Row("local", "participant", "chosen")]
            /\ madeBy' = madeBy \cup {l}
            /\ Issue(e)
    /\ UNCHANGED <<now, hits, generation, latest, crossed>>

\* and burnt in one commit with the account and its enrolment; whatever refuses
\* one of them undoes the burn.
AcceptCommit(q) ==
    LET l == request[q].link
        e == token[l].email IN
    /\ Is(q, "accept")
    /\ Ends(q)
    /\ \/ UNCHANGED <<account, token, madeBy, session>>      \* the roster is closed
       \/ /\ ~Exists(e)
          /\ account' = [account EXCEPT ![e] = Row("local", "participant", "chosen")]
          /\ token' = [token EXCEPT ![l].used = TRUE]
          /\ madeBy' = madeBy \cup {l}
          /\ Issue(e)
    /\ UNCHANGED <<now, hits, generation, latest, crossed>>

-----------------------------------------------------------------------------
(***************************************************************************)
(* Signing in.                                                             *)
(***************************************************************************)
LoginCheck(q, e) ==
    /\ LocalOffered
    /\ ~Limited("login")
    /\ Begin(q, [kind |-> "login", email |-> e])
    /\ UNCHANGED <<now, hits, account, generation, latest, crossed, token, madeBy, session>>

\* Wrong credentials, or an account without a password, are counted.
LoginFails(q) ==
    /\ Is(q, "login")
    /\ Ends(q)
    /\ hits' = Counted("login")
    /\ UNCHANGED <<now, account, generation, latest, crossed, token, madeBy, session>>

LoginVerified(q) ==
    LET e == request[q].email IN
    /\ Is(q, "login")
    /\ Exists(e) /\ account[e].password # "none"
    /\ Goes(q, [kind |-> "verified", email |-> e])
    /\ UNCHANGED <<now, hits, account, generation, latest, crossed, token, madeBy, session>>

\* The slate is cleared and the session issued for the row that was read.
LoginOpens(q) ==
    /\ Is(q, "verified")
    /\ Ends(q)
    /\ hits' = Forgiven("login")
    /\ Issue(request[q].email)
    /\ UNCHANGED <<now, account, generation, latest, crossed, token, madeBy>>

\* A change of the account that ends the sessions issued before the second `at`.
\* It crosses another when the row it was computed from is not the row it meets.
Changed(e, read, at) ==
    /\ generation' = [generation EXCEPT ![e] = @ + 1]
    /\ latest' = [latest EXCEPT ![e] = IF at > @ THEN at ELSE @]
    /\ crossed' = IF read = generation[e] THEN crossed \ {e} ELSE crossed \cup {e}

\* Mutant: the role is brought up to date, the sessions under the old one stay.
OidcReturnsOnly(q, e, role) ==
    /\ Exists(e) /\ account[e].provider = "idp"
    /\ begun < MaxBegun /\ begun' = begun + 1 /\ UNCHANGED request
    /\ Changed(e, generation[e], now)
    /\ account' = [account EXCEPT ![e].role = role]
    /\ Issue(e)
    /\ UNCHANGED <<now, hits, token, madeBy>>

\* provision_oidc_user of a known identity, _sync_returning_user: under the row's
\* lock, a role the provider manages follows it and ends the sessions of the old
\* one.
OidcReturns(q, e, role) ==
    LET syncs == account[e].managed /\ account[e].role # role IN
    /\ Exists(e) /\ account[e].provider = "idp"
    /\ begun < MaxBegun /\ begun' = begun + 1 /\ UNCHANGED request
    /\ IF syncs
       THEN /\ account' = [account EXCEPT ![e].role = role, ![e].cutoff = now]
            /\ Changed(e, generation[e], now)
       ELSE UNCHANGED <<account, generation, latest, crossed>>
    /\ Issue(e)
    /\ UNCHANGED <<now, hits, token, madeBy>>

\* callback: an identity the provider vouches for is a returning one or a new one.
OidcCallback(q, e, role) == OidcReturns(q, e, role) \/ ProvisionRead(q, e, role)

-----------------------------------------------------------------------------
(***************************************************************************)
(* Changing a password.                                                    *)
(***************************************************************************)

\* The row has been read and the new values computed: the password, which is
\* temporary when its owner is to replace it, and the cutoff, the second it is now.
Change(e, by, flag) ==
    [kind |-> "change", email |-> e, by |-> by, flag |-> flag, at |-> now,
     read |-> generation[e], saw |-> account[e]]

\* update_me: whoever has a session may set a password, an account of the identity
\* provider's too.
ChangeRead(q, e) ==
    /\ \E s \in session : s.email = e /\ Honoured(s)
    /\ Begin(q, Change(e, "owner", FALSE))
    /\ UNCHANGED <<now, hits, account, generation, latest, crossed, token, madeBy, session>>

\* reset_password: the administrator says whether the password is temporary.
AdminResetRead(q, e, flag) ==
    /\ Local(e)
    /\ Begin(q, Change(e, "admin", flag))
    /\ UNCHANGED <<now, hits, account, generation, latest, crossed, token, madeBy, session>>

\* password_reset_request: the limiter is asked,
MailCheck(q, e) ==
    /\ MailOffered /\ LinksOffered
    /\ ~Limited("password_reset")
    /\ Begin(q, [kind |-> "mail", email |-> e])
    /\ UNCHANGED <<now, hits, account, generation, latest, crossed, token, madeBy, session>>

\* the request counted, and a link made for a local account.
MailReset(q) ==
    LET e == request[q].email IN
    /\ Is(q, "mail")
    /\ Ends(q)
    /\ hits' = Counted("password_reset")
    /\ IF Local(e)
       THEN \E l \in Resets :
               /\ token[l] = NoLink
               /\ token' = [token EXCEPT ![l] = [email |-> e, used |-> FALSE, live |-> TRUE]]
       ELSE UNCHANGED token
    /\ UNCHANGED <<now, account, generation, latest, crossed, madeBy, session>>

\* password_reset_complete: the link is read,
ResetRead(q, l) ==
    /\ l \in Resets /\ MailOffered /\ Spendable(l)
    /\ Begin(q, [kind |-> "burn", link |-> l])
    /\ UNCHANGED <<now, hits, account, generation, latest, crossed, token, madeBy, session>>

\* its burn committed on its own, although another may have burnt it since, and
\* the account read;
ResetBurn(q) ==
    LET e == token[request[q].link].email IN
    /\ Is(q, "burn")
    /\ token' = [token EXCEPT ![request[q].link].used = TRUE]
    /\ Goes(q, Change(e, "link", FALSE))
    /\ UNCHANGED <<now, hits, account, generation, latest, crossed, madeBy, session>>

\* Mutant: a new password leaves the flag as it is.
ChangeKeepsFlag(q) ==
    LET r == request[q]
        e == r.email IN
    /\ Is(q, "change")
    /\ Ends(q)
    /\ account' = [account EXCEPT ![e].password = IF r.flag THEN "temporary" ELSE "chosen",
                                  ![e].cutoff = r.at]
    /\ Changed(e, r.read, r.at)
    /\ IF r.by = "admin" THEN UNCHANGED session ELSE Issue(e)
    /\ UNCHANGED <<now, hits, token, madeBy>>

\* and the new values are written.  An UPDATE carries the columns that differ from
\* the row that was read.  The owner is signed in again.
ChangeCommit(q) ==
    LET r == request[q]
        e == r.email IN
    /\ Is(q, "change")
    /\ Ends(q)
    /\ account' = [account EXCEPT ![e].password = IF r.flag THEN "temporary" ELSE "chosen",
                                  ![e].flagged = IF r.flag = r.saw.flagged THEN @ ELSE r.flag,
                                  ![e].cutoff = IF r.at = r.saw.cutoff THEN @ ELSE r.at]
    /\ Changed(e, r.read, r.at)
    /\ IF r.by = "admin" THEN UNCHANGED session ELSE Issue(e)
    /\ UNCHANGED <<now, hits, token, madeBy>>

\* upsert_admin of an account there is, under the row's lock: the operator's role
\* is no longer the provider's, and the password is set if asked.
Promote(e, role, reset) ==
    /\ Exists(e)
    /\ begun < MaxBegun /\ begun' = begun + 1 /\ UNCHANGED request
    /\ account' = [account EXCEPT ![e].role = role, ![e].managed = FALSE,
                                  ![e].password = IF reset THEN "chosen" ELSE @,
                                  ![e].cutoff = IF reset THEN now ELSE @]
    /\ IF reset THEN Changed(e, generation[e], now) ELSE UNCHANGED <<generation, latest, crossed>>
    /\ UNCHANGED <<now, hits, token, madeBy, session>>

-----------------------------------------------------------------------------
(***************************************************************************)
(* Time, and what goes wrong.                                              *)
(***************************************************************************)
Tick ==
    /\ now < MaxTime
    /\ now' = now + 1
    /\ UNCHANGED <<hits, account, generation, latest, crossed, token, madeBy, session, request,
                   begun>>

\* A link runs out; purge_auth_tokens deletes one that is dead, which nobody can
\* tell from one that is refused.
Expire(l) ==
    /\ token[l].live
    /\ token' = [token EXCEPT ![l].live = FALSE]
    /\ UNCHANGED <<now, hits, account, generation, latest, crossed, madeBy, session, request, begun>>

SweepHits ==
    /\ hits' = Swept
    /\ UNCHANGED <<now, account, generation, latest, crossed, token, madeBy, session, request, begun>>

\* The counters are in an unlogged table: an unclean stop of the database empties it.
LoseHits ==
    /\ hits' = [scope \in Scopes |-> NoHits]
    /\ UNCHANGED <<now, account, generation, latest, crossed, token, madeBy, session, request, begun>>

RequestDies(q) ==
    /\ request[q] # Idle
    /\ Ends(q)
    /\ UNCHANGED <<now, hits, account, generation, latest, crossed, token, madeBy, session>>

Answer(q) ==
    \/ RegisterRead(q) \/ Insert(q) \/ AcceptCommit(q)
    \/ LoginFails(q) \/ LoginVerified(q) \/ LoginOpens(q)
    \/ MailReset(q) \/ ResetBurn(q) \/ ChangeCommit(q) \/ RequestDies(q)

Next ==
    \/ Tick \/ SweepHits \/ LoseHits
    \/ \E l \in Links : Expire(l) \/ \E e \in Emails : Invite(l, e)
    \/ \E q \in Requests :
          \/ Answer(q)
          \/ \E l \in Links : AcceptRead(q, l) \/ ResetRead(q, l)
          \/ \E e \in Emails :
                \/ RegisterCheck(q, e) \/ LoginCheck(q, e) \/ MailCheck(q, e)
                \/ ChangeRead(q, e) \/ \E flag \in BOOLEAN : AdminResetRead(q, e, flag)
                \/ \E role \in Roles :
                      CreateRead(q, e, role) \/ OidcCallback(q, e, role)
    \/ \E e \in Emails, role \in Roles, reset \in BOOLEAN : Promote(e, role, reset)

Spec == Init /\ [][Next]_vars

-----------------------------------------------------------------------------
(***************************************************************************)
(* Properties.                                                             *)
(***************************************************************************)

\* An invite is marked used exactly when an account was made from it: whatever
\* refuses the newcomer (the roster closed, the address taken by a registration
\* that was faster, the process killed) leaves the link usable.
InviteIsSpentOnAccount == \A l \in Invites : token[l].used <=> l \in madeBy

\* An account whose password its owner is to replace says so, unless two changes of
\* it crossed: then an UPDATE left out a column its request had read as already right.
\* (The converse does not hold: the bootstrap command's new password leaves the flag.)
TemporaryIsFlagged ==
    \A e \in Emails :
        account[e].password = "temporary" /\ e \notin crossed => account[e].flagged

\* A session from before the second that the latest change of password or of
\* provider role took as its cutoff is not honoured, whoever made the change, unless
\* two changes crossed: then the earlier cutoff may be the one written last.
\* (The cutoff ends no session of that second or since: not one issued while the new
\* password was being hashed, nor one of a login that had verified the old one.)
OldSessionsEnd ==
    \A s \in session : Honoured(s) /\ s.email \notin crossed => s.iat >= latest[s.email]

\* The check and the count are apart, so a window holds more attempts than the
\* threshold, but only by the requests that were between the two.
ThrottleHolds == \A scope \in Scopes : Recent(scope) < MaxAttempts + Cardinality(Requests)
=============================================================================
