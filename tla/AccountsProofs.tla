--------------------------- MODULE AccountsProofs --------------------------
(***************************************************************************)
(* The properties of Accounts, for any number of accounts, links and       *)
(* requests.                                                               *)
(*                                                                         *)
(* OldSessionsEnd rests on the cutoff of an account nobody changed across: *)
(* it is not before any second a change took (CutoffHolds).  A change      *)
(* keeps that if what it read is what it meets, so the invariant says of   *)
(* every request in progress what its reading is worth (Sound).            *)
(*                                                                         *)
(* ThrottleHolds rests on a sum: the attempts in the window and the        *)
(* requests that were let through and are not counted yet, together, are   *)
(* what one check after another can have allowed (Allowance).              *)
(***************************************************************************)
EXTENDS Accounts, FiniteSetTheorems, TLAPS

AccountRows == [provider : {"none", "local", "idp"}, role : Roles, managed : BOOLEAN,
                password : Passwords, flagged : BOOLEAN, cutoff : Nat]
LinkRows == [email : Emails \cup {"none"}, used : BOOLEAN, live : BOOLEAN]

Asked == [kind : {"register", "login", "mail"}, email : Emails]
Inserting == [kind : {"insert"}, email : Emails, row : AccountRows]
Verified == [kind : {"verified"}, email : Emails]
Holding == [kind : {"accept", "burn"}, link : Links]
Changing == [kind : {"change"}, email : Emails, by : {"owner", "admin", "link"}, flag : BOOLEAN,
             at : Nat, read : Nat, saw : AccountRows]

AccountsTypeOK ==
    /\ now \in Nat
    /\ account \in [Emails -> AccountRows]
    /\ generation \in [Emails -> Nat]
    /\ latest \in [Emails -> Nat]
    /\ token \in [Links -> LinkRows]
    /\ session \in SUBSET [email : Emails, iat : Nat]
    /\ request \in [Requests -> {Idle} \cup Asked \cup Inserting \cup Verified \cup Holding
                                    \cup Changing]

\* Nothing is known of an account before there is one.
NewAreBlank == \A e \in Emails : ~Exists(e) => account[e] = NoAccount /\ latest[e] = 0

\* A link to a new password was mailed to somebody who has an account of
\* the installation's own.
ResetsAreOwned == \A l \in Resets : token[l].email # "none" => Local(token[l].email)

\* A temporary password is given to an account with a password of its own.
OnlyLocalsAreTemporary ==
    \A e \in Emails : account[e].password = "temporary" => Local(e)

\* What a request in progress read: a link of its kind, a row without history to
\* insert, an account to change, which is as it was read if nobody changed it since.
Sound(r) ==
    /\ r.kind = "accept" => r.link \in Invites /\ token[r.link].email # "none"
    /\ r.kind = "burn" => r.link \in Resets /\ token[r.link].email # "none"
    /\ r.kind = "insert" => /\ r.row.provider # "none" /\ ~r.row.flagged /\ r.row.cutoff = 0
                            /\ r.row.password # "temporary"
    /\ r.kind = "change" => /\ Exists(r.email) /\ (r.flag => Local(r.email))
                            /\ r.at <= now
                            /\ r.read <= generation[r.email]
                            /\ r.read = generation[r.email] =>
                                  /\ latest[r.email] <= r.at
                                  /\ r.saw.flagged = account[r.email].flagged
                                  /\ r.saw.cutoff = account[r.email].cutoff
RequestsAreSound == \A q \in Requests : Sound(request[q])

\* The cutoff is not before any change, of an account nobody changed across.
CutoffHolds ==
    \A e \in Emails : latest[e] <= now /\ (e \notin crossed => latest[e] <= account[e].cutoff)

IInv == /\ AccountsTypeOK /\ NewAreBlank /\ ResetsAreOwned /\ RequestsAreSound /\ CutoffHolds
        /\ InviteIsSpentOnAccount /\ OnlyLocalsAreTemporary /\ TemporaryIsFlagged

-----------------------------------------------------------------------------
\* The kind of a request says what it carries.
LEMMA RequestKinds ==
    ASSUME AccountsTypeOK, NEW q \in Requests
    PROVE  /\ request[q].kind \in {"register", "login", "mail"} => request[q] \in Asked
           /\ request[q].kind = "insert" => request[q] \in Inserting
           /\ request[q].kind = "verified" => request[q] \in Verified
           /\ request[q].kind \in {"accept", "burn"} => request[q] \in Holding
           /\ request[q].kind = "change" => request[q] \in Changing
<1> DEFINE r == request[q]
<1>1. \/ r = Idle \/ r \in Asked \/ r \in Inserting \/ r \in Verified \/ r \in Holding
      \/ r \in Changing
  BY DEF AccountsTypeOK
<1>2. /\ r = Idle => r.kind = "idle"
      /\ r \in Asked => r.kind \in {"register", "login", "mail"}
      /\ r \in Inserting => r.kind = "insert"
      /\ r \in Verified => r.kind = "verified"
      /\ r \in Holding => r.kind \in {"accept", "burn"}
      /\ r \in Changing => r.kind = "change"
  <2> HIDE DEF r
  <2> QED BY DEF Idle, Asked, Inserting, Verified, Holding, Changing
<1> HIDE DEF r
<1>3. /\ r.kind \in {"register", "login", "mail"} => r \in Asked
      /\ r.kind = "insert" => r \in Inserting
      /\ r.kind = "verified" => r \in Verified
      /\ r.kind \in {"accept", "burn"} => r \in Holding
      /\ r.kind = "change" => r \in Changing
  BY <1>1, <1>2
<1> QED BY <1>3 DEF r

\* A request that does nothing in a step stays sound, if the step readdresses no
\* link and touches an account only by a counted change.
LEMMA StillSound ==
    ASSUME AccountsTypeOK, NEW x \in Requests, Sound(request[x]), request'[x] = request[x],
           now' = now,
           \A k \in Links : token[k].email # "none" => token'[k].email = token[k].email,
           \A e \in Emails :
               /\ Exists(e) => account'[e].provider = account[e].provider
               /\ \/ generation'[e] = generation[e] + 1
                  \/ /\ generation'[e] = generation[e] /\ latest'[e] = latest[e]
                     /\ account'[e].flagged = account[e].flagged
                     /\ account'[e].cutoff = account[e].cutoff
    PROVE  Sound(request[x])'
<1> DEFINE r == request[x]
<1>1. r.kind \in {"accept", "burn"} => r.link \in Links
  BY RequestKinds DEF Holding
<1>2. r.kind = "change" => r.email \in Emails /\ r.read \in Nat /\ generation[r.email] \in Nat
  BY RequestKinds DEF Changing, AccountsTypeOK
<1>3. r.kind = "accept" => r.link \in Invites /\ token'[r.link].email # "none"
  BY <1>1 DEF Sound
<1>4. r.kind = "burn" => r.link \in Resets /\ token'[r.link].email # "none"
  BY <1>1 DEF Sound
<1>5. ASSUME r.kind = "change"
      PROVE  /\ Exists(r.email)' /\ (r.flag => Local(r.email)')
             /\ r.at <= now /\ r.read <= generation'[r.email]
             /\ r.read = generation'[r.email] =>
                   /\ latest'[r.email] <= r.at
                   /\ r.saw.flagged = account'[r.email].flagged
                   /\ r.saw.cutoff = account'[r.email].cutoff
  <2>1. /\ Exists(r.email) /\ (r.flag => Local(r.email)) /\ r.at <= now
        /\ r.read <= generation[r.email]
        /\ r.read = generation[r.email] =>
              /\ latest[r.email] <= r.at
              /\ r.saw.flagged = account[r.email].flagged
              /\ r.saw.cutoff = account[r.email].cutoff
    BY <1>5 DEF Sound
  <2> QED BY <1>2, <1>5, <2>1 DEF Exists, Local
<1> QED BY <1>3, <1>4, <1>5 DEF Sound

\* A link that is spent is the same link, used.
LEMMA Burnt ==
    ASSUME AccountsTypeOK, NEW l \in Links
    PROVE  LET burnt == [token[l] EXCEPT !.used = TRUE]
           IN  burnt \in LinkRows /\ burnt.used /\ burnt.email = token[l].email
<1> DEFINE row == token[l]
<1>1. row \in LinkRows
  BY DEF AccountsTypeOK
<1> HIDE DEF row
<1>2. LET burnt == [row EXCEPT !.used = TRUE]
      IN  burnt \in LinkRows /\ burnt.used /\ burnt.email = row.email
  BY <1>1 DEF LinkRows
<1> QED BY <1>2 DEF row

\* An account with a new role, and perhaps a new password, is an account.
LEMMA Promoted ==
    ASSUME NEW row \in AccountRows, NEW role \in Roles, NEW password \in Passwords,
           NEW cutoff \in Nat
    PROVE  [row EXCEPT !.role = role, !.managed = FALSE, !.password = password,
                       !.cutoff = cutoff] \in AccountRows
  BY DEF AccountRows

\* Every request leaves behind what the others rely on.
LEMMA Step == IInv /\ [Next]_vars => IInv'
<1> SUFFICES ASSUME IInv, [Next]_vars PROVE IInv'
  OBVIOUS
<1> USE AccountsAssumption DEF IInv
<1>1. ASSUME NEW q \in Requests, NEW e \in Emails, RegisterCheck(q, e) PROVE IInv'
  <2>t. AccountsTypeOK'
    BY <1>1 DEF RegisterCheck, Begin, AccountsTypeOK, RequestsAreSound, Sound, Asked,
       Inserting, Verified, Holding, Changing, AccountRows, LinkRows, Idle, Links, Roles,
       Passwords
  <2>n. NewAreBlank'
    BY <1>1 DEF RegisterCheck, Begin, AccountsTypeOK, NewAreBlank, Exists, Local
  <2>r. ResetsAreOwned'
    BY <1>1 DEF RegisterCheck, Begin, AccountsTypeOK, ResetsAreOwned, Exists, Local
  <2>s. RequestsAreSound'
    BY <1>1 DEF RegisterCheck, Begin, AccountsTypeOK, RequestsAreSound, Sound, Exists,
       Local, CutoffHolds, NewAreBlank, ResetsAreOwned
  <2>c. CutoffHolds'
    BY <1>1 DEF RegisterCheck, Begin, AccountsTypeOK, Exists, Local, CutoffHolds,
       NewAreBlank
  <2>i. InviteIsSpentOnAccount'
    BY <1>1 DEF RegisterCheck, Begin, AccountsTypeOK, InviteIsSpentOnAccount,
       AccountsAssumption
  <2>p. OnlyLocalsAreTemporary'
    BY <1>1 DEF RegisterCheck, Begin, AccountsTypeOK, Exists, Local, NewAreBlank,
       OnlyLocalsAreTemporary
  <2>f. TemporaryIsFlagged'
    BY <1>1 DEF RegisterCheck, Begin, AccountsTypeOK, Exists, Local, NewAreBlank,
       TemporaryIsFlagged
  <2> QED BY <2>t, <2>n, <2>r, <2>s, <2>c, <2>i, <2>p, <2>f
<1>2. ASSUME NEW q \in Requests, RegisterRead(q) PROVE IInv'
  <2>t. AccountsTypeOK'
    <3>1. request[q] \in Asked
      BY <1>2 DEF RegisterRead, Is, AccountsTypeOK, RequestsAreSound, Sound, Asked,
         Inserting, Verified, Holding, Changing, AccountRows, LinkRows, Idle, Links, Roles,
         Passwords
    <3>2. Row("local", "participant", "chosen") \in AccountRows
      BY DEF Row, AccountRows, Roles, Passwords
    <3>3. request' = [request EXCEPT ![q] = Idle]
             \/ request' = [request EXCEPT ![q] = [kind |-> "insert", email |-> request[q].email,
                                   row |-> Row("local", "participant", "chosen")]]
      BY <1>2 DEF RegisterRead, Goes, Ends
    <3>4. UNCHANGED <<now, account, generation, latest, token, session>>
      BY <1>2 DEF RegisterRead
    <3> QED BY <3>1, <3>2, <3>3, <3>4 DEF AccountsTypeOK, Asked, Inserting
  <2>n. NewAreBlank'
    BY <1>2 DEF RegisterRead, Goes, Ends, Is, Row, AccountsTypeOK, NewAreBlank, Exists,
       Local
  <2>r. ResetsAreOwned'
    BY <1>2 DEF RegisterRead, Goes, Ends, Is, Row, AccountsTypeOK, ResetsAreOwned, Exists,
       Local
  <2>s. RequestsAreSound'
    <3>1. \/ request' = [request EXCEPT ![q] = Idle]
          \/ request' = [request EXCEPT ![q] = [kind |-> "insert", email |-> request[q].email,
                                   row |-> Row("local", "participant", "chosen")]]
      BY <1>2 DEF RegisterRead, Goes, Ends
    <3>2. UNCHANGED <<now, account, generation, latest, token>>
      BY <1>2 DEF RegisterRead
    <3>3. ASSUME NEW x \in Requests PROVE Sound(request[x])'
      <4>1. CASE x = q
        BY <3>1, <4>1 DEF Sound, Idle, Row, AccountsTypeOK
      <4>2. CASE x # q
        <5>1. request'[x] = request[x] /\ Sound(request[x])
          BY <3>1, <4>2 DEF RequestsAreSound, AccountsTypeOK
        <5> QED BY <3>2, <5>1, StillSound
      <4> QED BY <4>1, <4>2
    <3> QED BY <3>3 DEF RequestsAreSound
  <2>c. CutoffHolds'
    BY <1>2 DEF RegisterRead, Goes, Ends, Is, Row, AccountsTypeOK, Exists, Local,
       CutoffHolds, NewAreBlank
  <2>i. InviteIsSpentOnAccount'
    BY <1>2 DEF RegisterRead, Goes, Ends, Is, Row, AccountsTypeOK, InviteIsSpentOnAccount,
       AccountsAssumption
  <2>p. OnlyLocalsAreTemporary'
    BY <1>2 DEF RegisterRead, Goes, Ends, Is, Row, AccountsTypeOK, Exists, Local,
       NewAreBlank, OnlyLocalsAreTemporary
  <2>f. TemporaryIsFlagged'
    BY <1>2 DEF RegisterRead, Goes, Ends, Is, Row, AccountsTypeOK, Exists, Local,
       NewAreBlank, TemporaryIsFlagged
  <2> QED BY <2>t, <2>n, <2>r, <2>s, <2>c, <2>i, <2>p, <2>f
<1>3. ASSUME NEW q \in Requests, NEW e \in Emails, NEW role \in Roles, CreateRead(q, e, role) PROVE IInv'
  <2>t. AccountsTypeOK'
    BY <1>3 DEF CreateRead, Begin, Row, AccountsTypeOK, RequestsAreSound, Sound, Asked,
       Inserting, Verified, Holding, Changing, AccountRows, LinkRows, Idle, Links, Roles,
       Passwords
  <2>n. NewAreBlank'
    BY <1>3 DEF CreateRead, Begin, Row, AccountsTypeOK, NewAreBlank, Exists, Local
  <2>r. ResetsAreOwned'
    BY <1>3 DEF CreateRead, Begin, Row, AccountsTypeOK, ResetsAreOwned, Exists, Local
  <2>s. RequestsAreSound'
    BY <1>3 DEF CreateRead, Begin, Row, AccountsTypeOK, RequestsAreSound, Sound, Exists,
       Local, CutoffHolds, NewAreBlank, ResetsAreOwned
  <2>c. CutoffHolds'
    BY <1>3 DEF CreateRead, Begin, Row, AccountsTypeOK, Exists, Local, CutoffHolds,
       NewAreBlank
  <2>i. InviteIsSpentOnAccount'
    BY <1>3 DEF CreateRead, Begin, Row, AccountsTypeOK, InviteIsSpentOnAccount,
       AccountsAssumption
  <2>p. OnlyLocalsAreTemporary'
    BY <1>3 DEF CreateRead, Begin, Row, AccountsTypeOK, Exists, Local, NewAreBlank,
       OnlyLocalsAreTemporary
  <2>f. TemporaryIsFlagged'
    BY <1>3 DEF CreateRead, Begin, Row, AccountsTypeOK, Exists, Local, NewAreBlank,
       TemporaryIsFlagged
  <2> QED BY <2>t, <2>n, <2>r, <2>s, <2>c, <2>i, <2>p, <2>f
<1>4. ASSUME NEW q \in Requests, NEW e \in Emails, NEW role \in Roles, ProvisionRead(q, e, role) PROVE IInv'
  <2>t. AccountsTypeOK'
    BY <1>4 DEF ProvisionRead, Begin, Row, AccountsTypeOK, RequestsAreSound, Sound, Asked,
       Inserting, Verified, Holding, Changing, AccountRows, LinkRows, Idle, Links, Roles,
       Passwords
  <2>n. NewAreBlank'
    BY <1>4 DEF ProvisionRead, Begin, Row, AccountsTypeOK, NewAreBlank, Exists, Local
  <2>r. ResetsAreOwned'
    BY <1>4 DEF ProvisionRead, Begin, Row, AccountsTypeOK, ResetsAreOwned, Exists, Local
  <2>s. RequestsAreSound'
    BY <1>4 DEF ProvisionRead, Begin, Row, AccountsTypeOK, RequestsAreSound, Sound, Exists,
       Local, CutoffHolds, NewAreBlank, ResetsAreOwned
  <2>c. CutoffHolds'
    BY <1>4 DEF ProvisionRead, Begin, Row, AccountsTypeOK, Exists, Local, CutoffHolds,
       NewAreBlank
  <2>i. InviteIsSpentOnAccount'
    BY <1>4 DEF ProvisionRead, Begin, Row, AccountsTypeOK, InviteIsSpentOnAccount,
       AccountsAssumption
  <2>p. OnlyLocalsAreTemporary'
    BY <1>4 DEF ProvisionRead, Begin, Row, AccountsTypeOK, Exists, Local, NewAreBlank,
       OnlyLocalsAreTemporary
  <2>f. TemporaryIsFlagged'
    BY <1>4 DEF ProvisionRead, Begin, Row, AccountsTypeOK, Exists, Local, NewAreBlank,
       TemporaryIsFlagged
  <2> QED BY <2>t, <2>n, <2>r, <2>s, <2>c, <2>i, <2>p, <2>f
<1>5. ASSUME NEW q \in Requests, Insert(q) PROVE IInv'
  <2>t. AccountsTypeOK'
    BY <1>5 DEF Insert, Goes, Ends, Is, Issue, Row, NoAccount, AccountsTypeOK,
       RequestsAreSound, Sound, Asked, Inserting, Verified, Holding, Changing, AccountRows,
       LinkRows, Idle, Links, Roles, Passwords
  <2>n. NewAreBlank'
    <3>1. \A x \in Emails : Exists(x) => Exists(x)'
      BY <1>5 DEF Insert, Exists, AccountsTypeOK
    <3>2. \A x \in Emails : ~Exists(x)' => account'[x] = account[x]
      <4>1. request[q] \in Inserting /\ request[q].row.provider # "none"
        BY <1>5 DEF Insert, Is, AccountsTypeOK, RequestsAreSound, Sound, Asked, Inserting,
           Verified, Holding, Changing, AccountRows, LinkRows, Idle, Links, Roles, Passwords
      <4>2. account' = account \/ account' = [account EXCEPT ![request[q].email] = request[q].row]
        BY <1>5 DEF Insert
      <4> QED BY <4>1, <4>2 DEF Exists, AccountsTypeOK
    <3>3. UNCHANGED latest
      BY <1>5 DEF Insert
    <3> QED BY <3>1, <3>2, <3>3 DEF NewAreBlank, NoAccount, Row
  <2>r. ResetsAreOwned'
    <3>1. \A x \in Emails : Local(x) => Local(x)'
      BY <1>5 DEF Insert, Local, Exists, AccountsTypeOK
    <3>2. token' = token /\ \A l \in Resets : token[l].email # "none" => token[l].email \in Emails
      BY <1>5 DEF Insert, AccountsTypeOK, LinkRows, Links
    <3> QED BY <3>1, <3>2 DEF ResetsAreOwned
  <2>s. RequestsAreSound'
    <3>1. /\ request' = [request EXCEPT ![q] = Idle]
          /\ UNCHANGED <<now, generation, latest, token>>
      BY <1>5 DEF Insert, Ends, Goes
    <3>2. request[q] \in Inserting /\ ~request[q].row.flagged /\ request[q].row.cutoff = 0
      BY <1>5, RequestKinds DEF Insert, Is, RequestsAreSound, Sound
    <3>3. \/ account' = account
          \/ /\ ~Exists(request[q].email)
             /\ account' = [account EXCEPT ![request[q].email] = request[q].row]
      BY <1>5 DEF Insert
    <3>4. \A e \in Emails :
             /\ Exists(e) => account'[e].provider = account[e].provider
             /\ account'[e].flagged = account[e].flagged
             /\ account'[e].cutoff = account[e].cutoff
      <4>1. LET e == request[q].email IN
            e \in Emails /\ (~Exists(e) => account[e].flagged = FALSE /\ account[e].cutoff = 0)
        <5>1. request[q].email \in Emails
          BY <3>2 DEF Inserting
        <5> QED BY <5>1 DEF NewAreBlank, NoAccount, Row
      <4>2. request[q].row.flagged = FALSE
        BY <3>2 DEF Inserting, AccountRows
      <4>3. CASE account' = account
        BY <4>3
      <4>4. CASE account' # account
        <5>1. \A e \in Emails : account'[e] = IF e = request[q].email THEN request[q].row ELSE account[e]
          BY <3>3, <4>4 DEF AccountsTypeOK
        <5> QED BY <3>2, <3>3, <4>1, <4>2, <4>4, <5>1
      <4> QED BY <4>3, <4>4
    <3>5. ASSUME NEW x \in Requests PROVE Sound(request[x])'
      <4>1. CASE x = q
        <5>1. request'[x] = Idle
          BY <3>1, <4>1 DEF AccountsTypeOK
        <5> QED BY <5>1 DEF Sound, Idle
      <4>2. CASE x # q
        <5>1. request'[x] = request[x] /\ Sound(request[x])
          BY <3>1, <4>2 DEF RequestsAreSound, AccountsTypeOK
        <5> QED BY <3>1, <3>4, <5>1, StillSound
      <4> QED BY <4>1, <4>2
    <3> QED BY <3>5 DEF RequestsAreSound
  <2>c. CutoffHolds'
    BY <1>5 DEF Insert, Goes, Ends, Is, Issue, Row, NoAccount, AccountsTypeOK,
       RequestsAreSound, Sound, Exists, Local, CutoffHolds, NewAreBlank
  <2>i. InviteIsSpentOnAccount'
    BY <1>5 DEF Insert, Goes, Ends, Is, Issue, Row, NoAccount, AccountsTypeOK,
       InviteIsSpentOnAccount, AccountsAssumption
  <2>p. OnlyLocalsAreTemporary'
    <3>1. request[q] \in Inserting /\ request[q].row.password # "temporary"
      BY <1>5 DEF Insert, Is, AccountsTypeOK, RequestsAreSound, Sound, Asked, Inserting,
         Verified, Holding, Changing, AccountRows, LinkRows, Idle, Links, Roles, Passwords
    <3>2. account' = account \/ account' = [account EXCEPT ![request[q].email] = request[q].row]
      BY <1>5 DEF Insert
    <3> QED BY <3>1, <3>2 DEF OnlyLocalsAreTemporary, Local, AccountsTypeOK
  <2>f. TemporaryIsFlagged'
    BY <1>5 DEF Insert, Goes, Ends, Is, Issue, Row, NoAccount, AccountsTypeOK,
       RequestsAreSound, Sound, Exists, Local, NewAreBlank, TemporaryIsFlagged
  <2> QED BY <2>t, <2>n, <2>r, <2>s, <2>c, <2>i, <2>p, <2>f
<1>6. ASSUME NEW l \in Links, NEW e \in Emails, Invite(l, e) PROVE IInv'
  <2>t. AccountsTypeOK'
    BY <1>6 DEF Invite, NoLink, AccountsTypeOK, RequestsAreSound, Sound, Asked, Inserting,
       Verified, Holding, Changing, AccountRows, LinkRows, Idle, Links, Roles, Passwords
  <2>n. NewAreBlank'
    BY <1>6 DEF Invite, NoLink, AccountsTypeOK, NewAreBlank, Exists, Local
  <2>r. ResetsAreOwned'
    BY <1>6 DEF Invite, NoLink, AccountsTypeOK, ResetsAreOwned, Exists, Local
  <2>s. RequestsAreSound'
    BY <1>6 DEF Invite, NoLink, AccountsTypeOK, RequestsAreSound, Sound, Exists, Local,
       CutoffHolds, NewAreBlank, ResetsAreOwned
  <2>c. CutoffHolds'
    BY <1>6 DEF Invite, NoLink, AccountsTypeOK, Exists, Local, CutoffHolds, NewAreBlank
  <2>i. InviteIsSpentOnAccount'
    BY <1>6 DEF Invite, NoLink, AccountsTypeOK, InviteIsSpentOnAccount, AccountsAssumption
  <2>p. OnlyLocalsAreTemporary'
    BY <1>6 DEF Invite, NoLink, AccountsTypeOK, Exists, Local, NewAreBlank,
       OnlyLocalsAreTemporary
  <2>f. TemporaryIsFlagged'
    BY <1>6 DEF Invite, NoLink, AccountsTypeOK, Exists, Local, NewAreBlank,
       TemporaryIsFlagged
  <2> QED BY <2>t, <2>n, <2>r, <2>s, <2>c, <2>i, <2>p, <2>f
<1>7. ASSUME NEW q \in Requests, NEW l \in Links, AcceptRead(q, l) PROVE IInv'
  <2>t. AccountsTypeOK'
    BY <1>7 DEF AcceptRead, Begin, Spendable, AccountsTypeOK, RequestsAreSound, Sound,
       Asked, Inserting, Verified, Holding, Changing, AccountRows, LinkRows, Idle, Links,
       Roles, Passwords
  <2>n. NewAreBlank'
    BY <1>7 DEF AcceptRead, Begin, Spendable, AccountsTypeOK, NewAreBlank, Exists, Local
  <2>r. ResetsAreOwned'
    BY <1>7 DEF AcceptRead, Begin, Spendable, AccountsTypeOK, ResetsAreOwned, Exists, Local
  <2>s. RequestsAreSound'
    BY <1>7 DEF AcceptRead, Begin, Spendable, AccountsTypeOK, RequestsAreSound, Sound,
       Exists, Local, CutoffHolds, NewAreBlank, ResetsAreOwned
  <2>c. CutoffHolds'
    BY <1>7 DEF AcceptRead, Begin, Spendable, AccountsTypeOK, Exists, Local, CutoffHolds,
       NewAreBlank
  <2>i. InviteIsSpentOnAccount'
    BY <1>7 DEF AcceptRead, Begin, Spendable, AccountsTypeOK, InviteIsSpentOnAccount,
       AccountsAssumption
  <2>p. OnlyLocalsAreTemporary'
    BY <1>7 DEF AcceptRead, Begin, Spendable, AccountsTypeOK, Exists, Local, NewAreBlank,
       OnlyLocalsAreTemporary
  <2>f. TemporaryIsFlagged'
    BY <1>7 DEF AcceptRead, Begin, Spendable, AccountsTypeOK, Exists, Local, NewAreBlank,
       TemporaryIsFlagged
  <2> QED BY <2>t, <2>n, <2>r, <2>s, <2>c, <2>i, <2>p, <2>f
<1>8. ASSUME NEW q \in Requests, AcceptCommit(q) PROVE IInv'
  <2> DEFINE l == request[q].link
             e == token[l].email
             row == Row("local", "participant", "chosen")
             burnt == [token[l] EXCEPT !.used = TRUE]
  <2>1. l \in Invites /\ e \in Emails /\ l \in Links
    <3>1. l \in Invites /\ e # "none"
      BY <1>8 DEF AcceptCommit, Is, RequestsAreSound, Sound
    <3> QED BY <3>1 DEF AccountsTypeOK, LinkRows, Links
  <2>2. /\ row \in AccountRows /\ row.provider = "local" /\ ~row.flagged /\ row.cutoff = 0
        /\ row.password = "chosen"
    BY DEF Row, AccountRows, Roles, Passwords
  <2>3. /\ burnt \in LinkRows /\ burnt.used /\ burnt.email = e
    BY <2>1, Burnt
  <2>4. /\ request' = [request EXCEPT ![q] = Idle]
        /\ UNCHANGED <<now, generation, latest, crossed>>
    BY <1>8 DEF AcceptCommit, Ends, Goes
  <2>5. \/ UNCHANGED <<account, token, madeBy, session>>
        \/ /\ ~Exists(e)
           /\ account' = [account EXCEPT ![e] = row]
           /\ token' = [token EXCEPT ![l] = burnt]
           /\ madeBy' = madeBy \cup {l}
           /\ Issue(e)
    BY <1>8 DEF AcceptCommit
  <2> HIDE DEF l, e, row, burnt
  <2>d. \A x \in Emails : Local(x) => Local(x)'
    BY <2>1, <2>2, <2>5 DEF Exists, Local, AccountsTypeOK
  <2>a. \A x \in Emails : (Exists(x) => account'[x] = account[x]) /\ (~Exists(x)' => account'[x] = account[x])
    BY <2>1, <2>2, <2>5 DEF Exists, Local, AccountsTypeOK
  <2>b. \A k \in Links : token'[k].email = token[k].email
    BY <2>1, <2>3, <2>5 DEF AccountsTypeOK, e
  <2>t. AccountsTypeOK'
    <3>1. session' \in SUBSET [email : Emails, iat : Nat]
      BY <2>1, <2>5 DEF Issue, AccountsTypeOK
    <3> QED BY <2>1, <2>2, <2>3, <2>4, <2>5, <3>1 DEF AccountsTypeOK
  <2>n. NewAreBlank'
    BY <2>4, <2>a DEF NewAreBlank, Exists, NoAccount, Row
  <2>r. ResetsAreOwned'
    BY <2>d, <2>b DEF ResetsAreOwned, Local, Links, AccountsTypeOK, LinkRows
  <2>s. RequestsAreSound'
    BY <2>4, <2>a, <2>b, <2>d DEF RequestsAreSound, Sound, Exists, Local, Idle,
       AccountsTypeOK, RequestsAreSound, Sound, Asked, Inserting, Verified, Holding,
       Changing, AccountRows, LinkRows, Idle, Links, Roles, Passwords
  <2>c. CutoffHolds'
    BY <2>2, <2>4, <2>5, <2>a DEF CutoffHolds, NewAreBlank, AccountsTypeOK
  <2>i. InviteIsSpentOnAccount'
    BY <2>1, <2>3, <2>5 DEF InviteIsSpentOnAccount, AccountsTypeOK, Links
  <2>p. OnlyLocalsAreTemporary'
    BY <2>1, <2>2, <2>5 DEF OnlyLocalsAreTemporary, Local, AccountsTypeOK
  <2>f. TemporaryIsFlagged'
    BY <2>2, <2>4, <2>5 DEF TemporaryIsFlagged, AccountsTypeOK
  <2> QED BY <2>t, <2>n, <2>r, <2>s, <2>c, <2>i, <2>p, <2>f
<1>9. ASSUME NEW q \in Requests, NEW e \in Emails, LoginCheck(q, e) PROVE IInv'
  <2>t. AccountsTypeOK'
    BY <1>9 DEF LoginCheck, Begin, AccountsTypeOK, RequestsAreSound, Sound, Asked,
       Inserting, Verified, Holding, Changing, AccountRows, LinkRows, Idle, Links, Roles,
       Passwords
  <2>n. NewAreBlank'
    BY <1>9 DEF LoginCheck, Begin, AccountsTypeOK, NewAreBlank, Exists, Local
  <2>r. ResetsAreOwned'
    BY <1>9 DEF LoginCheck, Begin, AccountsTypeOK, ResetsAreOwned, Exists, Local
  <2>s. RequestsAreSound'
    BY <1>9 DEF LoginCheck, Begin, AccountsTypeOK, RequestsAreSound, Sound, Exists, Local,
       CutoffHolds, NewAreBlank, ResetsAreOwned
  <2>c. CutoffHolds'
    BY <1>9 DEF LoginCheck, Begin, AccountsTypeOK, Exists, Local, CutoffHolds, NewAreBlank
  <2>i. InviteIsSpentOnAccount'
    BY <1>9 DEF LoginCheck, Begin, AccountsTypeOK, InviteIsSpentOnAccount,
       AccountsAssumption
  <2>p. OnlyLocalsAreTemporary'
    BY <1>9 DEF LoginCheck, Begin, AccountsTypeOK, Exists, Local, NewAreBlank,
       OnlyLocalsAreTemporary
  <2>f. TemporaryIsFlagged'
    BY <1>9 DEF LoginCheck, Begin, AccountsTypeOK, Exists, Local, NewAreBlank,
       TemporaryIsFlagged
  <2> QED BY <2>t, <2>n, <2>r, <2>s, <2>c, <2>i, <2>p, <2>f
<1>10. ASSUME NEW q \in Requests, LoginFails(q) PROVE IInv'
  <2>t. AccountsTypeOK'
    BY <1>10 DEF LoginFails, Goes, Ends, Is, AccountsTypeOK
  <2>n. NewAreBlank'
    BY <1>10 DEF LoginFails, Goes, Ends, Is, AccountsTypeOK, NewAreBlank, Exists, Local
  <2>r. ResetsAreOwned'
    BY <1>10 DEF LoginFails, Goes, Ends, Is, AccountsTypeOK, ResetsAreOwned, Exists, Local
  <2>s. RequestsAreSound'
    BY <1>10 DEF LoginFails, Goes, Ends, Is, AccountsTypeOK, RequestsAreSound, Sound,
       Exists, Local, CutoffHolds, NewAreBlank, ResetsAreOwned, Asked, Inserting, Verified,
       Holding, Changing, AccountRows, LinkRows, Idle, Links, Roles, Passwords
  <2>c. CutoffHolds'
    BY <1>10 DEF LoginFails, Goes, Ends, Is, AccountsTypeOK, Exists, Local, CutoffHolds,
       NewAreBlank
  <2>i. InviteIsSpentOnAccount'
    BY <1>10 DEF LoginFails, Goes, Ends, Is, AccountsTypeOK, InviteIsSpentOnAccount,
       AccountsAssumption
  <2>p. OnlyLocalsAreTemporary'
    BY <1>10 DEF LoginFails, Goes, Ends, Is, AccountsTypeOK, Exists, Local, NewAreBlank,
       OnlyLocalsAreTemporary
  <2>f. TemporaryIsFlagged'
    BY <1>10 DEF LoginFails, Goes, Ends, Is, AccountsTypeOK, Exists, Local, NewAreBlank,
       TemporaryIsFlagged
  <2> QED BY <2>t, <2>n, <2>r, <2>s, <2>c, <2>i, <2>p, <2>f
<1>11. ASSUME NEW q \in Requests, LoginVerified(q) PROVE IInv'
  <2>t. AccountsTypeOK'
    BY <1>11 DEF LoginVerified, Goes, Is, AccountsTypeOK, RequestsAreSound, Sound, Asked,
       Inserting, Verified, Holding, Changing, AccountRows, LinkRows, Idle, Links, Roles,
       Passwords
  <2>n. NewAreBlank'
    BY <1>11 DEF LoginVerified, Goes, Is, AccountsTypeOK, NewAreBlank, Exists, Local
  <2>r. ResetsAreOwned'
    BY <1>11 DEF LoginVerified, Goes, Is, AccountsTypeOK, ResetsAreOwned, Exists, Local
  <2>s. RequestsAreSound'
    BY <1>11 DEF LoginVerified, Goes, Is, AccountsTypeOK, RequestsAreSound, Sound, Exists,
       Local, CutoffHolds, NewAreBlank, ResetsAreOwned
  <2>c. CutoffHolds'
    BY <1>11 DEF LoginVerified, Goes, Is, AccountsTypeOK, Exists, Local, CutoffHolds,
       NewAreBlank
  <2>i. InviteIsSpentOnAccount'
    BY <1>11 DEF LoginVerified, Goes, Is, AccountsTypeOK, InviteIsSpentOnAccount,
       AccountsAssumption
  <2>p. OnlyLocalsAreTemporary'
    BY <1>11 DEF LoginVerified, Goes, Is, AccountsTypeOK, Exists, Local, NewAreBlank,
       OnlyLocalsAreTemporary
  <2>f. TemporaryIsFlagged'
    BY <1>11 DEF LoginVerified, Goes, Is, AccountsTypeOK, Exists, Local, NewAreBlank,
       TemporaryIsFlagged
  <2> QED BY <2>t, <2>n, <2>r, <2>s, <2>c, <2>i, <2>p, <2>f
<1>12. ASSUME NEW q \in Requests, LoginOpens(q) PROVE IInv'
  <2>t. AccountsTypeOK'
    BY <1>12 DEF LoginOpens, Goes, Ends, Is, Issue, AccountsTypeOK, RequestsAreSound, Sound,
       Asked, Inserting, Verified, Holding, Changing, AccountRows, LinkRows, Idle, Links,
       Roles, Passwords
  <2>n. NewAreBlank'
    BY <1>12 DEF LoginOpens, Goes, Ends, Is, Issue, AccountsTypeOK, NewAreBlank, Exists,
       Local
  <2>r. ResetsAreOwned'
    BY <1>12 DEF LoginOpens, Goes, Ends, Is, Issue, AccountsTypeOK, ResetsAreOwned, Exists,
       Local
  <2>s. RequestsAreSound'
    BY <1>12 DEF LoginOpens, Goes, Ends, Is, Issue, AccountsTypeOK, RequestsAreSound, Sound,
       Exists, Local, CutoffHolds, NewAreBlank, ResetsAreOwned, Asked, Inserting, Verified,
       Holding, Changing, AccountRows, LinkRows, Idle, Links, Roles, Passwords
  <2>c. CutoffHolds'
    BY <1>12 DEF LoginOpens, Goes, Ends, Is, Issue, AccountsTypeOK, Exists, Local,
       CutoffHolds, NewAreBlank
  <2>i. InviteIsSpentOnAccount'
    BY <1>12 DEF LoginOpens, Goes, Ends, Is, Issue, AccountsTypeOK, InviteIsSpentOnAccount,
       AccountsAssumption
  <2>p. OnlyLocalsAreTemporary'
    BY <1>12 DEF LoginOpens, Goes, Ends, Is, Issue, AccountsTypeOK, Exists, Local,
       NewAreBlank, OnlyLocalsAreTemporary
  <2>f. TemporaryIsFlagged'
    BY <1>12 DEF LoginOpens, Goes, Ends, Is, Issue, AccountsTypeOK, Exists, Local,
       NewAreBlank, TemporaryIsFlagged
  <2> QED BY <2>t, <2>n, <2>r, <2>s, <2>c, <2>i, <2>p, <2>f
<1>13. ASSUME NEW q \in Requests, NEW e \in Emails, NEW role \in Roles, OidcReturns(q, e, role) PROVE IInv'
  <2>t. AccountsTypeOK'
    <3>1. [account[e] EXCEPT !.role = role, !.cutoff = now] \in AccountRows
      BY DEF AccountsTypeOK, AccountRows
    <3>2. account' \in [Emails -> AccountRows]
      <4>1. account' = account \/ account' = [account EXCEPT ![e] = [account[e] EXCEPT !.role = role, !.cutoff = now]]
        BY <1>13 DEF OidcReturns
      <4> QED BY <3>1, <4>1 DEF AccountsTypeOK
    <3>3. generation' \in [Emails -> Nat] /\ latest' \in [Emails -> Nat]
      BY <1>13 DEF OidcReturns, Changed, AccountsTypeOK
    <3>4. session' \in SUBSET [email : Emails, iat : Nat]
      BY <1>13 DEF OidcReturns, Issue, AccountsTypeOK
    <3>5. UNCHANGED <<now, token, request>>
      BY <1>13 DEF OidcReturns
    <3> QED BY <3>2, <3>3, <3>4, <3>5 DEF AccountsTypeOK
  <2>n. NewAreBlank'
    BY <1>13 DEF OidcReturns, Changed, Issue, AccountsTypeOK, NewAreBlank, Exists, Local,
       RequestsAreSound, Sound, Asked, Inserting, Verified, Holding, Changing, AccountRows,
       LinkRows, Idle, Links, Roles, Passwords
  <2>r. ResetsAreOwned'
    BY <1>13 DEF OidcReturns, Changed, Issue, AccountsTypeOK, ResetsAreOwned, Exists, Local,
       RequestsAreSound, Sound, Asked, Inserting, Verified, Holding, Changing, AccountRows,
       LinkRows, Idle, Links, Roles, Passwords
  <2>s. RequestsAreSound'
    BY <1>13 DEF OidcReturns, Changed, Issue, AccountsTypeOK, RequestsAreSound, Sound,
       Exists, Local, CutoffHolds, NewAreBlank, ResetsAreOwned, Asked, Inserting, Verified,
       Holding, Changing, AccountRows, LinkRows, Idle, Links, Roles, Passwords
  <2>c. CutoffHolds'
    BY <1>13 DEF OidcReturns, Changed, Issue, AccountsTypeOK, RequestsAreSound, Sound,
       Exists, Local, CutoffHolds, NewAreBlank, Asked, Inserting, Verified, Holding,
       Changing, AccountRows, LinkRows, Idle, Links, Roles, Passwords
  <2>i. InviteIsSpentOnAccount'
    BY <1>13 DEF OidcReturns, Changed, Issue, AccountsTypeOK, InviteIsSpentOnAccount,
       AccountsAssumption
  <2>p. OnlyLocalsAreTemporary'
    BY <1>13 DEF OidcReturns, Changed, Issue, AccountsTypeOK, RequestsAreSound, Sound,
       Exists, Local, NewAreBlank, OnlyLocalsAreTemporary, Asked, Inserting, Verified,
       Holding, Changing, AccountRows, LinkRows, Idle, Links, Roles, Passwords
  <2>f. TemporaryIsFlagged'
    <3>1. \A x \in Emails : account'[x].password = account[x].password
                             /\ account'[x].flagged = account[x].flagged
      BY <1>13 DEF OidcReturns, AccountsTypeOK, AccountRows
    <3>2. account[e].password # "temporary"
      BY <1>13 DEF OidcReturns, OnlyLocalsAreTemporary, Local
    <3>3. \A x \in Emails : x \in crossed => x \in crossed' \/ x = e
      BY <1>13 DEF OidcReturns, Changed
    <3> QED BY <3>1, <3>2, <3>3 DEF TemporaryIsFlagged
  <2> QED BY <2>t, <2>n, <2>r, <2>s, <2>c, <2>i, <2>p, <2>f
<1>14. ASSUME NEW q \in Requests, NEW e \in Emails, ChangeRead(q, e) PROVE IInv'
  <2>t. AccountsTypeOK'
    BY <1>14 DEF ChangeRead, Change, Begin, AccountsTypeOK, RequestsAreSound, Sound, Asked,
       Inserting, Verified, Holding, Changing, AccountRows, LinkRows, Idle, Links, Roles,
       Passwords
  <2>n. NewAreBlank'
    BY <1>14 DEF ChangeRead, Change, Begin, AccountsTypeOK, NewAreBlank, Exists, Local
  <2>r. ResetsAreOwned'
    BY <1>14 DEF ChangeRead, Change, Begin, AccountsTypeOK, ResetsAreOwned, Exists, Local
  <2>s. RequestsAreSound'
    <3>1. /\ request' = [request EXCEPT ![q] = Change(e, "owner", FALSE)]
          /\ UNCHANGED <<now, account, generation, latest, token>>
      BY <1>14 DEF ChangeRead, Begin
    <3>2. Exists(e) /\ latest[e] <= now /\ generation[e] \in Nat /\ now \in Nat
      BY <1>14 DEF ChangeRead, Honoured, CutoffHolds, AccountsTypeOK
    <3>3. ASSUME NEW x \in Requests PROVE Sound(request[x])'
      <4>1. CASE x = q
        <5>1. request'[x] = Change(e, "owner", FALSE)
          BY <3>1, <4>1 DEF AccountsTypeOK
        <5> QED BY <3>1, <3>2, <5>1 DEF Sound, Change, Exists
      <4>2. CASE x # q
        <5>1. request'[x] = request[x] /\ Sound(request[x])
          BY <3>1, <4>2 DEF RequestsAreSound, AccountsTypeOK
        <5> QED BY <3>1, <5>1, StillSound
      <4> QED BY <4>1, <4>2
    <3> QED BY <3>3 DEF RequestsAreSound
  <2>c. CutoffHolds'
    BY <1>14 DEF ChangeRead, Change, Begin, AccountsTypeOK, Exists, Local, CutoffHolds,
       NewAreBlank
  <2>i. InviteIsSpentOnAccount'
    BY <1>14 DEF ChangeRead, Change, Begin, AccountsTypeOK, InviteIsSpentOnAccount,
       AccountsAssumption
  <2>p. OnlyLocalsAreTemporary'
    BY <1>14 DEF ChangeRead, Change, Begin, AccountsTypeOK, Exists, Local, NewAreBlank,
       OnlyLocalsAreTemporary
  <2>f. TemporaryIsFlagged'
    BY <1>14 DEF ChangeRead, Change, Begin, AccountsTypeOK, Exists, Local, NewAreBlank,
       TemporaryIsFlagged
  <2> QED BY <2>t, <2>n, <2>r, <2>s, <2>c, <2>i, <2>p, <2>f
<1>15. ASSUME NEW q \in Requests, NEW e \in Emails, NEW flag \in BOOLEAN, AdminResetRead(q, e, flag) PROVE IInv'
  <2>t. AccountsTypeOK'
    BY <1>15 DEF AdminResetRead, Change, Begin, AccountsTypeOK, RequestsAreSound, Sound,
       Asked, Inserting, Verified, Holding, Changing, AccountRows, LinkRows, Idle, Links,
       Roles, Passwords
  <2>n. NewAreBlank'
    BY <1>15 DEF AdminResetRead, Change, Begin, AccountsTypeOK, NewAreBlank, Exists, Local
  <2>r. ResetsAreOwned'
    BY <1>15 DEF AdminResetRead, Change, Begin, AccountsTypeOK, ResetsAreOwned, Exists,
       Local
  <2>s. RequestsAreSound'
    BY <1>15 DEF AdminResetRead, Change, Begin, AccountsTypeOK, RequestsAreSound, Sound,
       Exists, Local, CutoffHolds, NewAreBlank, ResetsAreOwned
  <2>c. CutoffHolds'
    BY <1>15 DEF AdminResetRead, Change, Begin, AccountsTypeOK, Exists, Local, CutoffHolds,
       NewAreBlank
  <2>i. InviteIsSpentOnAccount'
    BY <1>15 DEF AdminResetRead, Change, Begin, AccountsTypeOK, InviteIsSpentOnAccount,
       AccountsAssumption
  <2>p. OnlyLocalsAreTemporary'
    BY <1>15 DEF AdminResetRead, Change, Begin, AccountsTypeOK, Exists, Local, NewAreBlank,
       OnlyLocalsAreTemporary
  <2>f. TemporaryIsFlagged'
    BY <1>15 DEF AdminResetRead, Change, Begin, AccountsTypeOK, Exists, Local, NewAreBlank,
       TemporaryIsFlagged
  <2> QED BY <2>t, <2>n, <2>r, <2>s, <2>c, <2>i, <2>p, <2>f
<1>16. ASSUME NEW q \in Requests, NEW e \in Emails, MailCheck(q, e) PROVE IInv'
  <2>t. AccountsTypeOK'
    BY <1>16 DEF MailCheck, Begin, AccountsTypeOK, RequestsAreSound, Sound, Asked,
       Inserting, Verified, Holding, Changing, AccountRows, LinkRows, Idle, Links, Roles,
       Passwords
  <2>n. NewAreBlank'
    BY <1>16 DEF MailCheck, Begin, AccountsTypeOK, NewAreBlank, Exists, Local
  <2>r. ResetsAreOwned'
    BY <1>16 DEF MailCheck, Begin, AccountsTypeOK, ResetsAreOwned, Exists, Local
  <2>s. RequestsAreSound'
    BY <1>16 DEF MailCheck, Begin, AccountsTypeOK, RequestsAreSound, Sound, Exists, Local,
       CutoffHolds, NewAreBlank, ResetsAreOwned
  <2>c. CutoffHolds'
    BY <1>16 DEF MailCheck, Begin, AccountsTypeOK, Exists, Local, CutoffHolds, NewAreBlank
  <2>i. InviteIsSpentOnAccount'
    BY <1>16 DEF MailCheck, Begin, AccountsTypeOK, InviteIsSpentOnAccount,
       AccountsAssumption
  <2>p. OnlyLocalsAreTemporary'
    BY <1>16 DEF MailCheck, Begin, AccountsTypeOK, Exists, Local, NewAreBlank,
       OnlyLocalsAreTemporary
  <2>f. TemporaryIsFlagged'
    BY <1>16 DEF MailCheck, Begin, AccountsTypeOK, Exists, Local, NewAreBlank,
       TemporaryIsFlagged
  <2> QED BY <2>t, <2>n, <2>r, <2>s, <2>c, <2>i, <2>p, <2>f
<1>17. ASSUME NEW q \in Requests, MailReset(q) PROVE IInv'
  <2>t. AccountsTypeOK'
    <3>1. request[q] \in Asked
      BY <1>17 DEF MailReset, Is, AccountsTypeOK, RequestsAreSound, Sound, Asked, Inserting,
         Verified, Holding, Changing, AccountRows, LinkRows, Idle, Links, Roles, Passwords
    <3>2. token' \in [Links -> LinkRows]
      <4> DEFINE made == [email |-> request[q].email, used |-> FALSE, live |-> TRUE]
      <4>1. made \in LinkRows
        BY <3>1 DEF Asked, LinkRows
      <4>2. token' = token \/ \E l \in Resets : token' = [token EXCEPT ![l] = made]
        BY <1>17 DEF MailReset
      <4> HIDE DEF made
      <4> QED BY <4>1, <4>2 DEF AccountsTypeOK
    <3>3. /\ request' = [request EXCEPT ![q] = Idle]
          /\ UNCHANGED <<now, account, generation, latest, session>>
      BY <1>17 DEF MailReset, Ends, Goes
    <3> QED BY <3>2, <3>3 DEF AccountsTypeOK
  <2>n. NewAreBlank'
    BY <1>17 DEF MailReset, Goes, Ends, Is, NoLink, AccountsTypeOK, NewAreBlank, Exists,
       Local
  <2>r. ResetsAreOwned'
    BY <1>17 DEF MailReset, Goes, Ends, Is, NoLink, AccountsTypeOK, ResetsAreOwned, Exists,
       Local, RequestsAreSound, Sound, Asked, Inserting, Verified, Holding, Changing,
       AccountRows, LinkRows, Idle, Links, Roles, Passwords
  <2>s. RequestsAreSound'
    <3>1. /\ request' = [request EXCEPT ![q] = Idle]
          /\ UNCHANGED <<now, account, generation, latest>>
      BY <1>17 DEF MailReset, Ends, Goes
    <3>2. request[q] \in Asked
      BY <1>17 DEF MailReset, Is, AccountsTypeOK, RequestsAreSound, Sound, Asked, Inserting,
         Verified, Holding, Changing, AccountRows, LinkRows, Idle, Links, Roles, Passwords
    <3>3. \A k \in Links : token[k].email # "none" => token'[k].email = token[k].email
      BY <1>17 DEF MailReset, NoLink, AccountsTypeOK
    <3>4. ASSUME NEW x \in Requests PROVE Sound(request[x])'
      <4>1. CASE x = q
        BY <3>1, <4>1 DEF Sound, Idle, AccountsTypeOK
      <4>2. CASE x # q
        <5>1. request'[x] = request[x] /\ Sound(request[x])
          BY <3>1, <4>2 DEF RequestsAreSound, AccountsTypeOK
        <5>2. request[x].kind \in {"accept", "burn"} => request[x].link \in Links
          BY DEF AccountsTypeOK, RequestsAreSound, Sound, Asked, Inserting, Verified,
             Holding, Changing, AccountRows, LinkRows, Idle, Links, Roles, Passwords
        <5> QED BY <3>1, <3>3, <5>1, <5>2 DEF Sound, Local, Exists
      <4> QED BY <4>1, <4>2
    <3> QED BY <3>4 DEF RequestsAreSound
  <2>c. CutoffHolds'
    BY <1>17 DEF MailReset, Goes, Ends, Is, NoLink, AccountsTypeOK, Exists, Local,
       CutoffHolds, NewAreBlank
  <2>i. InviteIsSpentOnAccount'
    BY <1>17 DEF MailReset, Goes, Ends, Is, NoLink, AccountsTypeOK, RequestsAreSound, Sound,
       InviteIsSpentOnAccount, AccountsAssumption, Asked, Inserting, Verified, Holding,
       Changing, AccountRows, LinkRows, Idle, Links, Roles, Passwords
  <2>p. OnlyLocalsAreTemporary'
    BY <1>17 DEF MailReset, Goes, Ends, Is, NoLink, AccountsTypeOK, Exists, Local,
       NewAreBlank, OnlyLocalsAreTemporary
  <2>f. TemporaryIsFlagged'
    BY <1>17 DEF MailReset, Goes, Ends, Is, NoLink, AccountsTypeOK, Exists, Local,
       NewAreBlank, TemporaryIsFlagged
  <2> QED BY <2>t, <2>n, <2>r, <2>s, <2>c, <2>i, <2>p, <2>f
<1>18. ASSUME NEW q \in Requests, NEW l \in Links, ResetRead(q, l) PROVE IInv'
  <2>t. AccountsTypeOK'
    BY <1>18 DEF ResetRead, Begin, Spendable, AccountsTypeOK, RequestsAreSound, Sound,
       Asked, Inserting, Verified, Holding, Changing, AccountRows, LinkRows, Idle, Links,
       Roles, Passwords
  <2>n. NewAreBlank'
    BY <1>18 DEF ResetRead, Begin, Spendable, AccountsTypeOK, NewAreBlank, Exists, Local
  <2>r. ResetsAreOwned'
    BY <1>18 DEF ResetRead, Begin, Spendable, AccountsTypeOK, ResetsAreOwned, Exists, Local
  <2>s. RequestsAreSound'
    BY <1>18 DEF ResetRead, Begin, Spendable, AccountsTypeOK, RequestsAreSound, Sound,
       Exists, Local, CutoffHolds, NewAreBlank, ResetsAreOwned
  <2>c. CutoffHolds'
    BY <1>18 DEF ResetRead, Begin, Spendable, AccountsTypeOK, Exists, Local, CutoffHolds,
       NewAreBlank
  <2>i. InviteIsSpentOnAccount'
    BY <1>18 DEF ResetRead, Begin, Spendable, AccountsTypeOK, InviteIsSpentOnAccount,
       AccountsAssumption
  <2>p. OnlyLocalsAreTemporary'
    BY <1>18 DEF ResetRead, Begin, Spendable, AccountsTypeOK, Exists, Local, NewAreBlank,
       OnlyLocalsAreTemporary
  <2>f. TemporaryIsFlagged'
    BY <1>18 DEF ResetRead, Begin, Spendable, AccountsTypeOK, Exists, Local, NewAreBlank,
       TemporaryIsFlagged
  <2> QED BY <2>t, <2>n, <2>r, <2>s, <2>c, <2>i, <2>p, <2>f
<1>19. ASSUME NEW q \in Requests, ResetBurn(q) PROVE IInv'
  <2> DEFINE l == request[q].link
             e == token[l].email
             burnt == [token[l] EXCEPT !.used = TRUE]
  <2>1. l \in Resets /\ l \in Links /\ e \in Emails /\ Local(e)
    <3>1. l \in Resets /\ e # "none"
      BY <1>19 DEF ResetBurn, Is, RequestsAreSound, Sound
    <3> QED BY <3>1 DEF AccountsTypeOK, LinkRows, Links, ResetsAreOwned
  <2>2. burnt \in LinkRows /\ burnt.email = e
    BY <2>1, Burnt
  <2>3. /\ request' = [request EXCEPT ![q] = Change(e, "link", FALSE)]
        /\ token' = [token EXCEPT ![l] = burnt]
        /\ UNCHANGED <<now, account, generation, latest, session>>
    BY <1>19 DEF ResetBurn, Goes
  <2>4. \A k \in Links : token'[k].email = token[k].email
    BY <2>1, <2>2, <2>3 DEF AccountsTypeOK
  <2>5. Change(e, "link", FALSE) \in Changing
    BY <2>1 DEF Change, AccountsTypeOK, Changing
  <2> HIDE DEF l, e, burnt
  <2>t. AccountsTypeOK'
    BY <2>1, <2>2, <2>3, <2>5 DEF AccountsTypeOK
  <2>n. NewAreBlank'
    BY <2>3 DEF NewAreBlank, Exists
  <2>r. ResetsAreOwned'
    BY <2>3, <2>4 DEF ResetsAreOwned, Local, Links
  <2>s. RequestsAreSound'
    <3> SUFFICES ASSUME NEW x \in Requests PROVE Sound(request[x])'
      BY DEF RequestsAreSound
    <3>1. CASE x = q
      <4>1. request'[x] = Change(e, "link", FALSE)
        BY <2>3, <3>1 DEF AccountsTypeOK
      <4>2. /\ latest'[e] <= now' /\ generation'[e] \in Nat /\ account'[e] = account[e]
            /\ generation'[e] = generation[e] /\ now \in Nat /\ now' = now
            /\ latest'[e] = latest[e]
        BY <2>1, <2>3 DEF AccountsTypeOK, CutoffHolds
      <4> QED BY <2>1, <4>1, <4>2 DEF Sound, Change, Local, Exists
    <3>2. CASE x # q
      <4>1. request'[x] = request[x] /\ Sound(request[x])
        BY <2>3, <3>2 DEF RequestsAreSound, AccountsTypeOK
      <4> QED BY <2>3, <2>4, <4>1, StillSound DEF Local
    <3> QED BY <3>1, <3>2
  <2>c. CutoffHolds'
    BY <1>19 DEF ResetBurn, Change, Goes, Is, AccountsTypeOK, Exists, Local, CutoffHolds,
       NewAreBlank
  <2>i. InviteIsSpentOnAccount'
    BY <1>19 DEF ResetBurn, Change, Goes, Is, AccountsTypeOK, RequestsAreSound, Sound,
       InviteIsSpentOnAccount, AccountsAssumption
  <2>p. OnlyLocalsAreTemporary'
    BY <1>19 DEF ResetBurn, Change, Goes, Is, AccountsTypeOK, Exists, Local, NewAreBlank,
       OnlyLocalsAreTemporary
  <2>f. TemporaryIsFlagged'
    BY <1>19 DEF ResetBurn, Change, Goes, Is, AccountsTypeOK, Exists, Local, NewAreBlank,
       TemporaryIsFlagged
  <2> QED BY <2>t, <2>n, <2>r, <2>s, <2>c, <2>i, <2>p, <2>f
<1>20. ASSUME NEW q \in Requests, ChangeCommit(q) PROVE IInv'
  <2> DEFINE r == request[q]
             e == r.email
             password == IF r.flag THEN "temporary" ELSE "chosen"
             flagged == IF r.flag = r.saw.flagged THEN account[e].flagged ELSE r.flag
             cutoff == IF r.at = r.saw.cutoff THEN account[e].cutoff ELSE r.at
             row == [account[e] EXCEPT !.password = password, !.flagged = flagged,
                                       !.cutoff = cutoff]
  <2>0. r.kind = "change" /\ r \in Changing /\ Sound(r)
    BY <1>20, RequestKinds DEF ChangeCommit, Is, RequestsAreSound
  <2>1. /\ e \in Emails /\ r.flag \in BOOLEAN /\ r.at \in Nat /\ r.read \in Nat
        /\ r.saw \in AccountRows /\ account[e] \in AccountRows
    <3> HIDE DEF r
    <3> QED BY <2>0 DEF AccountsTypeOK, Changing
  <2>2. /\ Exists(e) /\ (r.flag => Local(e)) /\ r.at <= now
        /\ r.read = generation[e] => /\ latest[e] <= r.at
                                     /\ r.saw.flagged = account[e].flagged
                                     /\ r.saw.cutoff = account[e].cutoff
    BY <2>0 DEF Sound
  <2>3. /\ account' = [account EXCEPT ![e] = row]
        /\ request' = [request EXCEPT ![q] = Idle]
        /\ UNCHANGED <<now, token>>
        /\ Changed(e, r.read, r.at)
        /\ IF r.by = "admin" THEN UNCHANGED session ELSE Issue(e)
    BY <1>20 DEF ChangeCommit, Ends, Goes
  <2> HIDE DEF r, e
  <2>4. /\ row \in AccountRows /\ row.provider = account[e].provider
        /\ row.password = password /\ row.flagged = flagged /\ row.cutoff = cutoff
    <3>1. account[e].flagged \in BOOLEAN /\ account[e].cutoff \in Nat
      BY <2>1 DEF AccountRows
    <3>2. password \in Passwords /\ flagged \in BOOLEAN /\ cutoff \in Nat
      BY <2>1, <3>1 DEF Passwords
    <3> DEFINE old == account[e]
    <3>3. old \in AccountRows
      BY <2>1
    <3> HIDE DEF password, flagged, cutoff, old
    <3>4. LET new == [old EXCEPT !.password = password, !.flagged = flagged, !.cutoff = cutoff]
          IN  /\ new \in AccountRows /\ new.provider = old.provider
              /\ new.password = password /\ new.flagged = flagged /\ new.cutoff = cutoff
      BY <3>2, <3>3 DEF AccountRows
    <3> QED BY <3>4 DEF old
  <2> HIDE DEF row
  <2>5. /\ account'[e] = row
        /\ \A f \in Emails \ {e} : account'[f] = account[f]
    BY <2>1, <2>3 DEF AccountsTypeOK
  <2>6. \A f \in Emails : account'[f].provider = account[f].provider
    BY <2>4, <2>5
  <2>7. /\ generation' \in [Emails -> Nat] /\ latest' \in [Emails -> Nat]
        /\ generation'[e] = generation[e] + 1
        /\ latest'[e] = IF r.at > latest[e] THEN r.at ELSE latest[e]
        /\ crossed' = IF r.read = generation[e] THEN crossed \ {e} ELSE crossed \cup {e}
        /\ \A f \in Emails \ {e} : generation'[f] = generation[f] /\ latest'[f] = latest[f]
    BY <2>1, <2>3 DEF Changed, AccountsTypeOK
  <2>t. AccountsTypeOK'
    <3>1. account' \in [Emails -> AccountRows]
      BY <2>1, <2>3, <2>4 DEF AccountsTypeOK
    <3>2. session' \in SUBSET [email : Emails, iat : Nat]
      BY <2>1, <2>3 DEF Issue, AccountsTypeOK
    <3> QED BY <2>3, <2>7, <3>1, <3>2 DEF AccountsTypeOK
  <2>n. NewAreBlank'
    BY <2>2, <2>5, <2>6, <2>7 DEF NewAreBlank, Exists, Local
  <2>r. ResetsAreOwned'
    BY <2>3, <2>6 DEF ResetsAreOwned, Local, AccountsTypeOK, LinkRows, Links
  <2>s. RequestsAreSound'
    <3> SUFFICES ASSUME NEW x \in Requests PROVE Sound(request[x])'
      BY DEF RequestsAreSound
    <3>1. CASE x = q
      BY <2>3, <3>1 DEF Sound, Idle, AccountsTypeOK
    <3>2. CASE x # q
      <4>1. request'[x] = request[x] /\ Sound(request[x])
        BY <2>3, <3>2 DEF RequestsAreSound, AccountsTypeOK
      <4>2. ASSUME NEW f \in Emails
            PROVE  /\ Exists(f) => account'[f].provider = account[f].provider
                   /\ \/ generation'[f] = generation[f] + 1
                      \/ /\ generation'[f] = generation[f] /\ latest'[f] = latest[f]
                         /\ account'[f].flagged = account[f].flagged
                         /\ account'[f].cutoff = account[f].cutoff
        BY <2>5, <2>6, <2>7
      <4> QED BY <2>3, <4>1, <4>2, StillSound
    <3> QED BY <3>1, <3>2
  <2>c. CutoffHolds'
    <3> SUFFICES ASSUME NEW f \in Emails
                 PROVE  latest'[f] <= now' /\ (f \notin crossed' => latest'[f] <= account'[f].cutoff)
      BY DEF CutoffHolds
    <3>1. CASE f # e
      BY <2>3, <2>5, <2>7, <3>1 DEF CutoffHolds
    <3>2. CASE f = e
      <4>1. /\ latest[e] \in Nat /\ now \in Nat /\ now' = now
            /\ latest[e] <= now /\ account'[e].cutoff = cutoff
        BY <2>1, <2>3, <2>4, <2>5 DEF CutoffHolds, AccountsTypeOK
      <4>2. f \notin crossed' => r.read = generation[e]
        BY <2>7, <3>2
      <4>3. r.read = generation[e] => cutoff = r.at
        BY <2>2
      <4> QED BY <2>1, <2>2, <2>7, <3>2, <4>1, <4>2, <4>3
    <3> QED BY <3>1, <3>2
  <2>i. InviteIsSpentOnAccount'
    BY <1>20 DEF ChangeCommit, Changed, Goes, Ends, Is, Issue, AccountsTypeOK,
       InviteIsSpentOnAccount, AccountsAssumption
  <2>p. OnlyLocalsAreTemporary'
    BY <1>20 DEF ChangeCommit, Changed, Goes, Ends, Is, Issue, AccountsTypeOK,
       RequestsAreSound, Sound, Exists, Local, NewAreBlank, OnlyLocalsAreTemporary
  <2>f. TemporaryIsFlagged'
    BY <1>20 DEF ChangeCommit, Changed, Goes, Ends, Is, Issue, AccountsTypeOK,
       RequestsAreSound, Sound, Exists, Local, NewAreBlank, TemporaryIsFlagged
  <2> QED BY <2>t, <2>n, <2>r, <2>s, <2>c, <2>i, <2>p, <2>f
<1>21. ASSUME NEW e \in Emails, NEW role \in Roles, NEW reset \in BOOLEAN, Promote(e, role, reset) PROVE IInv'
  <2>t. AccountsTypeOK'
    <3> DEFINE row == [account[e] EXCEPT !.role = role, !.managed = FALSE,
                           !.password = IF reset THEN "chosen" ELSE @,
                           !.cutoff = IF reset THEN now ELSE @]
    <3>1. row \in AccountRows
      <4>1. /\ account[e] \in AccountRows /\ account[e].password \in Passwords
            /\ account[e].cutoff \in Nat /\ now \in Nat
        BY DEF AccountsTypeOK, AccountRows
      <4> DEFINE password == IF reset THEN "chosen" ELSE account[e].password
                 cutoff == IF reset THEN now ELSE account[e].cutoff
      <4>3. password \in Passwords /\ cutoff \in Nat
        BY <4>1 DEF Passwords
      <4> HIDE DEF password, cutoff
      <4>4. [account[e] EXCEPT !.role = role, !.managed = FALSE, !.password = password,
                               !.cutoff = cutoff] \in AccountRows
        BY <4>1, <4>3, Promoted
      <4> QED BY <4>4 DEF password, cutoff
    <3>2. /\ account' = [account EXCEPT ![e] = row]
          /\ UNCHANGED <<now, token, session, request>>
      BY <1>21 DEF Promote
    <3>3. generation' \in [Emails -> Nat] /\ latest' \in [Emails -> Nat]
      BY <1>21 DEF Promote, Changed, AccountsTypeOK
    <3> QED BY <3>1, <3>2, <3>3 DEF AccountsTypeOK
  <2>n. NewAreBlank'
    BY <1>21 DEF Promote, Changed, AccountsTypeOK, NewAreBlank, Exists, Local
  <2>r. ResetsAreOwned'
    BY <1>21 DEF Promote, Changed, AccountsTypeOK, ResetsAreOwned, Exists, Local,
       RequestsAreSound, Sound, Asked, Inserting, Verified, Holding, Changing, AccountRows,
       LinkRows, Idle, Links, Roles, Passwords
  <2>s. RequestsAreSound'
    BY <1>21 DEF Promote, Changed, AccountsTypeOK, RequestsAreSound, Sound, Exists, Local,
       CutoffHolds, NewAreBlank, ResetsAreOwned, Asked, Inserting, Verified, Holding,
       Changing, AccountRows, LinkRows, Idle, Links, Roles, Passwords
  <2>c. CutoffHolds'
    BY <1>21 DEF Promote, Changed, AccountsTypeOK, Exists, Local, CutoffHolds, NewAreBlank
  <2>i. InviteIsSpentOnAccount'
    BY <1>21 DEF Promote, Changed, AccountsTypeOK, InviteIsSpentOnAccount,
       AccountsAssumption
  <2>p. OnlyLocalsAreTemporary'
    BY <1>21 DEF Promote, Changed, AccountsTypeOK, Exists, Local, NewAreBlank,
       OnlyLocalsAreTemporary
  <2>f. TemporaryIsFlagged'
    BY <1>21 DEF Promote, Changed, AccountsTypeOK, Exists, Local, NewAreBlank,
       TemporaryIsFlagged
  <2> QED BY <2>t, <2>n, <2>r, <2>s, <2>c, <2>i, <2>p, <2>f
<1>22. ASSUME Tick PROVE IInv'
  <2>t. AccountsTypeOK'
    BY <1>22 DEF Tick, AccountsTypeOK
  <2>n. NewAreBlank'
    BY <1>22 DEF Tick, AccountsTypeOK, NewAreBlank, Exists, Local
  <2>r. ResetsAreOwned'
    BY <1>22 DEF Tick, AccountsTypeOK, ResetsAreOwned, Exists, Local
  <2>s. RequestsAreSound'
    BY <1>22 DEF Tick, AccountsTypeOK, RequestsAreSound, Sound, Exists, Local, CutoffHolds,
       NewAreBlank, ResetsAreOwned, Asked, Inserting, Verified, Holding, Changing,
       AccountRows, LinkRows, Idle, Links, Roles, Passwords
  <2>c. CutoffHolds'
    BY <1>22 DEF Tick, AccountsTypeOK, Exists, Local, CutoffHolds, NewAreBlank
  <2>i. InviteIsSpentOnAccount'
    BY <1>22 DEF Tick, AccountsTypeOK, InviteIsSpentOnAccount, AccountsAssumption
  <2>p. OnlyLocalsAreTemporary'
    BY <1>22 DEF Tick, AccountsTypeOK, Exists, Local, NewAreBlank, OnlyLocalsAreTemporary
  <2>f. TemporaryIsFlagged'
    BY <1>22 DEF Tick, AccountsTypeOK, Exists, Local, NewAreBlank, TemporaryIsFlagged
  <2> QED BY <2>t, <2>n, <2>r, <2>s, <2>c, <2>i, <2>p, <2>f
<1>23. ASSUME NEW l \in Links, Expire(l) PROVE IInv'
  <2>t. AccountsTypeOK'
    <3>1. [token[l] EXCEPT !.live = FALSE] \in LinkRows
      BY DEF AccountsTypeOK, LinkRows
    <3>2. /\ token' = [token EXCEPT ![l] = [token[l] EXCEPT !.live = FALSE]]
          /\ UNCHANGED <<now, account, generation, latest, session, request>>
      BY <1>23 DEF Expire
    <3> QED BY <3>1, <3>2 DEF AccountsTypeOK
  <2>n. NewAreBlank'
    BY <1>23 DEF Expire, AccountsTypeOK, NewAreBlank, Exists, Local
  <2>r. ResetsAreOwned'
    BY <1>23 DEF Expire, AccountsTypeOK, ResetsAreOwned, Exists, Local
  <2>s. RequestsAreSound'
    BY <1>23 DEF Expire, AccountsTypeOK, RequestsAreSound, Sound, Exists, Local,
       CutoffHolds, NewAreBlank, ResetsAreOwned
  <2>c. CutoffHolds'
    BY <1>23 DEF Expire, AccountsTypeOK, Exists, Local, CutoffHolds, NewAreBlank
  <2>i. InviteIsSpentOnAccount'
    BY <1>23 DEF Expire, AccountsTypeOK, InviteIsSpentOnAccount, AccountsAssumption
  <2>p. OnlyLocalsAreTemporary'
    BY <1>23 DEF Expire, AccountsTypeOK, Exists, Local, NewAreBlank, OnlyLocalsAreTemporary
  <2>f. TemporaryIsFlagged'
    BY <1>23 DEF Expire, AccountsTypeOK, Exists, Local, NewAreBlank, TemporaryIsFlagged
  <2> QED BY <2>t, <2>n, <2>r, <2>s, <2>c, <2>i, <2>p, <2>f
<1>24. ASSUME NEW q \in Requests, RequestDies(q) PROVE IInv'
  <2>t. AccountsTypeOK'
    BY <1>24 DEF RequestDies, Goes, Ends, AccountsTypeOK
  <2>n. NewAreBlank'
    BY <1>24 DEF RequestDies, Goes, Ends, AccountsTypeOK, NewAreBlank, Exists, Local
  <2>r. ResetsAreOwned'
    BY <1>24 DEF RequestDies, Goes, Ends, AccountsTypeOK, ResetsAreOwned, Exists, Local
  <2>s. RequestsAreSound'
    BY <1>24 DEF RequestDies, Goes, Ends, AccountsTypeOK, RequestsAreSound, Sound, Exists,
       Local, CutoffHolds, NewAreBlank, ResetsAreOwned, Asked, Inserting, Verified, Holding,
       Changing, AccountRows, LinkRows, Idle, Links, Roles, Passwords
  <2>c. CutoffHolds'
    BY <1>24 DEF RequestDies, Goes, Ends, AccountsTypeOK, Exists, Local, CutoffHolds,
       NewAreBlank
  <2>i. InviteIsSpentOnAccount'
    BY <1>24 DEF RequestDies, Goes, Ends, AccountsTypeOK, InviteIsSpentOnAccount,
       AccountsAssumption
  <2>p. OnlyLocalsAreTemporary'
    BY <1>24 DEF RequestDies, Goes, Ends, AccountsTypeOK, Exists, Local, NewAreBlank,
       OnlyLocalsAreTemporary
  <2>f. TemporaryIsFlagged'
    BY <1>24 DEF RequestDies, Goes, Ends, AccountsTypeOK, Exists, Local, NewAreBlank,
       TemporaryIsFlagged
  <2> QED BY <2>t, <2>n, <2>r, <2>s, <2>c, <2>i, <2>p, <2>f
<1>25. CASE SweepHits \/ LoseHits \/ UNCHANGED vars
  BY <1>25 DEF SweepHits, LoseHits, vars, AccountsTypeOK, NewAreBlank, ResetsAreOwned,
     RequestsAreSound, Sound, CutoffHolds, InviteIsSpentOnAccount, OnlyLocalsAreTemporary,
     TemporaryIsFlagged, Exists, Local
<1> QED BY <1>1, <1>2, <1>3, <1>4, <1>5, <1>6, <1>7, <1>8, <1>9, <1>10, <1>11, <1>12, <1>13,
           <1>14, <1>15, <1>16, <1>17, <1>18, <1>19, <1>20, <1>21, <1>22, <1>23, <1>24,
           <1>25 DEF Next, Answer, OidcCallback

\* At the start there are no accounts, links or requests.
LEMMA Start == Init => IInv
<1> SUFFICES ASSUME Init PROVE IInv
  OBVIOUS
<1>1. /\ NoAccount \in AccountRows /\ NoAccount.provider = "none" /\ NoAccount.cutoff = 0
      /\ NoAccount.password = "none" /\ ~NoAccount.flagged
  BY DEF NoAccount, Row, AccountRows, Roles, Passwords
<1>2. NoLink \in LinkRows /\ NoLink.email = "none" /\ ~NoLink.used
  BY DEF NoLink, LinkRows
<1>3. Idle.kind = "idle"
  BY DEF Idle
<1>4. /\ now = 1
      /\ account = [e \in Emails |-> NoAccount]
      /\ generation = [e \in Emails |-> 0] /\ latest = [e \in Emails |-> 0]
      /\ token = [l \in Links |-> NoLink]
      /\ madeBy = {} /\ session = {}
      /\ request = [q \in Requests |-> Idle]
  BY DEF Init
<1>5. AccountsTypeOK
  BY <1>1, <1>2, <1>4 DEF AccountsTypeOK
<1>6. NewAreBlank /\ CutoffHolds /\ OnlyLocalsAreTemporary /\ TemporaryIsFlagged
  BY <1>1, <1>4 DEF NewAreBlank, CutoffHolds, OnlyLocalsAreTemporary, TemporaryIsFlagged
<1>7. ResetsAreOwned /\ InviteIsSpentOnAccount
  BY <1>2, <1>4 DEF ResetsAreOwned, InviteIsSpentOnAccount, Links
<1>8. RequestsAreSound
  BY <1>3, <1>4 DEF RequestsAreSound, Sound
<1> QED BY <1>5, <1>6, <1>7, <1>8 DEF IInv

\* What the theorems rest on.
LEMMA Inductive == Spec => []IInv
  BY Start, Step, PTL DEF Spec

-----------------------------------------------------------------------------
\* An invite is burnt with the account it makes, and with nothing else.
THEOREM InvitesAreSpent == Spec => []InviteIsSpentOnAccount
<1>1. IInv => InviteIsSpentOnAccount
  BY DEF IInv
<1> QED BY Inductive, <1>1, PTL

\* A temporary password is flagged, unless two changes crossed.
THEOREM TemporariesAreFlagged == Spec => []TemporaryIsFlagged
<1>1. IInv => TemporaryIsFlagged
  BY DEF IInv
<1> QED BY Inductive, <1>1, PTL

\* A change ends the sessions issued before the second it took as its cutoff, unless
\* two changes crossed.
THEOREM OldSessionsAreEnded == Spec => []OldSessionsEnd
<1>1. IInv => OldSessionsEnd
  <2> SUFFICES ASSUME IInv, NEW s \in session, Honoured(s), s.email \notin crossed
               PROVE  s.iat >= latest[s.email]
    BY DEF OldSessionsEnd
  <2>1. s.email \in Emails /\ s.iat \in Nat
    BY DEF IInv, AccountsTypeOK
  <2>2. /\ latest[s.email] \in Nat /\ account[s.email].cutoff \in Nat
        /\ latest[s.email] <= account[s.email].cutoff
    BY <2>1 DEF IInv, AccountsTypeOK, CutoffHolds, AccountRows
  <2> QED BY <2>1, <2>2 DEF Honoured
<1> QED BY Inductive, <1>1, PTL

-----------------------------------------------------------------------------
(* The limiters.                                                           *)

\* The requests a limiter let through and has not counted yet.
Awaited(scope) == CASE scope = "login" -> "login"
                    [] scope = "registration" -> "register"
                    [] scope = "password_reset" -> "mail"
Between(scope) == {q \in Requests : request[q].kind = Awaited(scope)}

Allowance(scope) ==
    /\ IsFiniteSet(Attempts(scope))
    /\ Recent(scope) + Cardinality(Between(scope)) < MaxAttempts + Cardinality(Requests)

ThrottleInv == /\ hits \in [Scopes -> [Times -> Nat]]
               /\ \A scope \in Scopes : Allowance(scope)

\* Sizes are numbers.
LEMMA Sizes ==
    ASSUME NEW scope \in Scopes, IsFiniteSet(Attempts(scope))
    PROVE  /\ IsFiniteSet(InWindow(scope)) /\ Recent(scope) \in Nat
           /\ IsFiniteSet(Between(scope)) /\ Cardinality(Between(scope)) \in Nat
           /\ Cardinality(Between(scope)) <= Cardinality(Requests)
           /\ Cardinality(Requests) \in Nat
<1>1. IsFiniteSet(InWindow(scope))
  BY FS_Subset DEF InWindow
<1>2. Between(scope) \in SUBSET Requests
  BY DEF Between
<1>3. IsFiniteSet(Between(scope)) /\ Cardinality(Between(scope)) <= Cardinality(Requests)
  BY <1>2, FS_Subset, RequestsAssumption
<1> QED BY <1>1, <1>3, FS_CardinalityType, RequestsAssumption DEF Recent

\* A step that adds no attempt to a limiter, and begins no request of its kind.
LEMMA NothingCounted ==
    ASSUME NEW scope \in Scopes, Allowance(scope),
           Attempts(scope)' \subseteq Attempts(scope), InWindow(scope)' \subseteq InWindow(scope),
           Between(scope)' \subseteq Between(scope)
    PROVE  Allowance(scope)'
<1>1. IsFiniteSet(Attempts(scope)) /\ IsFiniteSet(Attempts(scope)')
  BY FS_Subset DEF Allowance
<1>2. /\ IsFiniteSet(InWindow(scope)) /\ IsFiniteSet(Between(scope))
      /\ Recent(scope) \in Nat /\ Cardinality(Between(scope)) \in Nat
      /\ Cardinality(Requests) \in Nat
  BY <1>1, Sizes
<1>3. /\ Cardinality(InWindow(scope)') <= Recent(scope) /\ IsFiniteSet(InWindow(scope)')
      /\ Cardinality(Between(scope)') <= Cardinality(Between(scope))
      /\ IsFiniteSet(Between(scope)')
  BY <1>2, FS_Subset DEF Recent
<1>4. Cardinality(InWindow(scope)') \in Nat /\ Cardinality(Between(scope)') \in Nat
  BY <1>3, FS_CardinalityType
<1>5. Recent(scope) + Cardinality(Between(scope)) < MaxAttempts + Cardinality(Requests)
  BY DEF Allowance
<1> QED BY <1>1, <1>2, <1>3, <1>4, <1>5, ThrottleAssumption DEF Allowance, Recent

\* A step that counts one attempt of a request that was waiting to be counted.
LEMMA OneCounted ==
    ASSUME NEW scope \in Scopes, Allowance(scope), NEW x, NEW q \in Between(scope),
           Attempts(scope)' \subseteq Attempts(scope) \cup {x},
           InWindow(scope)' \subseteq InWindow(scope) \cup {x},
           Between(scope)' \subseteq Between(scope) \ {q}
    PROVE  Allowance(scope)'
<1>1. IsFiniteSet(Attempts(scope)) /\ IsFiniteSet(Attempts(scope)')
  BY FS_AddElement, FS_Subset DEF Allowance
<1>2. /\ IsFiniteSet(InWindow(scope)) /\ IsFiniteSet(Between(scope))
      /\ Recent(scope) \in Nat /\ Cardinality(Between(scope)) \in Nat
      /\ Cardinality(Requests) \in Nat
  BY <1>1, Sizes
<1> DEFINE more == InWindow(scope) \cup {x}
           fewer == Between(scope) \ {q}
<1>3. /\ IsFiniteSet(more) /\ Cardinality(more) <= Recent(scope) + 1
      /\ Cardinality(more) \in Nat
  <2> DEFINE window == InWindow(scope)
  <2>1. IsFiniteSet(window) /\ Cardinality(window) = Recent(scope)
    BY <1>2 DEF Recent
  <2> HIDE DEF window
  <2>2. /\ IsFiniteSet(window \cup {x})
        /\ Cardinality(window \cup {x}) = IF x \in window THEN Cardinality(window)
                                          ELSE Cardinality(window) + 1
    BY <2>1, FS_AddElement
  <2> QED BY <1>2, <2>1, <2>2 DEF window
<1>4. /\ IsFiniteSet(fewer) /\ Cardinality(fewer) = Cardinality(Between(scope)) - 1
      /\ Cardinality(fewer) \in Nat
  BY <1>2, FS_RemoveElement, FS_CardinalityType
<1> HIDE DEF more, fewer
<1>5. InWindow(scope)' \in SUBSET more /\ Between(scope)' \in SUBSET fewer
  BY DEF more, fewer
<1>6. /\ Cardinality(InWindow(scope)') <= Cardinality(more) /\ IsFiniteSet(InWindow(scope)')
      /\ Cardinality(Between(scope)') <= Cardinality(fewer) /\ IsFiniteSet(Between(scope)')
  BY <1>3, <1>4, <1>5, FS_Subset
<1>7. Cardinality(InWindow(scope)') \in Nat /\ Cardinality(Between(scope)') \in Nat
  BY <1>6, FS_CardinalityType
<1>8. Recent(scope) + Cardinality(Between(scope)) < MaxAttempts + Cardinality(Requests)
  BY DEF Allowance
<1> QED BY <1>1, <1>2, <1>3, <1>4, <1>6, <1>7, <1>8, ThrottleAssumption DEF Allowance, Recent

\* A step that lets a request through: the check found room for one more.
LEMMA LetThrough ==
    ASSUME NEW scope \in Scopes, Allowance(scope), ~Limited(scope),
           Attempts(scope)' = Attempts(scope), InWindow(scope)' = InWindow(scope)
    PROVE  Allowance(scope)'
<1>1. IsFiniteSet(Attempts(scope))
  BY DEF Allowance
<1>2. Recent(scope) \in Nat /\ Recent(scope) < MaxAttempts /\ Cardinality(Requests) \in Nat
  BY <1>1, Sizes, ThrottleAssumption DEF Limited
<1>3. Between(scope)' \in SUBSET Requests
  BY DEF Between
<1>4. /\ IsFiniteSet(Between(scope)')
      /\ Cardinality(Between(scope)') <= Cardinality(Requests)
  BY <1>3, FS_Subset, RequestsAssumption
<1>5. Cardinality(Between(scope)') \in Nat
  BY <1>4, FS_CardinalityType
<1> QED BY <1>1, <1>2, <1>4, <1>5, ThrottleAssumption DEF Allowance, Recent

\* What the operations do to the rows: nothing is added by those that keep or
\* delete rows while time passes, one row by the one that counts.
LEMMA RowsKept ==
    ASSUME NEW scope \in Scopes, now \in Nat, now' \in Nat, now <= now',
           hits \in [Scopes -> [Times -> Nat]], hits' \in [Scopes -> [Times -> Nat]],
           \A t \in Times : hits'[scope][t] <= hits[scope][t]
    PROVE  /\ Attempts(scope)' \subseteq Attempts(scope)
           /\ InWindow(scope)' \subseteq InWindow(scope)
<1>1. ASSUME NEW t \in Times PROVE 1..hits'[scope][t] \subseteq 1..hits[scope][t]
  <2>1. hits'[scope][t] \in Nat /\ hits[scope][t] \in Nat /\ hits'[scope][t] <= hits[scope][t]
    OBVIOUS
  <2> QED BY <2>1
<1>2. ASSUME NEW row \in Attempts(scope)' PROVE row \in Attempts(scope) /\ row[1] \in Nat
  <2>1. PICK t \in Times : row \in {t} \X (1..hits'[scope][t])
    BY <1>2 DEF Attempts
  <2>2. row \in {t} \X (1..hits[scope][t])
    BY <1>1, <2>1
  <2>3. row[1] = t /\ t \in Nat
    BY <2>2, ThrottleAssumption DEF Times
  <2> QED BY <2>2, <2>3 DEF Attempts
<1>3. ASSUME NEW row \in InWindow(scope)' PROVE row \in InWindow(scope)
  <2>1. row \in Attempts(scope)' /\ row[1] + Window > now'
    BY <1>3 DEF InWindow
  <2>2. row \in Attempts(scope) /\ row[1] + Window > now
    BY <1>2, <2>1, ThrottleAssumption
  <2> QED BY <2>2 DEF InWindow
<1> QED BY <1>2, <1>3

\* One counted attempt is one more row, with a number of its own.
LEMMA RowAdded ==
    ASSUME NEW scope \in Scopes, now' = now, hits \in [Scopes -> [Times -> Nat]],
           hits' = Counted(scope)
    PROVE  LET x == <<now, hits[scope][now] + 1>>
           IN  /\ Attempts(scope)' \subseteq Attempts(scope) \cup {x}
               /\ InWindow(scope)' \subseteq InWindow(scope) \cup {x}
<1> DEFINE x == <<now, hits[scope][now] + 1>>
<1>1. ASSUME NEW row \in Attempts(scope)', row # x PROVE row \in Attempts(scope)
  <2>1. PICK t \in Times : row \in {t} \X (1..hits'[scope][t])
    BY <1>1 DEF Attempts
  <2>2. row \in {t} \X (1..hits[scope][t])
    <3>1. CASE t # now
      <4>1. hits'[scope][t] = hits[scope][t]
        BY <3>1 DEF Counted
      <4> QED BY <2>1, <4>1
    <3>2. CASE t = now
      <4>1. hits'[scope][t] = hits[scope][t] + 1 /\ hits[scope][t] \in Nat
        BY <3>2 DEF Counted
      <4>2. row = <<t, row[2]>> /\ row[2] \in 1..(hits[scope][t] + 1)
        BY <2>1, <4>1
      <4>3. row[2] # hits[scope][t] + 1
        BY <1>1, <3>2, <4>2
      <4>4. row[2] \in 1..hits[scope][t]
        BY <4>1, <4>2, <4>3
      <4> QED BY <4>2, <4>4
    <3> QED BY <3>1, <3>2
  <2> QED BY <2>2 DEF Attempts
<1>2. ASSUME NEW row \in InWindow(scope)', row # x PROVE row \in InWindow(scope)
  BY <1>1, <1>2 DEF InWindow
<1> QED BY <1>1, <1>2

\* The three ways an operation meets the limiters.  It may leave them alone or
\* clear rows, and begin nothing that they are asked about;
LEMMA Uncounted ==
    ASSUME AccountsTypeOK, ThrottleInv, now' \in Nat, now <= now',
           hits' \in [Scopes -> [Times -> Nat]],
           \A scope \in Scopes, t \in Times : hits'[scope][t] <= hits[scope][t],
           \A x \in Requests : \/ request'[x] = request[x]
                               \/ request'[x].kind \notin {"login", "register", "mail"}
    PROVE  ThrottleInv'
<1>1. ASSUME NEW scope \in Scopes PROVE Allowance(scope)'
  <2>1. /\ Attempts(scope)' \subseteq Attempts(scope)
        /\ InWindow(scope)' \subseteq InWindow(scope)
    BY RowsKept DEF ThrottleInv, AccountsTypeOK
  <2>2. Between(scope)' \subseteq Between(scope)
    <3>1. Awaited(scope) \in {"login", "register", "mail"}
      BY DEF Awaited, Scopes
    <3>2. Awaited(scope)' = Awaited(scope)
      BY DEF Awaited
    <3> QED BY <3>1, <3>2 DEF Between
  <2> QED BY <2>1, <2>2, NothingCounted DEF ThrottleInv
<1> QED BY <1>1 DEF ThrottleInv

\* it may begin a request that its limiter lets through;
LEMMA Checked ==
    ASSUME AccountsTypeOK, ThrottleInv, NEW asked \in Scopes, NEW q \in Requests, NEW r,
           r.kind = Awaited(asked), ~Limited(asked), UNCHANGED <<now, hits>>,
           \A x \in Requests : request'[x] = IF x = q THEN r ELSE request[x]
    PROVE  ThrottleInv'
<1>1. ASSUME NEW scope \in Scopes PROVE Allowance(scope)'
  <2>1. Attempts(scope)' = Attempts(scope) /\ InWindow(scope)' = InWindow(scope)
    BY DEF InWindow, Attempts
  <2>2. CASE scope = asked
    BY <2>1, <2>2, LetThrough DEF ThrottleInv
  <2>3. CASE scope # asked
    <3>1. Awaited(scope) # Awaited(asked)
      BY <2>3 DEF Awaited, Scopes
    <3>2. Between(scope)' \subseteq Between(scope)
      BY <3>1 DEF Between, Awaited
    <3> QED BY <2>1, <3>2, NothingCounted DEF ThrottleInv
  <2> QED BY <2>2, <2>3
<1> QED BY <1>1 DEF ThrottleInv

\* or it may count a request that was let through.
LEMMA CountedOff ==
    ASSUME AccountsTypeOK, ThrottleInv, NEW asked \in Scopes, NEW q \in Requests,
           request[q].kind = Awaited(asked), now' = now, hits' = Counted(asked),
           request'[q].kind \notin {"login", "register", "mail"},
           \A x \in Requests : x # q => request'[x] = request[x]
    PROVE  ThrottleInv'
<1>t. now \in Nat /\ hits \in [Scopes -> [Times -> Nat]]
  BY DEF AccountsTypeOK, ThrottleInv
<1>1. hits' \in [Scopes -> [Times -> Nat]]
  <2>1. hits[asked] \in [Times -> Nat]
    BY <1>t
  <2>2. [hits[asked] EXCEPT ![now] = hits[asked][now] + 1] \in [Times -> Nat]
    <3> DEFINE f == hits[asked]
    <3>1. f \in [Times -> Nat]
      BY <2>1
    <3> HIDE DEF f
    <3>2. [f EXCEPT ![now] = f[now] + 1] = [t \in Times |-> IF t = now THEN f[t] + 1 ELSE f[t]]
      BY <3>1
    <3>3. [t \in Times |-> IF t = now THEN f[t] + 1 ELSE f[t]] \in [Times -> Nat]
      BY <3>1
    <3>4. [f EXCEPT ![now] = f[now] + 1] \in [Times -> Nat]
      BY <3>2, <3>3
    <3> QED BY <3>4 DEF f
  <2>3. hits' = [hits EXCEPT ![asked] = [hits[asked] EXCEPT ![now] = hits[asked][now] + 1]]
    BY DEF Counted
  <2> QED BY <1>t, <2>2, <2>3
<1>2. ASSUME NEW scope \in Scopes PROVE Allowance(scope)'
  <2>1. CASE scope = asked
    <3> DEFINE x == <<now, hits[asked][now] + 1>>
    <3>1. /\ Attempts(asked)' \subseteq Attempts(asked) \cup {x}
          /\ InWindow(asked)' \subseteq InWindow(asked) \cup {x}
      BY <1>t, RowAdded
    <3>2. q \in Between(asked)
      BY DEF Between
    <3>3. Between(asked)' \subseteq Between(asked) \ {q}
      BY DEF Between, Awaited, Scopes
    <3> HIDE DEF x
    <3> QED BY <2>1, <3>1, <3>2, <3>3, OneCounted DEF ThrottleInv
  <2>2. CASE scope # asked
    <3>1. \A t \in Times : hits'[scope][t] <= hits[scope][t]
      <4>1. hits'[scope] = hits[scope] /\ hits[scope] \in [Times -> Nat]
        BY <1>t, <2>2 DEF Counted
      <4> QED BY <4>1
    <3>2. /\ Attempts(scope)' \subseteq Attempts(scope)
          /\ InWindow(scope)' \subseteq InWindow(scope)
      BY <1>t, <1>1, <3>1, RowsKept
    <3>3. Between(scope)' \subseteq Between(scope)
      BY DEF Between, Awaited, Scopes
    <3> QED BY <3>2, <3>3, NothingCounted DEF ThrottleInv
  <2> QED BY <2>1, <2>2
<1> QED BY <1>1, <1>2 DEF ThrottleInv

\* The requests after a step that begins, advances or ends one.
LEMMA OneMoves ==
    ASSUME AccountsTypeOK, NEW q \in Requests, NEW r, Begin(q, r) \/ Goes(q, r)
    PROVE  \A x \in Requests : request'[x] = IF x = q THEN r ELSE request[x]
  BY DEF Begin, Goes, AccountsTypeOK

\* Every step keeps the count of a window and of those about to be counted.
LEMMA ThrottleStep == IInv /\ ThrottleInv /\ [Next]_vars => ThrottleInv'
<1> SUFFICES ASSUME IInv, ThrottleInv, [Next]_vars PROVE ThrottleInv'
  OBVIOUS
<1>t. AccountsTypeOK /\ now \in Nat /\ hits \in [Scopes -> [Times -> Nat]]
  BY DEF IInv, AccountsTypeOK, ThrottleInv
<1>u. \A scope \in Scopes, t \in Times : hits[scope][t] \in Nat /\ hits[scope][t] <= hits[scope][t]
  BY <1>t
<1>i. Idle.kind \notin {"login", "register", "mail"}
  BY DEF Idle
<1>v. NoHits \in [Times -> Nat] /\ \A t \in Times : NoHits[t] = 0
  BY DEF NoHits
\* A step that leaves the rows and the clock alone and asks no limiter.
<1>k. ASSUME UNCHANGED <<now, hits>>,
             \A x \in Requests : \/ request'[x] = request[x]
                                 \/ request'[x].kind \notin {"login", "register", "mail"}
      PROVE  ThrottleInv'
  BY <1>t, <1>u, <1>k, Uncounted
<1>1. ASSUME NEW q \in Requests, NEW e \in Emails, RegisterCheck(q, e) PROVE ThrottleInv'
  <2> DEFINE r == [kind |-> "register", email |-> e]
  <2>1. Begin(q, r) /\ ~Limited("registration") /\ UNCHANGED <<now, hits>>
    BY <1>1 DEF RegisterCheck
  <2>2. r.kind = Awaited("registration") /\ "registration" \in Scopes
    BY DEF Awaited, Scopes
  <2> HIDE DEF r
  <2> QED BY <1>t, <2>1, <2>2, OneMoves, Checked
<1>2. ASSUME NEW q \in Requests, NEW e \in Emails, LoginCheck(q, e) PROVE ThrottleInv'
  <2> DEFINE r == [kind |-> "login", email |-> e]
  <2>1. Begin(q, r) /\ ~Limited("login") /\ UNCHANGED <<now, hits>>
    BY <1>2 DEF LoginCheck
  <2>2. r.kind = Awaited("login") /\ "login" \in Scopes
    BY DEF Awaited, Scopes
  <2> HIDE DEF r
  <2> QED BY <1>t, <2>1, <2>2, OneMoves, Checked
<1>3. ASSUME NEW q \in Requests, NEW e \in Emails, MailCheck(q, e) PROVE ThrottleInv'
  <2> DEFINE r == [kind |-> "mail", email |-> e]
  <2>1. Begin(q, r) /\ ~Limited("password_reset") /\ UNCHANGED <<now, hits>>
    BY <1>3 DEF MailCheck
  <2>2. r.kind = Awaited("password_reset") /\ "password_reset" \in Scopes
    BY DEF Awaited, Scopes
  <2> HIDE DEF r
  <2> QED BY <1>t, <2>1, <2>2, OneMoves, Checked
<1>4. ASSUME NEW q \in Requests, RegisterRead(q) PROVE ThrottleInv'
  <2> DEFINE r == [kind |-> "insert", email |-> request[q].email,
                   row |-> Row("local", "participant", "chosen")]
  <2>1. /\ Goes(q, Idle) \/ Goes(q, r)
        /\ request[q].kind = "register" /\ hits' = Counted("registration") /\ now' = now
    BY <1>4 DEF RegisterRead, Is, Ends
  <2>2. Awaited("registration") = "register" /\ "registration" \in Scopes
    BY DEF Awaited, Scopes
  <2>3. r.kind \notin {"login", "register", "mail"}
    OBVIOUS
  <2> HIDE DEF r
  <2>4. /\ request'[q].kind \notin {"login", "register", "mail"}
        /\ \A x \in Requests : x # q => request'[x] = request[x]
    BY <1>t, <1>i, <2>1, <2>3, OneMoves
  <2> QED BY <1>t, <2>1, <2>2, <2>4, CountedOff
<1>5. ASSUME NEW q \in Requests, LoginFails(q) PROVE ThrottleInv'
  <2>1. /\ Goes(q, Idle)
        /\ request[q].kind = "login" /\ hits' = Counted("login") /\ now' = now
    BY <1>5 DEF LoginFails, Is, Ends
  <2>2. Awaited("login") = "login" /\ "login" \in Scopes
    BY DEF Awaited, Scopes
  <2>3. /\ request'[q].kind \notin {"login", "register", "mail"}
        /\ \A x \in Requests : x # q => request'[x] = request[x]
    BY <1>t, <1>i, <2>1, OneMoves
  <2> QED BY <1>t, <2>1, <2>2, <2>3, CountedOff
<1>6. ASSUME NEW q \in Requests, MailReset(q) PROVE ThrottleInv'
  <2>1. /\ Goes(q, Idle)
        /\ request[q].kind = "mail" /\ hits' = Counted("password_reset") /\ now' = now
    BY <1>6 DEF MailReset, Is, Ends
  <2>2. Awaited("password_reset") = "mail" /\ "password_reset" \in Scopes
    BY DEF Awaited, Scopes
  <2>3. /\ request'[q].kind \notin {"login", "register", "mail"}
        /\ \A x \in Requests : x # q => request'[x] = request[x]
    BY <1>t, <1>i, <2>1, OneMoves
  <2> QED BY <1>t, <2>1, <2>2, <2>3, CountedOff
<1>7. ASSUME NEW q \in Requests, LoginOpens(q) PROVE ThrottleInv'
  <2>1. Goes(q, Idle) /\ hits' = Forgiven("login") /\ now' = now
    BY <1>7 DEF LoginOpens, Ends
  <2>2. /\ hits' \in [Scopes -> [Times -> Nat]]
        /\ \A scope \in Scopes, t \in Times : hits'[scope][t] <= hits[scope][t]
    <3>1. hits' = [hits EXCEPT !["login"] = NoHits]
      BY <2>1 DEF Forgiven
    <3>2. hits' \in [Scopes -> [Times -> Nat]]
      BY <1>t, <1>v, <3>1
    <3>3. ASSUME NEW scope \in Scopes, NEW t \in Times PROVE hits'[scope][t] <= hits[scope][t]
      <4>1. hits'[scope] = hits[scope] \/ hits'[scope] = NoHits
        BY <1>t, <3>1
      <4>2. hits'[scope][t] = hits[scope][t] \/ hits'[scope][t] = 0
        BY <1>v, <4>1
      <4> QED BY <1>u, <4>2
    <3> QED BY <3>2, <3>3
  <2> QED BY <1>t, <1>i, <2>1, <2>2, OneMoves, Uncounted
<1>8. CASE SweepHits
  <2>1. hits' = Swept /\ UNCHANGED <<now, request>>
    BY <1>8 DEF SweepHits
  <2>2. /\ hits' \in [Scopes -> [Times -> Nat]]
        /\ \A scope \in Scopes, t \in Times : hits'[scope][t] <= hits[scope][t]
    BY <1>t, <1>u, <2>1 DEF Swept
  <2> QED BY <1>t, <2>1, <2>2, Uncounted
<1>9. CASE LoseHits
  <2>1. hits' = [scope \in Scopes |-> NoHits] /\ UNCHANGED <<now, request>>
    BY <1>9 DEF LoseHits
  <2>2. /\ hits' \in [Scopes -> [Times -> Nat]]
        /\ \A scope \in Scopes, t \in Times : hits'[scope][t] <= hits[scope][t]
    BY <1>t, <1>u, <1>v, <2>1
  <2> QED BY <1>t, <2>1, <2>2, Uncounted
<1>10. CASE Tick
  <2>1. now' = now + 1 /\ UNCHANGED <<hits, request>>
    BY <1>10 DEF Tick
  <2> QED BY <1>t, <1>u, <2>1, Uncounted
<1>11. CASE UNCHANGED vars
  BY <1>k, <1>11 DEF vars
<1>12. ASSUME NEW l \in Links, Expire(l) PROVE ThrottleInv'
  BY <1>k, <1>12 DEF Expire
<1>13. ASSUME NEW l \in Links, NEW e \in Emails, Invite(l, e) PROVE ThrottleInv'
  BY <1>k, <1>13 DEF Invite
<1>14. ASSUME NEW e \in Emails, NEW role \in Roles, NEW reset \in BOOLEAN, Promote(e, role, reset)
       PROVE  ThrottleInv'
  BY <1>k, <1>14 DEF Promote
<1>15. ASSUME NEW q \in Requests, NEW e \in Emails, NEW role \in Roles, OidcReturns(q, e, role)
       PROVE  ThrottleInv'
  BY <1>k, <1>15 DEF OidcReturns
\* The rest begin, advance or end a request of another kind.
<1>m. ASSUME NEW q \in Requests, NEW r, r.kind \notin {"login", "register", "mail"},
             Begin(q, r) \/ Goes(q, r), UNCHANGED <<now, hits>>
      PROVE  ThrottleInv'
  BY <1>t, <1>k, <1>m, OneMoves
<1>n. ASSUME NEW q \in Requests, Goes(q, Idle), UNCHANGED <<now, hits>> PROVE ThrottleInv'
  BY <1>i, <1>m, <1>n
<1>16. ASSUME NEW q \in Requests,
              Insert(q) \/ AcceptCommit(q) \/ ChangeCommit(q) \/ RequestDies(q)
       PROVE  ThrottleInv'
  BY <1>n, <1>16 DEF Insert, AcceptCommit, ChangeCommit, RequestDies, Ends
<1>17. ASSUME NEW q \in Requests, NEW l \in Links, AcceptRead(q, l) \/ ResetRead(q, l)
       PROVE  ThrottleInv'
  <2>1. PICK kind \in {"accept", "burn"} : Begin(q, [kind |-> kind, link |-> l])
    BY <1>17 DEF AcceptRead, ResetRead
  <2>2. UNCHANGED <<now, hits>>
    BY <1>17 DEF AcceptRead, ResetRead
  <2>3. [kind |-> kind, link |-> l].kind \notin {"login", "register", "mail"}
    OBVIOUS
  <2> QED BY <1>m, <2>1, <2>2, <2>3
<1>18. ASSUME NEW q \in Requests, LoginVerified(q) PROVE ThrottleInv'
  <2> DEFINE r == [kind |-> "verified", email |-> request[q].email]
  <2>1. Goes(q, r) /\ UNCHANGED <<now, hits>>
    BY <1>18 DEF LoginVerified
  <2>2. r.kind \notin {"login", "register", "mail"}
    OBVIOUS
  <2> HIDE DEF r
  <2> QED BY <1>m, <2>1, <2>2
<1>19. ASSUME NEW q \in Requests, NEW e \in Emails, NEW role \in Roles,
              CreateRead(q, e, role) \/ ProvisionRead(q, e, role)
       PROVE  ThrottleInv'
  <2>1. PICK row : Begin(q, [kind |-> "insert", email |-> e, row |-> row])
    BY <1>19 DEF CreateRead, ProvisionRead
  <2>2. UNCHANGED <<now, hits>>
    BY <1>19 DEF CreateRead, ProvisionRead
  <2> DEFINE r == [kind |-> "insert", email |-> e, row |-> row]
  <2>3. r.kind \notin {"login", "register", "mail"}
    OBVIOUS
  <2>4. Begin(q, r)
    BY <2>1
  <2> HIDE DEF r
  <2> QED BY <1>m, <2>2, <2>3, <2>4
<1>20. ASSUME NEW q \in Requests, NEW e \in Emails,
              ChangeRead(q, e) \/ \E flag \in BOOLEAN : AdminResetRead(q, e, flag)
       PROVE  ThrottleInv'
  <2>1. PICK by, flag : Begin(q, Change(e, by, flag))
    BY <1>20 DEF ChangeRead, AdminResetRead
  <2>2. UNCHANGED <<now, hits>>
    BY <1>20 DEF ChangeRead, AdminResetRead
  <2>3. Change(e, by, flag).kind \notin {"login", "register", "mail"}
    BY DEF Change
  <2> QED BY <1>m, <2>1, <2>2, <2>3
<1>21. ASSUME NEW q \in Requests, ResetBurn(q) PROVE ThrottleInv'
  <2> DEFINE e == token[request[q].link].email
  <2>1. Goes(q, Change(e, "link", FALSE)) /\ UNCHANGED <<now, hits>>
    BY <1>21 DEF ResetBurn
  <2>2. Change(e, "link", FALSE).kind \notin {"login", "register", "mail"}
    BY DEF Change
  <2> HIDE DEF e
  <2> QED BY <1>m, <2>1, <2>2
<1> QED
  BY <1>1, <1>2, <1>3, <1>4, <1>5, <1>6, <1>7, <1>8, <1>9, <1>10, <1>11, <1>12, <1>13, <1>14,
     <1>15, <1>16, <1>17, <1>18, <1>19, <1>20, <1>21 DEF Next, Answer, OidcCallback

\* Nothing has been attempted at the start.
LEMMA ThrottleStart == Init => ThrottleInv
<1> SUFFICES ASSUME Init PROVE ThrottleInv
  OBVIOUS
<1>1. hits = [scope \in Scopes |-> [t \in Times |-> 0]] /\ request = [q \in Requests |-> Idle]
  BY DEF Init, NoHits
<1>2. ASSUME NEW scope \in Scopes PROVE Allowance(scope)
  <2>1. Attempts(scope) = {}
    <3>1. \A t \in Times : {t} \X (1..hits[scope][t]) = {}
      BY <1>1
    <3> QED BY <3>1 DEF Attempts
  <2>2. InWindow(scope) = {}
    BY <2>1 DEF InWindow
  <2>3. Between(scope) = {}
    BY <1>1 DEF Between, Awaited, Idle, Scopes
  <2>4. Cardinality(Requests) \in Nat
    BY RequestsAssumption, FS_CardinalityType
  <2> QED BY <2>1, <2>2, <2>3, <2>4, FS_EmptySet, ThrottleAssumption DEF Allowance, Recent
<1> QED BY <1>1, <1>2 DEF ThrottleInv

\* A window never holds more attempts than the threshold and the requests that
\* were between the check and the count, on whatever replica.
THEOREM ThrottlesHold == Spec => []ThrottleHolds
<1>1. Spec => []ThrottleInv
  BY Inductive, ThrottleStart, ThrottleStep, PTL DEF Spec
<1>2. ThrottleInv => ThrottleHolds
  <2> SUFFICES ASSUME ThrottleInv, NEW scope \in Scopes
               PROVE  Recent(scope) < MaxAttempts + Cardinality(Requests)
    BY DEF ThrottleHolds
  <2>1. /\ IsFiniteSet(Attempts(scope))
        /\ Recent(scope) + Cardinality(Between(scope)) < MaxAttempts + Cardinality(Requests)
    BY DEF ThrottleInv, Allowance
  <2> QED BY <2>1, Sizes, ThrottleAssumption
<1> QED BY <1>1, <1>2, PTL
=============================================================================
