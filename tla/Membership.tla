----------------------------- MODULE Membership ------------------------------
(***************************************************************************)
(* Who belongs to a workspace and in which role: the provisioning that     *)
(* every request runs (_build_ctx), invites and their redemption, the      *)
(* admin endpoints, SSO logins (OIDC, LDAP) and SCIM.                      *)
(*                                                                         *)
(* One tenant.  A person signs in with a Clerk token or with the token of  *)
(* an SSO login, whose subject is the email; a Clerk token need not carry  *)
(* the email.  Several requests run at once: each reads, and writes later. *)
(* seen, invite, redeemer and deposed are history.                         *)
(***************************************************************************)
EXTENDS Naturals, Sequences, FiniteSets

CONSTANTS
  Person,
  Call,         \* concurrent requests
  HasEmail,     \* the persons whose first Clerk token carries their email
  Domain, DomainOf,
  UniqueUsers,  \* users has a unique external_id
  MaxRows, MaxInvites, MaxTurns   \* bounds

ASSUME MembershipAssumption ==
  /\ HasEmail \subseteq Person
  /\ DomainOf \in [Person -> Domain]
  /\ UniqueUsers \in BOOLEAN
  /\ {MaxRows, MaxInvites, MaxTurns} \subseteq Nat

VARIABLES
  users,     \* users, oldest first; a deleted row is marked gone
  invites,   \* pending_invites, oldest first
  allowed,   \* tenants.allowed_email_domains, empty for any
  inflight,  \* what each request has read and will write
  sessions,  \* the persons who hold a token of an SSO login
  deposed,   \* history: how the last admin was lost
  turns      \* how many of the steps that MaxTurns bounds

membershipVars == <<users, invites, allowed, inflight, sessions, deposed, turns>>

Login == [person : Person, via : {"clerk", "sso"}]   \* the external_id
Role == {"viewer", "member", "admin"}
Unknown == "unknown"                                 \* ...@unknown.local

User == [ext : Login, email : Person \cup {Unknown}, role : Role,
        seen : Nat, invite : Nat, gone : BOOLEAN]
Invite == [for : Person, role : Role, redeemer : SUBSET Login,
           state : {"pending", "accepted", "expired", "revoked"}]

Idle == [pc |-> "idle"]
Ongoing == {Idle}
  \cup [pc : {"insert"}, login : Login, role : Role, seen : Nat, invite : Nat,
        redeeming : BOOLEAN]
  \cup [pc : {"redeem"}, login : Login, invite : Nat]
  \cup [pc : {"admin"}, login : Login]
  \cup [pc : {"sso"}, login : Login, role : Role, row : Nat, seen : Nat]

(* Types; an invite that a request redeems, and a row that a login found,   *)
(* are there.                                                               *)
MembershipTypeOK ==
  /\ users \in Seq(User)
  /\ invites \in Seq(Invite)
  /\ allowed \subseteq Domain
  /\ inflight \in [Call -> Ongoing]
  /\ sessions \subseteq Person
  /\ deposed \subseteq {"stale", "fresh", "redeem", "sso", "scim"}
  /\ turns \in Nat
  /\ \A r \in Call :
       LET q == inflight[r] IN
       /\ q.pc = "redeem" => q.invite \in DOMAIN invites
       /\ q.pc = "insert" /\ q.redeeming => q.invite \in DOMAIN invites
       /\ q.pc = "sso" => q.row \in {0} \cup DOMAIN users

MembershipInit ==
  /\ users = <<>>
  /\ invites = <<>>
  /\ allowed = {}
  /\ inflight = [r \in Call |-> Idle]
  /\ sessions = {}
  /\ deposed = {}
  /\ turns = 0

-----------------------------------------------------------------------------
Live == {i \in DOMAIN users : ~users[i].gone}

RowsOf(login) == {i \in Live : users[i].ext = login}

RowsByEmail(p) == {i \in Live : users[i].email = p}

Admins == {i \in Live : users[i].role = "admin"}

EmailOf(login) ==
  IF login.via = "sso" \/ login.person \in HasEmail THEN login.person ELSE Unknown

DomainOk(email) ==
  allowed = {} \/ (email # Unknown /\ DomainOf[email] \in allowed)

Waiting(i) == invites[i].state = "pending"

InvitesFor(email) == {i \in DOMAIN invites : Waiting(i) /\ invites[i].for = email}

SetRoleOf(i, role) == [users EXCEPT ![i].role = role]

(* Remembers the kind of step that leaves the workspace without an admin.   *)
Depose(how) ==
  deposed' = IF Live' # {} /\ Admins' = {} THEN deposed \cup {how} ELSE deposed

Proceed(r, request) == inflight' = [inflight EXCEPT ![r] = request]

Edit == turns < MaxTurns /\ turns' = turns + 1

-----------------------------------------------------------------------------
(* _build_ctx: a request of a member, or of somebody who becomes one        *)

(* The row is found; the email replaces one that was not known when a later *)
(* token carries it.  With two rows the query raises and the request fails. *)
RefreshEmail(login) ==
  \E i \in Live :
    /\ RowsOf(login) = {i}
    /\ users[i].email # login.person
    /\ Edit
    /\ users' = [users EXCEPT ![i].email = login.person]
    /\ UNCHANGED <<invites, allowed, inflight, sessions, deposed>>

(* No row: the first user is the owner, the others need an invite for their *)
(* email; without an admin the newcomer is one.  The row is added later.    *)
Enrol(r, login) ==
  LET email == EmailOf(login)  invitation == InvitesFor(email) IN
  /\ inflight[r].pc = "idle"
  /\ login.via = "sso" => login.person \in sessions
  /\ RowsOf(login) = {}
  /\ DomainOk(email)
  /\ Live # {} => Cardinality(invitation) = 1
  /\ Proceed(r, [pc |-> "insert", login |-> login,
                 role |-> IF Live = {} \/ Admins = {} THEN "admin" ELSE "member",
                 seen |-> Len(users), invite |-> 0, redeeming |-> FALSE])
  /\ UNCHANGED <<users, invites, allowed, sessions, deposed, turns>>

(* The commit fails only where external_id is unique: another request of    *)
(* the same user was faster.                                                *)
CanInsert(login) == UniqueUsers => RowsOf(login) = {}

NewRow(login, role, seen, invite) ==
  Append(users, [ext |-> login, email |-> EmailOf(login), role |-> role,
                 seen |-> seen, invite |-> invite, gone |-> FALSE])

Insert(r) ==
  LET q == inflight[r] IN
  /\ q.pc = "insert"
  /\ Len(users) < MaxRows
  /\ users' = IF CanInsert(q.login) THEN NewRow(q.login, q.role, q.seen, q.invite)
                                    ELSE users
  /\ Proceed(r, IF q.redeeming
                THEN [pc |-> "redeem", login |-> q.login, invite |-> q.invite]
                ELSE Idle)
  /\ Depose(IF q.redeeming THEN "redeem" ELSE "stale")
  /\ UNCHANGED <<invites, allowed, sessions, turns>>

-----------------------------------------------------------------------------
(* require_invite_token and redeem_invite                                   *)

(* Mutant: the holder of the link is not provisioned before the redemption. *)
MutOpenInvite(r, login, i) ==
  /\ inflight[r].pc = "idle"
  /\ login.via = "clerk"
  /\ Waiting(i)
  /\ Cardinality(RowsOf(login)) <= 1
  /\ Proceed(r, [pc |-> "redeem", login |-> login, invite |-> i])
  /\ UNCHANGED <<users, invites, allowed, sessions, deposed, turns>>

(* Mutant: the holder of the link is provisioned without a look for the row.*)
MutOpenAnyway(r, login, i) ==
  /\ inflight[r].pc = "idle"
  /\ login.via = "clerk"
  /\ Waiting(i)
  /\ Proceed(r, [pc |-> "insert", login |-> login, role |-> invites[i].role,
                 seen |-> Len(users), invite |-> i, redeeming |-> TRUE])
  /\ UNCHANGED <<users, invites, allowed, sessions, deposed, turns>>

(* Whoever holds the link; the invite is proof enough.                      *)
OpenInvite(r, login, i) ==
  /\ inflight[r].pc = "idle"
  /\ login.via = "clerk"
  /\ Waiting(i)
  /\ Cardinality(RowsOf(login)) <= 1
  /\ Proceed(r, IF RowsOf(login) = {}
                THEN [pc |-> "insert", login |-> login, role |-> invites[i].role,
                      seen |-> Len(users), invite |-> i, redeeming |-> TRUE]
                ELSE [pc |-> "redeem", login |-> login, invite |-> i])
  /\ UNCHANGED <<users, invites, allowed, sessions, deposed, turns>>

(* The invite is read again, and it is accepted whether or not the user is  *)
(* still there; with two rows of the user the request fails.                *)
Redeem(r) ==
  LET q == inflight[r]  rows == RowsOf(q.login) IN
  /\ q.pc = "redeem"
  /\ IF Waiting(q.invite) /\ Cardinality(rows) <= 1
     THEN /\ users' = [k \in DOMAIN users |->
               IF k \in rows THEN [users[k] EXCEPT !.role = invites[q.invite].role]
                             ELSE users[k]]
          /\ invites' = [invites EXCEPT ![q.invite].state = "accepted",
                                        ![q.invite].redeemer = {q.login}]
     ELSE UNCHANGED <<users, invites>>
  /\ Proceed(r, Idle)
  /\ Depose("redeem")
  /\ UNCHANGED <<allowed, sessions, turns>>

-----------------------------------------------------------------------------
(* The admin endpoints: require_admin, then the handler                     *)

EnterAdmin(r, login) ==
  /\ inflight[r].pc = "idle"
  /\ Edit
  /\ login.via = "sso" => login.person \in sessions
  /\ \E i \in Admins : RowsOf(login) = {i}
  /\ Proceed(r, [pc |-> "admin", login |-> login])
  /\ UNCHANGED <<users, invites, allowed, sessions, deposed>>

(* Mutant: the role may be one's own.                                       *)
MutMaySetRole(actor, i) == TRUE

MaySetRole(actor, i) == users[i].ext # actor

(* update_user_role; the actor may have lost the role since it was read.    *)
SetRole(r) ==
  LET actor == inflight[r].login
      how == IF \E i \in RowsOf(actor) : users[i].role = "admin" THEN "fresh" ELSE "stale"
  IN
  /\ inflight[r].pc = "admin"
  /\ \E i \in Live, role \in Role :
       /\ RowsOf(users[i].ext) = {i}
       /\ MaySetRole(actor, i)
       /\ users' = SetRoleOf(i, role)
  /\ Proceed(r, Idle)
  /\ Depose(how)
  /\ UNCHANGED <<invites, allowed, sessions, turns>>

CreateInvite(r) ==
  /\ inflight[r].pc = "admin"
  /\ Len(invites) < MaxInvites
  /\ \E p \in Person, role \in {"member", "admin"} :
       invites' = Append(invites, [for |-> p, role |-> role, redeemer |-> {},
                                   state |-> "pending"])
  /\ Proceed(r, Idle)
  /\ UNCHANGED <<users, allowed, sessions, deposed, turns>>

RevokeInvite(r) ==
  /\ inflight[r].pc = "admin"
  /\ \E i \in DOMAIN invites :
       Waiting(i) /\ invites' = [invites EXCEPT ![i].state = "revoked"]
  /\ Proceed(r, Idle)
  /\ UNCHANGED <<users, allowed, sessions, deposed, turns>>

(* set_domain_allowlist and clear_domain_allowlist, by an admin's SSO token.*)
SetDomains ==
  /\ Edit
  /\ \E ds \in SUBSET Domain : allowed' = ds
  /\ UNCHANGED <<users, invites, inflight, sessions, deposed>>

ExpireInvite(i) ==
  /\ Waiting(i)
  /\ Edit
  /\ invites' = [invites EXCEPT ![i].state = "expired"]
  /\ UNCHANGED <<users, allowed, inflight, sessions, deposed>>

-----------------------------------------------------------------------------
(* SSO and SCIM                                                             *)

(* The IdP has confirmed p in some role; the domain is asked for again, and *)
(* the user is looked for by email.  (OIDC and LDAP: the look-up of saml_acs*)
(* compares the uuid column with a string, which PostgreSQL refuses.)       *)
SsoLook(r, p) ==
  LET rows == RowsByEmail(p) IN
  /\ inflight[r].pc = "idle"
  /\ Edit
  /\ DomainOk(p)
  /\ Cardinality(rows) <= 1
  /\ \E role \in Role :
       Proceed(r, [pc |-> "sso", login |-> [person |-> p, via |-> "sso"], role |-> role,
                      row |-> IF rows = {} THEN 0 ELSE CHOOSE i \in rows : TRUE,
                      seen |-> Len(users)])
  /\ UNCHANGED <<users, invites, allowed, sessions, deposed>>

SsoCommit(r) ==
  LET q == inflight[r] IN
  /\ q.pc = "sso"
  /\ \/ /\ q.row # 0
        /\ q.row \in Live
        /\ users' = SetRoleOf(q.row, q.role)
     \/ /\ q.row = 0
        /\ Len(users) < MaxRows
        /\ CanInsert(q.login)
        /\ users' = NewRow(q.login, q.role, q.seen, 0)
  /\ sessions' = sessions \cup {q.login.person}
  /\ Proceed(r, Idle)
  /\ Depose("sso")
  /\ UNCHANGED <<invites, allowed, turns>>

(* Nothing was written: the row is gone or exists by now; or any request    *)
(* that dies.                                                               *)
Abort(r) ==
  /\ inflight[r].pc # "idle"
  /\ Proceed(r, Idle)
  /\ UNCHANGED <<users, invites, allowed, sessions, deposed, turns>>

ExpireSession(p) ==
  /\ p \in sessions
  /\ sessions' = sessions \ {p}
  /\ UNCHANGED <<users, invites, allowed, inflight, deposed, turns>>

(* scim_delete_user with deprovision_action delete.  The other value sets a *)
(* column that users does not have, and scim_create_user adds a row without *)
(* an external_id, which the table refuses: neither changes anything.       *)
ScimDelete(i) ==
  /\ Edit
  /\ users' = [users EXCEPT ![i].gone = TRUE]
  /\ Depose("scim")
  /\ UNCHANGED <<invites, allowed, inflight, sessions>>

-----------------------------------------------------------------------------
RequestStep(r) ==
  \/ \E login \in Login :
       \/ Enrol(r, login) \/ EnterAdmin(r, login)
       \/ \E i \in DOMAIN invites : OpenInvite(r, login, i)
  \/ Insert(r) \/ Redeem(r) \/ Abort(r)
  \/ SetRole(r) \/ CreateInvite(r) \/ RevokeInvite(r)
  \/ \E p \in Person : SsoLook(r, p)
  \/ SsoCommit(r)

MembershipNext ==
  \/ \E r \in Call : RequestStep(r)
  \/ \E login \in Login : RefreshEmail(login)
  \/ \E i \in Live : ScimDelete(i)
  \/ \E i \in DOMAIN invites : ExpireInvite(i)
  \/ \E p \in Person : ExpireSession(p)
  \/ SetDomains

MembershipSpec == MembershipInit /\ [][MembershipNext]_membershipVars

-----------------------------------------------------------------------------
(* A user has a second row only if two requests provisioned it at once: the *)
(* later one looked before the earlier one had inserted.                    *)
TwinsOverlap ==
  \A i, j \in DOMAIN users :
    i < j /\ users[i].ext = users[j].ext /\ ~users[i].gone /\ ~users[j].gone
      => users[j].seen < i

(* No admin demotes the last one: "the workspace is never left without an   *)
(* owner", unless an SSO login, a redeemed invite or SCIM takes the role, or *)
(* what a request read is stale: its actor was demoted, the owner went.     *)
OwnerKept ==
  /\ "fresh" \notin deposed
  /\ Live # {} /\ Admins = {} => deposed # {}

(* An invite that was accepted made its redeemer a member: nobody uses up a *)
(* one-time link and stays outside.                                         *)
RedeemedIsMember ==
  \A k \in DOMAIN invites :
    \A login \in invites[k].redeemer : \E i \in DOMAIN users : users[i].ext = login
=============================================================================
