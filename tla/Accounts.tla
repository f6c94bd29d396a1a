------------------------------ MODULE Accounts ------------------------------
(***************************************************************************)
(* Users and the tenants they register (auth/, users/, and what            *)
(* tenants.service.ts does to create and to erase a tenant).               *)
(*                                                                         *)
(* A registration checks the e-mail, checks the phone, creates the tenant, *)
(* creates its user, links them, writes a first configuration and tries to *)
(* activate the tenant: seven awaits and no transaction.  A tenant's id is *)
(* made of its phone, so that both are a Phone here.  The unique indexes   *)
(* on phones and e-mails refuse a second document.                         *)
(*                                                                         *)
(* Left out: passwords and the tokens of a session (login and refresh      *)
(* write nothing), roles, the plan, and what the activation does, which    *)
(* module Tenants has; and, of an erased tenant, all but its configuration *)
(* and its users.                                                          *)
(***************************************************************************)
EXTENDS Requests

CONSTANTS
  User,       \* ids of users, each used once            (bounds the history)
  Email,
  Phone,      \* phones, and the ids of their tenants
  Token       \* tokens to reset a password, each used once (bounds the history)

VARIABLES
  user,       \* None or a UserDoc, by id
  business,   \* None or a Business, by phone
  configured, \* tenants that have a configuration
  token,      \* None or a Reset, by id
  drawn,      \* tokens that were given out
  job,        \* None or a Job, by request
  founders,   \* history: users made by a registration and not reassigned
  stranded,   \* history: tenants whose registration ended before its link
  unsettled   \* history: tenants erased while they were being registered, or
              \* whose erasure failed on the way

accountsVars == <<use, user, business, configured, token, drawn, job, founders,
                  stranded, unsettled>>

UserDoc == [email : Email, tenant : Phone \cup {None}, active : BOOLEAN]

Business == [owner : User \cup {None}]

Reset == [email : Email, used : BOOLEAN]

JobOp == {"register", "addTenant", "addUser", "editUser", "erase", "forgot", "reset"}

Place == {"phone", "tenant", "user", "owner", "config", "activate", "edit",
          "configs", "users", "gone", "clear", "draw", "change", "mark"}

Job == [op : JobOp, at : Place, email : Email \cup {None},
        phone : Phone \cup {None}, user : User \cup {None},
        token : Token \cup {None}]

ASSUME AccountsAssumption ==
  /\ IsFiniteSet(Token)
  /\ None \notin User \cup Email \cup Phone \cup Token
  /\ None \notin UserDoc \cup Business \cup Reset \cup Job

AccountsInit ==
  /\ use \in Uses
  /\ user = [u \in User |-> None]
  /\ business = [p \in Phone |-> None]
  /\ configured = {}
  /\ token = [t \in Token |-> None]
  /\ drawn = {}
  /\ job = Idle
  /\ founders = {} /\ stranded = {} /\ unsettled = {}

-----------------------------------------------------------------------------
(***************************************************************************)
(* Faulty variants, to show that the properties notice a slip.             *)
(***************************************************************************)
OwnerForgotten(p, u) == business

UsersKept(p) == user

TokensKept(e) == token

-----------------------------------------------------------------------------
(***************************************************************************)
(* Jobs.                                                                   *)
(***************************************************************************)
Doing(r, op, at) == job[r] # None /\ job[r].op = op /\ job[r].at = at

Start(r, op, at, e, p, u, t) ==
  /\ op \in use
  /\ job[r] = None
  /\ job' = [job EXCEPT ![r] = [op |-> op, at |-> at, email |-> e, phone |-> p,
                                user |-> u, token |-> t]]

Step(r, at) == job' = [job EXCEPT ![r].at = at]

End(r) == job' = [job EXCEPT ![r] = None]

documents == <<user, business, configured, token, drawn>>
causes == <<founders, stranded, unsettled>>

Taken(e) == \E u \in User : user[u] # None /\ user[u].email = e

\* A registration has created the tenant of a phone and not linked its owner.
Linking(p) ==
  \E r \in Req : /\ job[r] # None /\ job[r].op = "register"
                 /\ job[r].at \in {"user", "owner"} /\ job[r].phone = p

\* A registration of a phone, or its erasure, is on its way.
Registering(p) ==
  \E r \in Req : /\ job[r] # None /\ job[r].op = "register"
                 /\ job[r].at \in {"user", "owner", "config", "activate"}
                 /\ job[r].phone = p

Erasing(p) ==
  \E r \in Req : job[r] # None /\ job[r].op = "erase" /\ job[r].phone = p

-----------------------------------------------------------------------------
(***************************************************************************)
(* auth.service.ts register, and tenants.service.ts create.                *)
(***************************************************************************)

\* An e-mail that is taken ends the registration with nothing done.
Register(r, e, p) ==
  /\ ~Taken(e)
  /\ Start(r, "register", "phone", e, p, None, None)
  /\ UNCHANGED <<documents, causes>>

\* The panel's own creation of a tenant names the user of the session.
AddTenant(r, u, p) ==
  /\ user[u] # None
  /\ Start(r, "addTenant", "phone", None, p, u, None)
  /\ UNCHANGED <<documents, causes>>

CheckPhone(r) ==
  /\ job[r] # None /\ job[r].at = "phone"
  /\ IF business[job[r].phone] # None THEN End(r) ELSE Step(r, "tenant")
  /\ UNCHANGED <<documents, causes>>

CreateTenant(r) ==
  LET p == job[r].phone IN
  /\ job[r] # None /\ job[r].at = "tenant"
  /\ IF business[p] # None
       THEN End(r) /\ UNCHANGED <<business, causes>>
       ELSE /\ business' = [business EXCEPT ![p] = [owner |-> job[r].user]]
            /\ IF job[r].op = "register" THEN Step(r, "user") ELSE End(r)
            /\ stranded' = stranded \ {p}
            /\ unsettled' = IF Erasing(p) THEN unsettled \cup {p} ELSE unsettled
            /\ UNCHANGED founders
  /\ UNCHANGED <<user, configured, token, drawn>>

\* The user of a registration, or one that an admin adds.
CreateUser(r) ==
  LET j == job[r] IN
  /\ j # None /\ j.at = "user"
  /\ IF Taken(j.email)
       THEN /\ End(r)
            /\ stranded' = IF j.op = "register" THEN stranded \cup {j.phone}
                           ELSE stranded
            /\ UNCHANGED <<user, founders>>
       ELSE \E u \in User :
              /\ user[u] = None
              /\ user' = [user EXCEPT ![u] =
                            [email |-> j.email, tenant |-> j.phone, active |-> TRUE]]
              /\ IF j.op = "register"
                   THEN /\ job' = [job EXCEPT ![r].user = u, ![r].at = "owner"]
                        /\ founders' = founders \cup {u}
                   ELSE End(r) /\ UNCHANGED founders
              /\ UNCHANGED stranded
  /\ UNCHANGED <<business, configured, token, drawn, unsettled>>

\* The tenants with their owner, where the tenant is still there.
WithOwner(p, u) ==
  IF business[p] = None THEN business ELSE [business EXCEPT ![p].owner = u]

SetOwner(r) ==
  /\ Doing(r, "register", "owner")
  /\ business' = WithOwner(job[r].phone, job[r].user)
  /\ Step(r, "config")
  /\ UNCHANGED <<user, configured, token, drawn, causes>>

\* Its error is logged, and the registration goes on.
WriteConfig(r) ==
  /\ Doing(r, "register", "config")
  /\ configured' \in {configured, configured \cup {job[r].phone}}
  /\ Step(r, "activate")
  /\ UNCHANGED <<user, business, token, drawn, causes>>

\* activate refuses a tenant without WhatsApp, and the error is logged.
TryActivate(r) ==
  /\ Doing(r, "register", "activate")
  /\ End(r)
  /\ UNCHANGED <<documents, causes>>

-----------------------------------------------------------------------------
(***************************************************************************)
(* users.service.ts.                                                       *)
(***************************************************************************)
AddUser(r, e, p) ==
  /\ ~Taken(e)
  /\ Start(r, "addUser", "user", e, p, None, None)
  /\ UNCHANGED <<documents, causes>>

\* An update that checks no other user has its e-mail.
EditUser(r, u, e, p) ==
  /\ user[u] # None
  /\ \A v \in User \ {u} : user[v] # None => user[v].email # e
  /\ Start(r, "editUser", "edit", e, p, u, None)
  /\ UNCHANGED <<documents, causes>>

SaveUser(r) ==
  LET j == job[r] IN
  /\ Doing(r, "editUser", "edit")
  /\ IF \E v \in User \ {j.user} : user[v] # None /\ user[v].email = j.email
       THEN UNCHANGED <<user, founders>>
       ELSE /\ user' = [user EXCEPT ![j.user].email = j.email,
                                    ![j.user].tenant = j.phone]
            /\ founders' = founders \ {j.user}
  /\ End(r)
  /\ UNCHANGED <<business, configured, token, drawn, stranded, unsettled>>

\* deactivate, and activate.
SetActive(u, yes) ==
  /\ "setActive" \in use
  /\ user[u] # None
  /\ user' = [user EXCEPT ![u].active = yes]
  /\ UNCHANGED <<business, configured, token, drawn, job, causes>>

-----------------------------------------------------------------------------
(***************************************************************************)
(* tenants.service.ts hardDelete.                                          *)
(***************************************************************************)
HardDelete(r, p) ==
  /\ business[p] # None
  /\ Start(r, "erase", "configs", None, p, None, None)
  /\ unsettled' = IF Registering(p) THEN unsettled \cup {p} ELSE unsettled
  /\ UNCHANGED <<documents, founders, stranded>>

EraseConfig(r) ==
  /\ Doing(r, "erase", "configs")
  /\ configured' \in {configured, configured \ {job[r].phone}}
  /\ Step(r, "users")
  /\ UNCHANGED <<user, business, token, drawn, causes>>

\* The users of a tenant lose it.
Released(p) ==
  [u \in User |-> IF user[u] # None /\ user[u].tenant = p
                    THEN [user[u] EXCEPT !.tenant = None] ELSE user[u]]

\* Its error, too, is only logged.
EraseUsers(r) ==
  /\ Doing(r, "erase", "users")
  /\ \/ user' = Released(job[r].phone) /\ UNCHANGED unsettled
     \/ unsettled' = unsettled \cup {job[r].phone} /\ UNCHANGED user
  /\ Step(r, "gone")
  /\ UNCHANGED <<business, configured, token, drawn, founders, stranded>>

EraseTenant(r) ==
  /\ Doing(r, "erase", "gone")
  /\ business' = [business EXCEPT ![job[r].phone] = None]
  /\ stranded' = stranded \ {job[r].phone}
  /\ End(r)
  /\ UNCHANGED <<user, configured, token, drawn, founders, unsettled>>

-----------------------------------------------------------------------------
(***************************************************************************)
(* auth.service.ts forgotPassword and resetPassword.                       *)
(***************************************************************************)
ForgotPassword(r, u) ==
  /\ user[u] # None /\ user[u].active
  /\ Start(r, "forgot", "clear", user[u].email, None, None, None)
  /\ UNCHANGED <<documents, causes>>

\* The tokens after those of an e-mail are deleted.
Cleared(e) ==
  [t \in Token |-> IF token[t] # None /\ token[t].email = e THEN None ELSE token[t]]

ClearTokens(r) ==
  /\ Doing(r, "forgot", "clear")
  /\ token' = Cleared(job[r].email)
  /\ Step(r, "draw")
  /\ UNCHANGED <<user, business, configured, drawn, causes>>

DrawToken(r) ==
  /\ Doing(r, "forgot", "draw")
  /\ \E t \in Token \ drawn :
       /\ token' = [token EXCEPT ![t] = [email |-> job[r].email, used |-> FALSE]]
       /\ drawn' = drawn \cup {t}
  /\ End(r)
  /\ UNCHANGED <<user, business, configured, causes>>

\* An hour later, the database's index removes the token.
ExpireToken(t) ==
  /\ token[t] # None
  /\ token' = [token EXCEPT ![t] = None]
  /\ UNCHANGED <<user, business, configured, drawn, job, causes>>

ResetPassword(r, t) ==
  /\ token[t] # None /\ ~token[t].used
  /\ Start(r, "reset", "change", token[t].email, None, None, t)
  /\ UNCHANGED <<documents, causes>>

\* The password of the e-mail's user, if there still is one.
SetPassword(r) ==
  /\ Doing(r, "reset", "change")
  /\ IF Taken(job[r].email) THEN Step(r, "mark") ELSE End(r)
  /\ UNCHANGED <<documents, causes>>

MarkTokenUsed(r) ==
  LET t == job[r].token IN
  /\ Doing(r, "reset", "mark")
  /\ token' = IF token[t] = None THEN token ELSE [token EXCEPT ![t].used = TRUE]
  /\ End(r)
  /\ UNCHANGED <<user, business, configured, drawn, causes>>

-----------------------------------------------------------------------------
\* A job dies: an error of the database, or a restart.
FailJob(r) ==
  LET j == job[r] IN
  /\ j # None
  /\ stranded' = IF j.op = "register" /\ j.at \in {"user", "owner"}
                   THEN stranded \cup {j.phone} ELSE stranded
  /\ unsettled' = IF j.op = "erase" THEN unsettled \cup {j.phone} ELSE unsettled
  /\ End(r)
  /\ UNCHANGED <<documents, founders>>

AccountsStep(r) ==
  \/ \E e \in Email, p \in Phone : Register(r, e, p)
  \/ \E e \in Email, p \in Phone \cup {None} :
       AddUser(r, e, p) \/ \E u \in User : EditUser(r, u, e, p)
  \/ \E u \in User : ForgotPassword(r, u) \/ \E p \in Phone : AddTenant(r, u, p)
  \/ \E p \in Phone : HardDelete(r, p)
  \/ \E t \in Token : ResetPassword(r, t)
  \/ CheckPhone(r) \/ CreateTenant(r) \/ CreateUser(r) \/ SetOwner(r)
  \/ WriteConfig(r) \/ TryActivate(r) \/ SaveUser(r)
  \/ EraseConfig(r) \/ EraseUsers(r) \/ EraseTenant(r)
  \/ ClearTokens(r) \/ DrawToken(r) \/ SetPassword(r) \/ MarkTokenUsed(r)
  \/ FailJob(r)

AccountsNext ==
  /\ \/ \E r \in Req : AccountsStep(r)
     \/ \E u \in User, yes \in BOOLEAN : SetActive(u, yes)
     \/ \E t \in Token : ExpireToken(t)
  /\ UNCHANGED use

AccountsSpec == AccountsInit /\ [][AccountsNext]_accountsVars

-----------------------------------------------------------------------------
(***************************************************************************)
(* Properties.                                                             *)
(***************************************************************************)

\* Every variable has its type, and no two users have one e-mail.
AccountsTypeOK ==
  /\ use \in Uses
  /\ user \in [User -> UserDoc \cup {None}]
  /\ business \in [Phone -> Business \cup {None}]
  /\ configured \subseteq Phone
  /\ token \in [Token -> Reset \cup {None}]
  /\ drawn \subseteq Token
  /\ job \in [Req -> Job \cup {None}]
  /\ founders \subseteq {u \in User : user[u] # None}
  /\ stranded \subseteq Phone /\ unsettled \subseteq Phone
  /\ \A u, v \in User :
       (user[u] # None /\ user[v] # None /\ user[u].email = user[v].email) => u = v

\* A tenant has no owner only while its registration is on its way, or after
\* that was cut short between the tenant and the link: by an error, a restart,
\* or another user of the e-mail.  (Its phone cannot be registered again.)
OrphanHasCause ==
  \A p \in Phone \ stranded :
    (business[p] # None /\ business[p].owner = None) => Linking(p)

\* A user who registered has the tenant that he owns, or none after it was
\* erased; the tenant of a phone that is registered again is not his.  Only an
\* erasure that overlaps the registration or fails on the way breaks this, as
\* the new tenant gets the id of the old one.
FounderIsOwner ==
  \A u \in founders :
    LET p == user[u].tenant
    IN \/ p \in stranded \cup unsettled \cup {None}
       \/ business[p] # None /\ (business[p].owner = u \/ Linking(p))

\* The tokens of an e-mail that can still be used.
Live(e) == {t \in Token : token[t] # None /\ token[t].email = e /\ ~token[t].used}

\* forgotPassword deletes the tokens of an e-mail before it creates one: no
\* more of them work than requests were on their way at once; one, if they
\* come one at a time.
TokensBounded == \A e \in Email : Cardinality(Live(e)) <= Cardinality(Req)
=============================================================================
