--------------------------- MODULE AccountsProofs ---------------------------
(***************************************************************************)
(* The types of Accounts and the uniqueness of e-mails, that a tenant      *)
(* without an owner was stranded, that a founder owns his tenant, and how  *)
(* many tokens of an e-mail work, for any number of requests in flight.    *)
(***************************************************************************)
EXTENDS Accounts, RequestsProofs

-----------------------------------------------------------------------------
(***************************************************************************)
(* Types.  What a job knows wherever it is.                                *)
(***************************************************************************)
JobSound(j, users) ==
  /\ j.op \in {"register", "addTenant", "erase"} => j.phone \in Phone
  /\ j.at = "user" => j.email \in Email
  /\ j.op \in {"editUser", "forgot", "reset"} => j.email \in Email
  /\ j.op = "editUser" => j.user \in users
  /\ j.op = "addTenant" => j.user \in User
  /\ j.at = "owner" => j.user \in User
  /\ j.at \in {"phone", "tenant"} => j.op \in {"register", "addTenant"}
  /\ j.op = "register" => j.email \in Email

Users == {u \in User : user[u] # None}

JobsSound == \A r \in Req : job[r] # None => JobSound(job[r], Users)

AccountsInv == AccountsTypeOK /\ JobsSound

LEMMA AccountsInitInv == AccountsInit => AccountsInv
  BY DEF AccountsInit, AccountsInv, AccountsTypeOK, JobsSound, Idle

LEMMA JobOf ==
  ASSUME AccountsInv, NEW r \in Req, job[r] # None
  PROVE  job[r] \in Job /\ JobSound(job[r], Users)
  BY DEF AccountsInv, AccountsTypeOK, JobsSound

\* The jobs after one of them has changed.  Users stay.
LEMMA JobsWith ==
  ASSUME AccountsInv, NEW r \in Req, NEW j, Users \subseteq Users',
         j = None \/ (j \in Job /\ JobSound(j, Users')),
         job' = [job EXCEPT ![r] = j]
  PROVE  /\ job' \in [Req -> Job \cup {None}]
         /\ JobsSound'
<1>1. \A x \in Req \ {r} : job'[x] = job[x]
  BY DEF AccountsInv, AccountsTypeOK
<1>2. job'[r] = j
  BY DEF AccountsInv, AccountsTypeOK
<1>3. \A x \in Req : job[x] # None => JobSound(job[x], Users')
  BY DEF AccountsInv, JobsSound, JobSound
<1>4. JobsSound'
  BY <1>1, <1>2, <1>3 DEF JobsSound
<1> QED
  BY <1>4 DEF AccountsInv, AccountsTypeOK

LEMMA EndJobs ==
  ASSUME AccountsInv, NEW r \in Req, End(r), Users \subseteq Users'
  PROVE  job' \in [Req -> Job \cup {None}] /\ JobsSound'
  BY JobsWith DEF End

LEMMA StepJobs ==
  ASSUME AccountsInv, NEW r \in Req, job[r] # None, Users \subseteq Users',
         NEW at \in {"tenant", "user", "config", "activate", "users", "gone", "draw", "mark"},
         Step(r, at),
         at = "user" => job[r].op = "register",
         at = "tenant" => job[r].at = "phone"
  PROVE  job' \in [Req -> Job \cup {None}] /\ JobsSound'
<1> DEFINE j == [job[r] EXCEPT !.at = at]
<1>1. job[r] \in Job /\ JobSound(job[r], Users)
  BY JobOf
<1>2. j \in Job
  BY <1>1 DEF Job, Place
<1>3. j.op = job[r].op /\ j.at = at /\ j.phone = job[r].phone /\ j.email = job[r].email
      /\ j.user = job[r].user
  BY <1>1 DEF Job
<1> HIDE DEF j
<1>4. JobSound(j, Users')
  BY <1>1, <1>3 DEF JobSound
<1>5. job' = [job EXCEPT ![r] = j]
  BY DEF Step, j
<1> QED
  BY <1>2, <1>4, <1>5, JobsWith

LEMMA StartJobs ==
  ASSUME AccountsInv, NEW r \in Req, NEW op \in JobOp, NEW at \in Place,
         NEW e \in Email \cup {None}, NEW p \in Phone \cup {None},
         NEW u \in User \cup {None}, NEW t \in Token \cup {None},
         Start(r, op, at, e, p, u, t), user' = user,
         JobSound([op |-> op, at |-> at, email |-> e, phone |-> p, user |-> u, token |-> t],
                  Users)
  PROVE  job' \in [Req -> Job \cup {None}] /\ JobsSound'
<1> DEFINE j == [op |-> op, at |-> at, email |-> e, phone |-> p, user |-> u, token |-> t]
<1>1. j \in Job
  BY DEF Job
<1>2. Users' = Users
  BY DEF Users
<1>3. job' = [job EXCEPT ![r] = j]
  BY DEF Start
<1> QED
  BY <1>1, <1>2, <1>3, JobsWith

LEMMA BeginInv ==
  ASSUME AccountsInv, NEW r \in Req, use' = use,
         \/ \E e \in Email, p \in Phone : Register(r, e, p)
         \/ \E e \in Email, p \in Phone \cup {None} :
              AddUser(r, e, p) \/ \E u \in User : EditUser(r, u, e, p)
         \/ \E u \in User : ForgotPassword(r, u) \/ \E p \in Phone : AddTenant(r, u, p)
         \/ \E p \in Phone : HardDelete(r, p)
         \/ \E t \in Token : ResetPassword(r, t)
  PROVE  AccountsInv'
<1> USE DEF JobOp, Place
<1>1. ASSUME NEW e \in Email, NEW p \in Phone, Register(r, e, p) PROVE AccountsInv'
  <2>1. job' \in [Req -> Job \cup {None}] /\ JobsSound'
    BY <1>1, StartJobs DEF Register, documents, JobSound
  <2> QED
    BY <1>1, <2>1 DEF Register, documents, causes, AccountsInv, AccountsTypeOK
<1>2. ASSUME NEW e \in Email, NEW p \in Phone \cup {None}, AddUser(r, e, p)
      PROVE  AccountsInv'
  <2>1. job' \in [Req -> Job \cup {None}] /\ JobsSound'
    BY <1>2, StartJobs DEF AddUser, documents, JobSound
  <2> QED
    BY <1>2, <2>1 DEF AddUser, documents, causes, AccountsInv, AccountsTypeOK
<1>3. ASSUME NEW e \in Email, NEW p \in Phone \cup {None}, NEW u \in User,
             EditUser(r, u, e, p)
      PROVE  AccountsInv'
  <2>1. job' \in [Req -> Job \cup {None}] /\ JobsSound'
    BY <1>3, StartJobs DEF EditUser, documents, JobSound, Users
  <2> QED
    BY <1>3, <2>1 DEF EditUser, documents, causes, AccountsInv, AccountsTypeOK
<1>4. ASSUME NEW u \in User, ForgotPassword(r, u) PROVE AccountsInv'
  <2>1. user[u].email \in Email
    BY <1>4 DEF ForgotPassword, UserDoc, AccountsInv, AccountsTypeOK
  <2>2. job' \in [Req -> Job \cup {None}] /\ JobsSound'
    BY <1>4, <2>1, StartJobs DEF ForgotPassword, documents, JobSound
  <2> QED
    BY <1>4, <2>2 DEF ForgotPassword, documents, causes, AccountsInv, AccountsTypeOK
<1>5. ASSUME NEW u \in User, NEW p \in Phone, AddTenant(r, u, p) PROVE AccountsInv'
  <2>1. job' \in [Req -> Job \cup {None}] /\ JobsSound'
    BY <1>5, StartJobs DEF AddTenant, documents, JobSound
  <2> QED
    BY <1>5, <2>1 DEF AddTenant, documents, causes, AccountsInv, AccountsTypeOK
<1>6. ASSUME NEW p \in Phone, HardDelete(r, p) PROVE AccountsInv'
  <2>1. job' \in [Req -> Job \cup {None}] /\ JobsSound'
    BY <1>6, StartJobs DEF HardDelete, documents, JobSound
  <2>2. unsettled' \subseteq Phone
    BY <1>6 DEF HardDelete, AccountsInv, AccountsTypeOK
  <2> QED
    BY <1>6, <2>1, <2>2 DEF HardDelete, documents, AccountsInv, AccountsTypeOK
<1>7. ASSUME NEW t \in Token, ResetPassword(r, t) PROVE AccountsInv'
  <2>1. token[t].email \in Email
    BY <1>7 DEF ResetPassword, Reset, AccountsInv, AccountsTypeOK
  <2>2. job' \in [Req -> Job \cup {None}] /\ JobsSound'
    BY <1>7, <2>1, StartJobs DEF ResetPassword, documents, JobSound
  <2> QED
    BY <1>7, <2>2 DEF ResetPassword, documents, causes, AccountsInv, AccountsTypeOK
<1> QED
  BY <1>1, <1>2, <1>3, <1>4, <1>5, <1>6, <1>7

LEMMA RegisterInv ==
  ASSUME AccountsInv, NEW r \in Req, use' = use,
         \/ CheckPhone(r)
         \/ CreateTenant(r)
         \/ SetOwner(r)
         \/ WriteConfig(r)
         \/ TryActivate(r)
         \/ FailJob(r)
  PROVE  AccountsInv'
<1>u. user' = user /\ Users \subseteq Users'
  BY DEF CheckPhone, CreateTenant, SetOwner, WriteConfig, TryActivate, FailJob, documents,
         Users
<1>j. job[r] # None /\ job[r] \in Job /\ JobSound(job[r], Users)
  BY JobOf
     DEF CheckPhone, CreateTenant, SetOwner, WriteConfig, TryActivate, FailJob, Doing
<1>1. CASE CheckPhone(r)
  <2>1. job' \in [Req -> Job \cup {None}] /\ JobsSound'
    BY <1>1, <1>u, EndJobs, StepJobs DEF CheckPhone
  <2> QED
    BY <1>1, <2>1 DEF CheckPhone, documents, causes, AccountsInv, AccountsTypeOK
<1>2. CASE CreateTenant(r)
  <2> DEFINE p == job[r].phone
  <2>1. p \in Phone /\ job[r].user \in User \cup {None}
    BY <1>2, <1>j DEF CreateTenant, JobSound, Job
  <2>2. job' \in [Req -> Job \cup {None}] /\ JobsSound'
    BY <1>2, <1>u, EndJobs, StepJobs DEF CreateTenant
  <2>3. [owner |-> job[r].user] \in Business
    BY <2>1 DEF Business
  <2>4. business' \in [Phone -> Business \cup {None}]
    BY <1>2, <2>3 DEF CreateTenant, AccountsInv, AccountsTypeOK
  <2>5. stranded' \subseteq Phone /\ unsettled' \subseteq Phone /\ founders' = founders
    BY <1>2, <2>1 DEF CreateTenant, causes, AccountsInv, AccountsTypeOK
  <2> QED
    BY <1>2, <2>2, <2>4, <2>5 DEF CreateTenant, AccountsInv, AccountsTypeOK
<1>3. CASE SetOwner(r)
  <2>1. job' \in [Req -> Job \cup {None}] /\ JobsSound'
    BY <1>3, <1>u, <1>j, StepJobs DEF SetOwner
  <2>2. business' \in [Phone -> Business \cup {None}]
    <3>1. job[r].phone \in Phone /\ job[r].user \in User
      BY <1>3, <1>j DEF SetOwner, Doing, JobSound
    <3>2. business[job[r].phone] # None =>
            [business[job[r].phone] EXCEPT !.owner = job[r].user] \in Business
      BY <3>1 DEF Business, AccountsInv, AccountsTypeOK
    <3> QED
      BY <1>3, <3>1, <3>2 DEF SetOwner, WithOwner, AccountsInv, AccountsTypeOK
  <2> QED
    BY <1>3, <2>1, <2>2 DEF SetOwner, causes, AccountsInv, AccountsTypeOK
<1>4. CASE WriteConfig(r)
  <2>1. job' \in [Req -> Job \cup {None}] /\ JobsSound'
    BY <1>4, <1>u, <1>j, StepJobs DEF WriteConfig
  <2>2. configured' \subseteq Phone
    BY <1>4, <1>j DEF WriteConfig, Doing, JobSound, AccountsInv, AccountsTypeOK
  <2> QED
    BY <1>4, <2>1, <2>2 DEF WriteConfig, causes, AccountsInv, AccountsTypeOK
<1>5. CASE TryActivate(r)
  BY <1>5, <1>u, EndJobs DEF TryActivate, documents, causes, AccountsInv, AccountsTypeOK
<1>6. CASE FailJob(r)
  <2>1. stranded' \subseteq Phone /\ unsettled' \subseteq Phone
    BY <1>6, <1>j DEF FailJob, JobSound, AccountsInv, AccountsTypeOK
  <2>2. job' \in [Req -> Job \cup {None}] /\ JobsSound'
    BY <1>6, <1>u, EndJobs DEF FailJob
  <2> QED
    BY <1>6, <2>1, <2>2 DEF FailJob, documents, AccountsInv, AccountsTypeOK
<1> QED
  BY <1>1, <1>2, <1>3, <1>4, <1>5, <1>6

LEMMA UserInv ==
  ASSUME AccountsInv, NEW r \in Req, use' = use, CreateUser(r) \/ SaveUser(r)
  PROVE  AccountsInv'
<1>j. job[r] # None /\ job[r] \in Job /\ JobSound(job[r], Users)
  BY JobOf DEF CreateUser, SaveUser, Doing
<1>t. user \in [User -> UserDoc \cup {None}]
  BY DEF AccountsInv, AccountsTypeOK
<1>1. CASE CreateUser(r) /\ Taken(job[r].email)
  <2>1. End(r) /\ UNCHANGED <<user, founders>>
    BY <1>1 DEF CreateUser
  <2>2. job' \in [Req -> Job \cup {None}] /\ JobsSound'
    BY <2>1, EndJobs DEF Users
  <2>3. stranded' \subseteq Phone
    BY <1>1, <1>j DEF CreateUser, JobSound, AccountsInv, AccountsTypeOK
  <2> QED
    BY <1>1, <2>1, <2>2, <2>3 DEF CreateUser, AccountsInv, AccountsTypeOK
<1>2. CASE CreateUser(r) /\ ~Taken(job[r].email)
  <2> DEFINE doc == [email |-> job[r].email, tenant |-> job[r].phone, active |-> TRUE]
  <2>1. PICK u \in User :
          /\ user[u] = None
          /\ user' = [user EXCEPT ![u] = doc]
          /\ IF job[r].op = "register"
               THEN /\ job' = [job EXCEPT ![r].user = u, ![r].at = "owner"]
                    /\ founders' = founders \cup {u}
               ELSE End(r) /\ UNCHANGED founders
    BY <1>2 DEF CreateUser
  <2>2. job[r].email \in Email /\ job[r].phone \in Phone \cup {None}
    BY <1>2, <1>j DEF CreateUser, JobSound, Job
  <2>3. doc \in UserDoc /\ doc # None
    <3>1. doc \in UserDoc
      BY <2>2 DEF UserDoc
    <3> QED
      BY <3>1, AccountsAssumption
  <2>4. user' \in [User -> UserDoc \cup {None}]
    BY <1>t, <2>1, <2>3
  <2>5. /\ user'[u] # None /\ user'[u].email = job[r].email
        /\ \A v \in User \ {u} : user'[v] = user[v]
    BY <1>t, <2>1, <2>3
  <2>6. Users \subseteq Users'
    BY <2>5 DEF Users
  <2>7. \A v, w \in User :
          (user'[v] # None /\ user'[w] # None /\ user'[v].email = user'[w].email) => v = w
    BY <1>2, <2>5 DEF Taken, AccountsInv, AccountsTypeOK
  <2>8. founders' \subseteq Users'
    BY <2>1, <2>5, <2>6 DEF Users, AccountsInv, AccountsTypeOK
  <2>9. job' \in [Req -> Job \cup {None}] /\ JobsSound'
    <3>1. CASE job[r].op = "register"
      <4> DEFINE j == [job[r] EXCEPT !.user = u, !.at = "owner"]
      <4>1. j \in Job
        BY <1>j DEF Job, Place
      <4>2. j.op = "register" /\ j.phone = job[r].phone /\ j.email = job[r].email
            /\ j.at = "owner" /\ j.user = u
        BY <1>j, <3>1 DEF Job
      <4>3. JobSound(j, Users')
        BY <1>j, <2>1, <3>1, <4>2 DEF JobSound
      <4>4. job' = [job EXCEPT ![r] = j]
        BY <2>1, <3>1
      <4> HIDE DEF j
      <4> QED
        BY <2>6, <4>1, <4>3, <4>4, JobsWith
    <3>2. CASE job[r].op # "register"
      BY <2>1, <2>6, <3>2, EndJobs
    <3> QED
      BY <3>1, <3>2
  <2>10. stranded' = stranded
    BY <1>2 DEF CreateUser
  <2> HIDE DEF doc
  <2> QED
    BY <1>2, <2>4, <2>7, <2>8, <2>9, <2>10 DEF CreateUser, Users, AccountsInv, AccountsTypeOK
<1>3. CASE SaveUser(r)
  <2> DEFINE u == job[r].user
             doc == [user[u] EXCEPT !.email = job[r].email, !.tenant = job[r].phone]
  <2>1. u \in User /\ user[u] # None /\ job[r].email \in Email /\ job[r].phone \in Phone \cup {None}
    BY <1>3, <1>j DEF SaveUser, Doing, JobSound, Users, Job
  <2>2. End(r)
    BY <1>3 DEF SaveUser
  <2>3. CASE UNCHANGED <<user, founders>>
    <3>1. job' \in [Req -> Job \cup {None}] /\ JobsSound'
      BY <2>2, <2>3, EndJobs DEF Users
    <3> QED
      BY <1>3, <2>3, <3>1 DEF SaveUser, AccountsInv, AccountsTypeOK
  <2>4. CASE /\ \A v \in User \ {u} : user[v] # None => user[v].email # job[r].email
             /\ user' = [user EXCEPT ![u].email = job[r].email, ![u].tenant = job[r].phone]
             /\ founders' = founders \ {u}
    <3>1. doc \in UserDoc /\ doc.email = job[r].email
      BY <1>t, <2>1 DEF UserDoc
    <3>2. user' = [user EXCEPT ![u] = doc]
      BY <2>4
    <3> HIDE DEF doc
    <3>3. user' \in [User -> UserDoc \cup {None}]
      BY <1>t, <3>1, <3>2
    <3>4. /\ user'[u] # None /\ user'[u].email = job[r].email
          /\ \A v \in User \ {u} : user'[v] = user[v]
      BY <1>t, <2>1, <3>1, <3>2, AccountsAssumption
    <3>5. Users' = Users
      BY <2>1, <3>4 DEF Users
    <3>6. \A v, w \in User :
            (user'[v] # None /\ user'[w] # None /\ user'[v].email = user'[w].email) => v = w
      BY <2>4, <3>4 DEF AccountsInv, AccountsTypeOK
    <3>7. founders' \subseteq Users'
      BY <2>4, <3>5 DEF Users, AccountsInv, AccountsTypeOK
    <3>8. job' \in [Req -> Job \cup {None}] /\ JobsSound'
      BY <2>2, <3>5, EndJobs
    <3> QED
      BY <1>3, <3>3, <3>6, <3>7, <3>8 DEF SaveUser, Users, AccountsInv, AccountsTypeOK
  <2> QED
    BY <1>3, <2>3, <2>4 DEF SaveUser
<1> QED
  BY <1>1, <1>2, <1>3

\* The users after a change that keeps who there is and their e-mails.
LEMMA UsersSame ==
  ASSUME AccountsInv, user' \in [User -> UserDoc \cup {None}],
         \A u \in User : /\ user'[u] = None <=> user[u] = None
                         /\ user[u] # None => user'[u].email = user[u].email
  PROVE  /\ Users' = Users
         /\ founders \subseteq {u \in User : user'[u] # None}
         /\ \A u, v \in User :
              (user'[u] # None /\ user'[v] # None /\ user'[u].email = user'[v].email) => u = v
  BY DEF Users, AccountsInv, AccountsTypeOK

LEMMA SetActiveInv ==
  ASSUME AccountsInv, use' = use, NEW u \in User, NEW yes \in BOOLEAN, SetActive(u, yes)
  PROVE  AccountsInv'
<1>1. user \in [User -> UserDoc \cup {None}] /\ user[u] # None
  BY DEF SetActive, AccountsInv, AccountsTypeOK
<1> DEFINE doc == [user[u] EXCEPT !.active = yes]
<1>2. doc \in UserDoc /\ doc.email = user[u].email
  BY <1>1 DEF UserDoc
<1>3. user' = [user EXCEPT ![u] = doc]
  BY DEF SetActive
<1> HIDE DEF doc
<1>4. user' \in [User -> UserDoc \cup {None}]
  BY <1>1, <1>2, <1>3
<1>5. \A v \in User : /\ user'[v] = None <=> user[v] = None
                      /\ user[v] # None => user'[v].email = user[v].email
  BY <1>1, <1>2, <1>3, AccountsAssumption
<1>6. Users' = Users
  BY <1>4, <1>5, UsersSame
<1>7. JobsSound'
  BY <1>6 DEF SetActive, JobsSound, AccountsInv
<1> QED
  BY <1>4, <1>5, <1>7, UsersSame DEF SetActive, causes, AccountsInv, AccountsTypeOK

LEMMA EraseInv ==
  ASSUME AccountsInv, NEW r \in Req, use' = use,
         EraseConfig(r) \/ EraseUsers(r) \/ EraseTenant(r)
  PROVE  AccountsInv'
<1>j. job[r] # None /\ job[r] \in Job /\ job[r].phone \in Phone /\ job[r].op = "erase"
  BY JobOf DEF EraseConfig, EraseUsers, EraseTenant, Doing, JobSound
<1>1. CASE EraseConfig(r)
  <2>1. job' \in [Req -> Job \cup {None}] /\ JobsSound'
    BY <1>1, <1>j, StepJobs DEF EraseConfig, Users
  <2>2. configured' \subseteq Phone
    BY <1>1 DEF EraseConfig, AccountsInv, AccountsTypeOK
  <2> QED
    BY <1>1, <2>1, <2>2 DEF EraseConfig, causes, AccountsInv, AccountsTypeOK
<1>2. CASE EraseUsers(r)
  <2>1. user \in [User -> UserDoc \cup {None}]
    BY DEF AccountsInv, AccountsTypeOK
  <2>2. \A u \in User : user[u] # None =>
          /\ [user[u] EXCEPT !.tenant = None] \in UserDoc
          /\ [user[u] EXCEPT !.tenant = None].email = user[u].email
    BY <2>1 DEF UserDoc
  <2>3. user' \in {user, Released(job[r].phone)}
    BY <1>2 DEF EraseUsers
  <2>4. user' \in [User -> UserDoc \cup {None}]
    BY <2>1, <2>2, <2>3 DEF Released
  <2>5. \A v \in User : /\ user'[v] = None <=> user[v] = None
                        /\ user[v] # None => user'[v].email = user[v].email
    <3>1. \A v \in User :
            \/ user'[v] = user[v]
            \/ user[v] # None /\ user'[v] = [user[v] EXCEPT !.tenant = None]
      BY <2>3 DEF Released
    <3> QED
      BY <2>2, <3>1, AccountsAssumption
  <2>6. Users' = Users
    BY <2>4, <2>5, UsersSame
  <2>7. job' \in [Req -> Job \cup {None}] /\ JobsSound'
    BY <1>2, <1>j, <2>6, StepJobs DEF EraseUsers
  <2>8. unsettled' \subseteq Phone
    BY <1>2, <1>j DEF EraseUsers, AccountsInv, AccountsTypeOK
  <2> QED
    BY <1>2, <2>4, <2>5, <2>7, <2>8, UsersSame DEF EraseUsers, AccountsInv, AccountsTypeOK
<1>3. CASE EraseTenant(r)
  <2>1. job' \in [Req -> Job \cup {None}] /\ JobsSound'
    BY <1>3, EndJobs DEF EraseTenant, Users
  <2> QED
    BY <1>3, <2>1 DEF EraseTenant, AccountsInv, AccountsTypeOK
<1> QED
  BY <1>1, <1>2, <1>3

LEMMA TokenTypes ==
  ASSUME AccountsInv
  PROVE  token \in [Token -> Reset \cup {None}] /\ drawn \subseteq Token
  BY DEF AccountsInv, AccountsTypeOK

LEMMA PasswordInv ==
  ASSUME AccountsInv, NEW r \in Req, use' = use,
         ClearTokens(r) \/ DrawToken(r) \/ SetPassword(r) \/ MarkTokenUsed(r)
  PROVE  AccountsInv'
<1>j. job[r] # None /\ job[r] \in Job /\ job[r].email \in Email
  BY JobOf DEF ClearTokens, DrawToken, SetPassword, MarkTokenUsed, Doing, JobSound
<1>u. Users' = Users
  BY DEF ClearTokens, DrawToken, SetPassword, MarkTokenUsed, documents, Users
<1>1. CASE ClearTokens(r)
  <2>1. job' \in [Req -> Job \cup {None}] /\ JobsSound'
    BY <1>1, <1>j, <1>u, StepJobs DEF ClearTokens
  <2>2. token' \in [Token -> Reset \cup {None}]
    BY <1>1, TokenTypes DEF ClearTokens, Cleared
  <2> QED
    BY <1>1, <2>1, <2>2 DEF ClearTokens, causes, AccountsInv, AccountsTypeOK
<1>2. CASE DrawToken(r)
  <2>1. job' \in [Req -> Job \cup {None}] /\ JobsSound'
    BY <1>2, <1>u, EndJobs DEF DrawToken
  <2>2. [email |-> job[r].email, used |-> FALSE] \in Reset
    BY <1>j DEF Reset
  <2>3. token' \in [Token -> Reset \cup {None}] /\ drawn' \subseteq Token
    BY <1>2, <2>2, TokenTypes DEF DrawToken
  <2> QED
    BY <1>2, <2>1, <2>3 DEF DrawToken, causes, AccountsInv, AccountsTypeOK
<1>3. CASE SetPassword(r)
  <2>1. job' \in [Req -> Job \cup {None}] /\ JobsSound'
    BY <1>3, <1>j, <1>u, EndJobs, StepJobs DEF SetPassword
  <2> QED
    BY <1>3, <2>1 DEF SetPassword, documents, causes, AccountsInv, AccountsTypeOK
<1>4. CASE MarkTokenUsed(r)
  <2>1. job' \in [Req -> Job \cup {None}] /\ JobsSound'
    BY <1>4, <1>u, EndJobs DEF MarkTokenUsed
  <2>2. \A t \in Token : token[t] # None => [token[t] EXCEPT !.used = TRUE] \in Reset
    BY TokenTypes DEF Reset
  <2>3. token' \in [Token -> Reset \cup {None}]
    BY <1>4, <2>2, TokenTypes DEF MarkTokenUsed
  <2> QED
    BY <1>4, <2>1, <2>3 DEF MarkTokenUsed, causes, AccountsInv, AccountsTypeOK
<1> QED
  BY <1>1, <1>2, <1>3, <1>4

LEMMA AccountsInvStep == AccountsInv /\ [AccountsNext]_accountsVars => AccountsInv'
<1> SUFFICES ASSUME AccountsInv, [AccountsNext]_accountsVars PROVE AccountsInv'
  OBVIOUS
<1>1. ASSUME NEW t \in Token, ExpireToken(t), use' = use PROVE AccountsInv'
  <2>1. token' \in [Token -> Reset \cup {None}]
    BY <1>1, TokenTypes DEF ExpireToken
  <2> QED
    BY <1>1, <2>1 DEF ExpireToken, causes, AccountsInv, AccountsTypeOK, JobsSound, Users
<1>2. CASE UNCHANGED accountsVars
  BY <1>2 DEF accountsVars, AccountsInv, AccountsTypeOK, JobsSound, Users
<1>3. ASSUME NEW r \in Req, AccountsStep(r), use' = use PROVE AccountsInv'
  BY <1>3, BeginInv, RegisterInv, UserInv, EraseInv, PasswordInv DEF AccountsStep
<1> QED
  BY <1>1, <1>2, <1>3, SetActiveInv DEF AccountsNext

\* What every later proof starts from.
LEMMA AccountsInvariant == AccountsSpec => []AccountsInv
  BY AccountsInitInv, AccountsInvStep, PTL DEF AccountsSpec

\* Every variable keeps its type, and no two users have one e-mail.
THEOREM AccountsTypes == AccountsSpec => []AccountsTypeOK
  BY AccountsInvariant, PTL DEF AccountsInv

-----------------------------------------------------------------------------
(***************************************************************************)
(* A tenant without an owner.                                              *)
(***************************************************************************)
Orphan(p) == business[p] # None /\ business[p].owner = None

\* The registrations that have to link the tenant of a phone.
Linkers(p) ==
  {r \in Req : job[r] # None /\ job[r].op = "register"
               /\ job[r].at \in {"user", "owner"} /\ job[r].phone = p}

LEMMA LinkingIs == \A p : Linking(p) <=> Linkers(p) # {}
  BY DEF Linking, Linkers

LEMMA LinkingIsThen == \A p \in Phone : Linking(p)' <=> Linkers(p)' # {}
  BY DEF Linking, Linkers

\* A step that makes no tenant an orphan and ends no registration before its link.
LEMMA OrphansKept ==
  ASSUME OrphanHasCause, \A p \in Phone : Orphan(p)' => Orphan(p),
         \A p \in Phone \ stranded' : Orphan(p)' => p \notin stranded,
         \A p \in Phone \ stranded' : Orphan(p)' => Linkers(p) \subseteq Linkers(p)'
  PROVE  OrphanHasCause'
<1> SUFFICES ASSUME NEW p \in Phone \ stranded', Orphan(p)' PROVE Linking(p)'
  BY DEF OrphanHasCause, Orphan
<1>1. Linking(p)
  BY DEF OrphanHasCause, Orphan
<1> QED
  BY <1>1, LinkingIs, LinkingIsThen

LEMMA OrphanStep ==
  AccountsInv /\ OrphanHasCause /\ [AccountsNext]_accountsVars => OrphanHasCause'
<1> SUFFICES ASSUME AccountsInv, OrphanHasCause, [AccountsNext]_accountsVars
             PROVE  OrphanHasCause'
  OBVIOUS
<1>t. AccountsTypeOK /\ AccountsTypeOK'
  BY AccountsInvStep DEF AccountsInv
<1>1. ASSUME UNCHANGED <<business, stranded>>,
             \A p \in Phone : Linkers(p) \subseteq Linkers(p)'
      PROVE  OrphanHasCause'
  BY <1>1, OrphansKept DEF Orphan
<1>2. ASSUME NEW r \in Req, NEW op, NEW at, NEW e, NEW p, NEW u, NEW t,
             Start(r, op, at, e, p, u, t)
      PROVE  \A x \in Phone : Linkers(x) \subseteq Linkers(x)'
  BY <1>t, <1>2 DEF Start, Linkers, AccountsTypeOK
<1>3. ASSUME NEW r \in Req, End(r), UNCHANGED <<business, stranded>>,
             job[r].op # "register" \/ job[r].at \notin {"user", "owner"}
      PROVE  OrphanHasCause'
  <2>1. \A p \in Phone : Linkers(p) \subseteq Linkers(p)'
    BY <1>t, <1>3 DEF End, Linkers, AccountsTypeOK
  <2> QED
    BY <1>1, <1>3, <2>1
<1>4. ASSUME NEW r \in Req, NEW at, Step(r, at), UNCHANGED <<business, stranded>>,
             job[r] # None, job[r].op # "register" \/ job[r].at \notin {"user", "owner"}
      PROVE  OrphanHasCause'
  <2>1. \A x \in Req \ {r} : job'[x] = job[x]
    BY <1>t, <1>4 DEF Step, AccountsTypeOK
  <2>2. \A p \in Phone : Linkers(p) \subseteq Linkers(p)'
    BY <1>4, <2>1 DEF Linkers
  <2> QED
    BY <1>1, <1>4, <2>2
<1>5. ASSUME NEW r \in Req, CreateTenant(r) PROVE OrphanHasCause'
  <2>1. job[r] \in Job /\ JobSound(job[r], Users) /\ job[r].at = "tenant"
    BY <1>5, JobOf DEF CreateTenant
  <2> DEFINE q == job[r].phone
  <2>2. CASE business[q] # None
    BY <1>3, <1>5, <2>1, <2>2 DEF CreateTenant, causes
  <2>3. CASE business[q] = None
    <3>1. /\ business' = [business EXCEPT ![q] = [owner |-> job[r].user]]
          /\ stranded' = stranded \ {q}
          /\ IF job[r].op = "register" THEN Step(r, "user") ELSE End(r)
      BY <1>5, <2>3 DEF CreateTenant
    <3>2. q \in Phone /\ job[r].op \in {"register", "addTenant"}
      BY <2>1 DEF JobSound
    <3>3. \A x \in Req \ {r} : job'[x] = job[x]
      BY <1>t, <3>1 DEF Step, End, AccountsTypeOK
    <3>4. ASSUME NEW p \in Phone \ stranded', Orphan(p)' PROVE Linking(p)'
      <4>1. CASE p = q
        <5>1. job[r].user = None
          BY <1>t, <3>1, <3>2, <3>4, <4>1 DEF Orphan, AccountsTypeOK
        <5>2. job[r].op = "register"
          BY <2>1, <3>2, <5>1, AccountsAssumption DEF JobSound
        <5>3. job'[r] = [job[r] EXCEPT !.at = "user"]
          BY <1>t, <3>1, <5>2 DEF Step, AccountsTypeOK
        <5>4. job'[r] \in Job /\ job'[r].op = "register" /\ job'[r].at = "user"
              /\ job'[r].phone = q
          BY <2>1, <5>2, <5>3 DEF Job, Place
        <5> QED
          BY <4>1, <5>4, AccountsAssumption DEF Linking
      <4>2. CASE p # q
        <5>1. Orphan(p) /\ p \notin stranded
          BY <1>t, <3>1, <3>4, <4>2 DEF Orphan, AccountsTypeOK
        <5>2. Linking(p)
          BY <5>1 DEF OrphanHasCause, Orphan
        <5>3. Linkers(p) \subseteq Linkers(p)'
          BY <2>1, <3>3 DEF Linkers
        <5> QED
          BY <5>2, <5>3, LinkingIs, LinkingIsThen
      <4> QED
        BY <4>1, <4>2
    <3> QED
      BY <3>4 DEF OrphanHasCause, Orphan
  <2> QED
    BY <2>2, <2>3
<1>6. ASSUME NEW r \in Req, CreateUser(r) PROVE OrphanHasCause'
  <2>0. business' = business /\ job[r] # None /\ job[r].at = "user"
    BY <1>6 DEF CreateUser
  <2>1. CASE job[r].op # "register"
    <3>1. End(r) /\ stranded' = stranded
      BY <1>6, <2>1 DEF CreateUser
    <3> QED
      BY <1>3, <2>0, <2>1, <3>1
  <2>2. CASE job[r].op = "register" /\ Taken(job[r].email)
    <3>1. End(r) /\ stranded' = stranded \cup {job[r].phone}
      BY <1>6, <2>2 DEF CreateUser
    <3>2. \A p \in Phone \ stranded' : Linkers(p) \subseteq Linkers(p)'
      BY <1>t, <3>1 DEF End, Linkers, AccountsTypeOK
    <3> QED
      BY <2>0, <3>1, <3>2, OrphansKept DEF Orphan
  <2>3. CASE job[r].op = "register" /\ ~Taken(job[r].email)
    <3>1. PICK u \in User : job' = [job EXCEPT ![r].user = u, ![r].at = "owner"]
      BY <1>6, <2>3 DEF CreateUser
    <3>2. /\ job'[r] = [job[r] EXCEPT !.user = u, !.at = "owner"]
          /\ \A x \in Req \ {r} : job'[x] = job[x] /\ job[r] \in Job
      BY <1>t, <2>0, <3>1 DEF AccountsTypeOK
    <3>3. /\ job'[r].op = "register" /\ job'[r].at = "owner"
          /\ job'[r].phone = job[r].phone /\ job'[r] # None
      <4>1. job[r] \in Job
        BY <2>0, JobOf
      <4>2. job'[r] \in Job /\ job'[r].op = "register" /\ job'[r].at = "owner"
            /\ job'[r].phone = job[r].phone
        BY <2>3, <3>2, <4>1 DEF Job, Place
      <4> QED
        BY <4>2, AccountsAssumption
    <3>4. \A p \in Phone : Linkers(p) \subseteq Linkers(p)'
      BY <3>2, <3>3 DEF Linkers
    <3>5. stranded' = stranded
      BY <1>6, <2>3 DEF CreateUser
    <3> QED
      BY <1>1, <2>0, <3>4, <3>5
  <2> QED
    BY <2>1, <2>2, <2>3
<1>7. ASSUME NEW r \in Req, SetOwner(r) PROVE OrphanHasCause'
  <2>1. /\ job[r] # None /\ JobSound(job[r], Users) /\ job[r].at = "owner"
        /\ job[r].phone \in Phone /\ job[r].user \in User
    BY <1>7, JobOf DEF SetOwner, Doing, JobSound
  <2>2. PICK q \in Phone : q = job[r].phone
    BY <2>1
  <2>3. business' = WithOwner(q, job[r].user) /\ stranded' = stranded
    BY <1>7, <2>2 DEF SetOwner, causes
  <2>4. /\ ~Orphan(q)'
        /\ \A p \in Phone : Orphan(p)' => Orphan(p)
    <3>1. business[q] # None => business'[q].owner = job[r].user
      BY <1>t, <2>3 DEF WithOwner, Business, AccountsTypeOK
    <3>2. business[q] = None => business' = business
      BY <2>3 DEF WithOwner
    <3>3. \A p \in Phone \ {q} : business'[p] = business[p]
      BY <1>t, <2>3 DEF WithOwner, AccountsTypeOK
    <3>4. job[r].user # None
      BY <2>1, AccountsAssumption
    <3> QED
      BY <3>1, <3>2, <3>3, <3>4 DEF Orphan
  <2>5. \A p \in Phone \ {q} : Linkers(p) \subseteq Linkers(p)'
    BY <1>t, <1>7, <2>2 DEF SetOwner, Step, Linkers, AccountsTypeOK
  <2> QED
    BY <2>2, <2>3, <2>4, <2>5, OrphansKept
<1>8. ASSUME NEW r \in Req, EraseTenant(r) PROVE OrphanHasCause'
  <2>1. job[r].phone \in Phone /\ job[r].op = "erase"
    BY <1>8, JobOf DEF EraseTenant, Doing, JobSound
  <2>2. business'[job[r].phone] = None /\ \A p \in Phone \ {job[r].phone} : business'[p] = business[p]
    BY <1>t, <1>8, <2>1 DEF EraseTenant, AccountsTypeOK
  <2>3. \A p \in Phone : Linkers(p) \subseteq Linkers(p)'
    BY <1>t, <1>8, <2>1 DEF EraseTenant, End, Linkers, AccountsTypeOK
  <2>4. stranded' = stranded \ {job[r].phone}
    BY <1>8 DEF EraseTenant
  <2> QED
    BY <2>2, <2>3, <2>4, OrphansKept DEF Orphan
<1>9. ASSUME NEW r \in Req, FailJob(r) PROVE OrphanHasCause'
  <2>1. business' = business /\ End(r) /\ stranded \subseteq stranded'
    BY <1>9 DEF FailJob, documents
  <2>2. \A p \in Phone \ stranded' : Linkers(p) \subseteq Linkers(p)'
    BY <1>t, <1>9, <2>1 DEF FailJob, End, Linkers, AccountsTypeOK
  <2> QED
    BY <2>1, <2>2, OrphansKept DEF Orphan
<1>10. ASSUME NEW r \in Req, AccountsStep(r) PROVE OrphanHasCause'
  <2>1. ASSUME NEW e, NEW p, NEW u, NEW t,
               \/ Register(r, e, p) \/ AddUser(r, e, p) \/ EditUser(r, u, e, p)
               \/ ForgotPassword(r, u) \/ AddTenant(r, u, p) \/ HardDelete(r, p)
               \/ ResetPassword(r, t)
        PROVE  OrphanHasCause'
    <3>1. UNCHANGED <<business, stranded>>
      BY <2>1
         DEF Register, AddUser, EditUser, ForgotPassword, AddTenant, HardDelete,
             ResetPassword, documents, causes
    <3>2. \E op, at, e1, p1, u1, t1 : Start(r, op, at, e1, p1, u1, t1)
      BY <2>1
         DEF Register, AddUser, EditUser, ForgotPassword, AddTenant, HardDelete,
             ResetPassword
    <3> QED
      BY <1>1, <1>2, <3>1, <3>2
  <2>2. CASE CheckPhone(r)
    BY <1>3, <1>4, <2>2 DEF CheckPhone, documents, causes
  <2>3. CASE \/ WriteConfig(r) \/ EraseConfig(r) \/ EraseUsers(r) \/ ClearTokens(r)
             \/ SetPassword(r)
    BY <1>3, <1>4, <2>3
       DEF WriteConfig, EraseConfig, EraseUsers, ClearTokens, SetPassword, Doing,
           documents, causes
  <2>4. CASE TryActivate(r) \/ SaveUser(r) \/ DrawToken(r) \/ MarkTokenUsed(r)
    BY <1>3, <2>4
       DEF TryActivate, SaveUser, DrawToken, MarkTokenUsed, Doing, documents, causes
  <2> QED
    BY <1>5, <1>6, <1>7, <1>8, <1>9, <1>10, <2>1, <2>2, <2>3, <2>4 DEF AccountsStep
<1>11. CASE \/ \E u \in User, yes \in BOOLEAN : SetActive(u, yes)
            \/ \E t \in Token : ExpireToken(t)
            \/ UNCHANGED accountsVars
  BY <1>1, <1>11 DEF SetActive, ExpireToken, accountsVars, causes, Linkers
<1> QED
  BY <1>10, <1>11 DEF AccountsNext

\* A tenant is without its owner only while it is being registered, or after its
\* registration was cut short (auth.service.ts register).
THEOREM OrphansStranded == AccountsSpec => []OrphanHasCause
<1>1. AccountsInit => OrphanHasCause
  BY DEF AccountsInit, OrphanHasCause
<1> QED
  BY <1>1, AccountsInvariant, OrphanStep, PTL DEF AccountsSpec

-----------------------------------------------------------------------------
(***************************************************************************)
(* Founders.  Of a phone that is settled: no registration is past the      *)
(* creation of its tenant while an erasure is on its way, and one at most  *)
(* is; a tenant about to go, or to get its owner, has no other founder     *)
(* left; and a founder owns the tenant or is about to be linked to it.     *)
(***************************************************************************)
Registrars(p) ==
  {r \in Req : job[r] # None /\ job[r].op = "register"
               /\ job[r].at \in {"user", "owner", "config", "activate"}
               /\ job[r].phone = p}

Erasers(p) == {r \in Req : job[r] # None /\ job[r].op = "erase" /\ job[r].phone = p}

Ours(p) == {u \in founders : user[u].tenant = p}

\* Its tenant is there while it is registered, by one request.
OneRegistrar(p) ==
  /\ Erasers(p) # {} => Registrars(p) = {}
  /\ Registrars(p) # {} => business[p] # None
  /\ \A r, s \in Registrars(p) : r = s

\* It has no founder but the one to be linked.
FewFounders(p) ==
  /\ business[p] = None => Ours(p) = {}
  /\ \A r \in Erasers(p) : job[r].at = "gone" => Ours(p) = {}
  /\ \A r \in Registrars(p) :
       /\ job[r].at = "user" => Ours(p) = {}
       /\ job[r].at = "owner" => Ours(p) \subseteq {job[r].user}

Linked(p) ==
  p \notin stranded => \A u \in Ours(p) :
    \/ business[p].owner = u
    \/ \E r \in Registrars(p) : job[r].at = "owner" /\ job[r].user = u

PhoneInv(p) == OneRegistrar(p) /\ FewFounders(p) /\ Linked(p)

FounderInv == \A p \in Phone \ unsettled : PhoneInv(p)

LEMMA FounderInit == AccountsInit => FounderInv
<1> SUFFICES ASSUME AccountsInit, NEW p \in Phone PROVE PhoneInv(p)
  BY DEF FounderInv
<1>1. Registrars(p) = {} /\ Erasers(p) = {} /\ Ours(p) = {}
  BY DEF AccountsInit, Idle, Registrars, Erasers, Ours
<1> QED
  BY <1>1 DEF PhoneInv, OneRegistrar, FewFounders, Linked

\* What a registration that goes on, an erasure that is not about to erase and
\* fewer founders leave as it is.
LEMMA PhoneKept ==
  ASSUME NEW p \in Phone, PhoneInv(p), business'[p] = business[p],
         Ours(p)' \subseteq Ours(p),
         p \notin stranded' => p \notin stranded,
         \A r \in Registrars(p)' :
           r \in Registrars(p) /\ (job'[r] = job[r] \/ job'[r].at \in {"config", "activate"}),
         \A r \in Erasers(p)' :
           r \in Erasers(p) /\ (job'[r].at = "gone" => job[r].at = "gone"),
         p \notin stranded' =>
           \A r \in Registrars(p) : job[r].at = "owner" => r \in Registrars(p)' /\ job'[r] = job[r]
  PROVE  PhoneInv(p)'
<1>1. OneRegistrar(p)'
  BY DEF PhoneInv, OneRegistrar
<1>2. FewFounders(p)'
  <2>1. \A r \in Registrars(p)' :
           /\ job'[r].at = "user" => job[r].at = "user"
           /\ job'[r].at = "owner" => job[r].at = "owner" /\ job'[r].user = job[r].user
    OBVIOUS
  <2> QED
    BY <2>1 DEF PhoneInv, FewFounders
<1>3. Linked(p)'
  <2> SUFFICES ASSUME p \notin stranded', NEW u \in Ours(p)'
               PROVE  \/ business'[p].owner = u
                      \/ \E r \in Registrars(p)' : job'[r].at = "owner" /\ job'[r].user = u
    BY DEF Linked
  <2>1. \/ business[p].owner = u
        \/ \E r \in Registrars(p) : job[r].at = "owner" /\ job[r].user = u
    BY DEF PhoneInv, Linked
  <2> QED
    BY <2>1
<1> QED
  BY <1>1, <1>2, <1>3 DEF PhoneInv

\* One job changes: what is left for it to show.
LEMMA JobKept ==
  ASSUME AccountsInv, NEW r \in Req, \A x \in Req \ {r} : job'[x] = job[x],
         NEW p \in Phone, PhoneInv(p), business'[p] = business[p],
         Ours(p)' \subseteq Ours(p),
         p \notin stranded' => p \notin stranded,
         r \in Registrars(p)' => r \in Registrars(p) /\ job'[r].at \in {"config", "activate"},
         r \in Erasers(p)' =>
           r \in Erasers(p) /\ (job'[r].at = "gone" => job[r].at = "gone"),
         r \in Registrars(p) /\ job[r].at = "owner" => p \in stranded'
  PROVE  PhoneInv(p)'
<1>1. \A x \in Req \ {r} : /\ x \in Registrars(p)' <=> x \in Registrars(p)
                           /\ x \in Erasers(p)' <=> x \in Erasers(p)
  BY DEF Registrars, Erasers
<1>2. Registrars(p) \subseteq Req /\ Registrars(p)' \subseteq Req /\ Erasers(p)' \subseteq Req
  BY DEF Registrars, Erasers
<1> QED
  BY <1>1, <1>2, PhoneKept

\* Jobs that are of no concern to the phones.
LEMMA OtherJob ==
  ASSUME AccountsInv, FounderInv, NEW r \in Req, \A x \in Req \ {r} : job'[x] = job[x],
         UNCHANGED <<business, unsettled>>, stranded \subseteq stranded',
         \A p \in Phone : Ours(p)' \subseteq Ours(p),
         \A p \in Phone : r \in Registrars(p)' =>
                            r \in Registrars(p) /\ job'[r].at \in {"config", "activate"},
         \A p \in Phone : r \in Erasers(p)' => r \in Erasers(p) /\ job'[r].at # "gone",
         \A p \in Phone : r \in Registrars(p) /\ job[r].at = "owner" => p \in stranded'
  PROVE  FounderInv'
<1> SUFFICES ASSUME NEW p \in Phone \ unsettled PROVE PhoneInv(p)'
  BY DEF FounderInv
<1>1. PhoneInv(p)
  BY DEF FounderInv
<1> QED
  BY <1>1, JobKept

\* Where a job stands after its request begins, goes on or ends.
LEMMA JobStarted ==
  ASSUME AccountsInv, NEW r \in Req, NEW op, NEW at, NEW e, NEW p, NEW u, NEW t,
         Start(r, op, at, e, p, u, t)
  PROVE  /\ job[r] = None /\ job'[r].op = op /\ job'[r].at = at /\ job'[r].phone = p
         /\ \A x \in Req \ {r} : job'[x] = job[x]
  BY DEF Start, AccountsInv, AccountsTypeOK

LEMMA JobStepped ==
  ASSUME AccountsInv, NEW r \in Req, job[r] # None, NEW at \in Place, Step(r, at)
  PROVE  /\ job'[r] # None /\ job'[r].at = at
         /\ job'[r].op = job[r].op /\ job'[r].phone = job[r].phone
         /\ job'[r].user = job[r].user
         /\ \A x \in Req \ {r} : job'[x] = job[x]
<1>1. job[r] \in Job /\ job'[r] = [job[r] EXCEPT !.at = at]
  BY JobOf DEF Step, AccountsInv, AccountsTypeOK
<1>2. job'[r] \in Job
  BY <1>1 DEF Job
<1> QED
  BY <1>1, <1>2, AccountsAssumption DEF Step, AccountsInv, AccountsTypeOK, Job

LEMMA JobEnded ==
  ASSUME AccountsInv, NEW r \in Req, End(r)
  PROVE  job'[r] = None /\ \A x \in Req \ {r} : job'[x] = job[x]
  BY DEF End, AccountsInv, AccountsTypeOK

\* The founders of a phone, where their tenants stay or are taken away.
LEMMA OursSame ==
  ASSUME UNCHANGED <<user, founders>>
  PROVE  \A p \in Phone : Ours(p)' = Ours(p)
  BY DEF Ours

LEMMA FounderBegins ==
  ASSUME AccountsInv, FounderInv, NEW r \in Req, NEW op, NEW at, NEW e, NEW q, NEW u, NEW t,
         Start(r, op, at, e, q, u, t), UNCHANGED <<documents, causes>>,
         op # "erase", op = "register" => at = "phone"
  PROVE  FounderInv'
<1>1. UNCHANGED <<user, founders, business, stranded, unsettled>>
  BY DEF documents, causes
<1>2. job[r] = None /\ job'[r].op = op /\ job'[r].at = at
      /\ \A x \in Req \ {r} : job'[x] = job[x]
  BY JobStarted
<1>3. \A p \in Phone : r \notin Registrars(p) /\ r \notin Registrars(p)' /\ r \notin Erasers(p)'
  BY <1>2 DEF Registrars, Erasers
<1> QED
  BY <1>1, <1>2, <1>3, OursSame, OtherJob

LEMMA FounderErasure ==
  ASSUME AccountsInv, FounderInv, NEW r \in Req, NEW q \in Phone, HardDelete(r, q)
  PROVE  FounderInv'
<1>1. UNCHANGED <<user, founders, business, stranded>>
  BY DEF HardDelete, documents
<1>2. /\ job[r] = None /\ job'[r].op = "erase" /\ job'[r].at = "configs" /\ job'[r].phone = q
      /\ \A x \in Req \ {r} : job'[x] = job[x]
  BY JobStarted DEF HardDelete
<1>3. unsettled' = IF Registering(q) THEN unsettled \cup {q} ELSE unsettled
  BY DEF HardDelete
<1>4. \A p \in Phone : Registrars(p)' = Registrars(p)
  BY <1>2 DEF Registrars
<1>5. \A p \in Phone : \A x \in Registrars(p) : job'[x] = job[x]
  BY <1>2 DEF Registrars
<1>6. \A p \in Phone : \A x \in Erasers(p)' :
        x = r \/ (x \in Erasers(p) /\ job'[x] = job[x])
  BY <1>2 DEF Erasers
<1> SUFFICES ASSUME NEW p \in Phone \ unsettled' PROVE PhoneInv(p)'
  BY DEF FounderInv
<1>7. PhoneInv(p) /\ p \notin unsettled
  BY <1>3 DEF FounderInv
<1>8. CASE p # q
  <2>1. r \notin Erasers(p)' /\ r \notin Registrars(p)' /\ r \notin Registrars(p)
    BY <1>2, <1>8 DEF Erasers, Registrars
  <2> QED
    BY <1>1, <1>2, <1>7, <2>1, OursSame, JobKept
<1>9. CASE p = q
  <2>1. Registrars(p) = {}
    BY <1>3, <1>9 DEF Registering, Registrars
  <2>2. OneRegistrar(p)'
    BY <1>4, <2>1 DEF OneRegistrar
  <2>3. FewFounders(p)'
    BY <1>1, <1>2, <1>4, <1>6, <1>7, <2>1, OursSame DEF PhoneInv, FewFounders
  <2>4. Linked(p)'
    BY <1>1, <1>4, <1>7, <2>1, OursSame DEF PhoneInv, Linked
  <2> QED
    BY <2>2, <2>3, <2>4 DEF PhoneInv
<1> QED
  BY <1>8, <1>9

LEMMA FounderTenant ==
  ASSUME AccountsInv, FounderInv, NEW r \in Req, CreateTenant(r)
  PROVE  FounderInv'
<1> DEFINE q == job[r].phone
<1>1. /\ job[r] # None /\ job[r].at = "tenant" /\ q \in Phone
      /\ job[r].op \in {"register", "addTenant"}
  BY JobOf DEF CreateTenant, JobSound
<1>2. \A p \in Phone : r \notin Registrars(p) /\ r \notin Erasers(p)
  BY <1>1 DEF Registrars, Erasers
<1>3. UNCHANGED <<user, founders>>
  BY DEF CreateTenant, causes
<1>4. CASE business[q] # None
  <2>1. End(r) /\ UNCHANGED <<business, stranded, unsettled>>
    BY <1>4 DEF CreateTenant, causes
  <2>2. job'[r] = None /\ \A x \in Req \ {r} : job'[x] = job[x]
    BY <2>1, JobEnded
  <2>3. \A p \in Phone : r \notin Registrars(p)' /\ r \notin Erasers(p)'
    BY <2>2 DEF Registrars, Erasers
  <2> QED
    BY <1>2, <1>3, <2>1, <2>2, <2>3, OursSame, OtherJob
<1>5. CASE business[q] = None
  <2>1. /\ business' = [business EXCEPT ![q] = [owner |-> job[r].user]]
        /\ IF job[r].op = "register" THEN Step(r, "user") ELSE End(r)
        /\ stranded' = stranded \ {q}
        /\ unsettled' = IF Erasing(q) THEN unsettled \cup {q} ELSE unsettled
    BY <1>5 DEF CreateTenant
  <2>2. /\ \A x \in Req \ {r} : job'[x] = job[x]
        /\ job'[r] # None => job'[r].at = "user" /\ job'[r].op = "register" /\ job'[r].phone = q
    <3>1. CASE job[r].op = "register"
      BY <1>1, <2>1, <3>1, JobStepped DEF Place
    <3>2. CASE job[r].op # "register"
      BY <2>1, <3>2, JobEnded
    <3> QED
      BY <3>1, <3>2
  <2>3. business'[q] # None /\ \A p \in Phone \ {q} : business'[p] = business[p]
    <3>1. business'[q] \in Business
      <4>1. job[r].user \in User \cup {None}
        BY <1>1, JobOf DEF Job
      <4>2. [owner |-> job[r].user] \in Business
        BY <4>1 DEF Business
      <4> QED
        BY <1>1, <2>1, <4>2 DEF AccountsInv, AccountsTypeOK
    <3> QED
      BY <1>1, <2>1, <3>1, AccountsAssumption DEF AccountsInv, AccountsTypeOK
  <2> HIDE DEF q
  <2> SUFFICES ASSUME NEW p \in Phone \ unsettled' PROVE PhoneInv(p)'
    BY DEF FounderInv
  <2>4. PhoneInv(p) /\ p \notin unsettled
    BY <2>1 DEF FounderInv
  <2>5. CASE p # q
    <3>1. r \notin Registrars(p)' /\ r \notin Erasers(p)'
      BY <2>2, <2>5 DEF Registrars, Erasers
    <3> QED
      BY <1>2, <1>3, <2>1, <2>2, <2>3, <2>4, <2>5, <3>1, OursSame, JobKept
  <2>6. CASE p = q
    <3>1. Registrars(p) = {} /\ Ours(p) = {} /\ Ours(p)' = {}
      BY <1>3, <1>5, <2>4, <2>6, OursSame DEF PhoneInv, OneRegistrar, FewFounders, q
    <3>2. Erasers(p)' = {}
      <4>1. Erasers(p) = {}
        BY <2>1, <2>6 DEF Erasing, Erasers
      <4> QED
        BY <2>2, <4>1 DEF Erasers
    <3>3. Registrars(p)' \subseteq {r}
      BY <2>2, <3>1 DEF Registrars
    <3> QED
      BY <2>3, <2>6, <3>1, <3>2, <3>3 DEF PhoneInv, OneRegistrar, FewFounders, Linked
  <2> QED
    BY <2>5, <2>6
<1> QED
  BY <1>4, <1>5

LEMMA FounderUser ==
  ASSUME AccountsInv, FounderInv, NEW r \in Req, CreateUser(r)
  PROVE  FounderInv'
<1>1. /\ job[r] # None /\ job[r].at = "user" /\ UNCHANGED <<business, unsettled>>
      /\ job[r] \in Job
  BY JobOf DEF CreateUser
<1>2. \A p \in Phone : r \notin Registrars(p) \/ job[r].at = "user"
  BY <1>1
<1>3. CASE Taken(job[r].email)
  <2>1. End(r) /\ stranded \subseteq stranded' /\ UNCHANGED <<user, founders>>
    BY <1>3 DEF CreateUser
  <2>2. job'[r] = None /\ \A x \in Req \ {r} : job'[x] = job[x]
    BY <2>1, JobEnded
  <2>3. \A p \in Phone : r \notin Registrars(p)' /\ r \notin Erasers(p)'
    BY <2>2 DEF Registrars, Erasers
  <2> QED
    BY <1>1, <2>1, <2>2, <2>3, OursSame, OtherJob
<1>4. CASE ~Taken(job[r].email)
  <2>1. PICK u \in User :
          /\ user[u] = None
          /\ user' = [user EXCEPT ![u] =
                        [email |-> job[r].email, tenant |-> job[r].phone, active |-> TRUE]]
          /\ IF job[r].op = "register"
               THEN /\ job' = [job EXCEPT ![r].user = u, ![r].at = "owner"]
                    /\ founders' = founders \cup {u}
               ELSE End(r) /\ UNCHANGED founders
    BY <1>4 DEF CreateUser
  <2>2. u \notin founders /\ founders \subseteq User
    BY <2>1 DEF AccountsInv, AccountsTypeOK
  <2>3. user'[u].tenant = job[r].phone /\ \A v \in User \ {u} : user'[v] = user[v]
    BY <2>1 DEF AccountsInv, AccountsTypeOK
  <2>4. stranded' = stranded
    BY <1>4 DEF CreateUser
  <2>5. CASE job[r].op # "register"
    <3>1. job'[r] = None /\ \A x \in Req \ {r} : job'[x] = job[x]
      BY <2>1, <2>5, JobEnded
    <3>2. \A p \in Phone : r \notin Registrars(p)' /\ r \notin Erasers(p)'
      BY <3>1 DEF Registrars, Erasers
    <3>3. \A p \in Phone : Ours(p)' \subseteq Ours(p)
      BY <2>1, <2>2, <2>3, <2>5 DEF Ours
    <3> QED
      BY <1>1, <2>4, <3>1, <3>2, <3>3, OtherJob
  <2>6. CASE job[r].op = "register"
    <3>1. /\ job'[r] = [job[r] EXCEPT !.user = u, !.at = "owner"]
          /\ \A x \in Req \ {r} : job'[x] = job[x]
      BY <2>1, <2>6 DEF AccountsInv, AccountsTypeOK
    <3>2. /\ job'[r].user = u /\ job'[r].at = "owner" /\ job'[r].op = "register"
          /\ job'[r].phone = job[r].phone /\ job'[r] # None
      <4>1. /\ job'[r] \in Job /\ job'[r].user = u /\ job'[r].at = "owner"
            /\ job'[r].op = "register" /\ job'[r].phone = job[r].phone
        BY <1>1, <2>6, <3>1 DEF Job, Place
      <4> QED
        BY <4>1, AccountsAssumption
    <3> SUFFICES ASSUME NEW p \in Phone \ unsettled' PROVE PhoneInv(p)'
      BY DEF FounderInv
    <3>3. PhoneInv(p)
      BY <1>1 DEF FounderInv
    <3>4. Registrars(p)' = Registrars(p)
      <4>1. r \in Registrars(p)' <=> r \in Registrars(p)
        BY <1>1, <2>6, <3>2 DEF Registrars
      <4>2. \A x \in Req \ {r} : x \in Registrars(p)' <=> x \in Registrars(p)
        BY <3>1 DEF Registrars
      <4>3. Registrars(p) \subseteq Req /\ Registrars(p)' \subseteq Req
        BY DEF Registrars
      <4> QED
        BY <4>1, <4>2, <4>3
    <3>5. Erasers(p)' = Erasers(p) /\ \A x \in Erasers(p) : job'[x] = job[x]
      BY <2>6, <3>1, <3>2 DEF Erasers
    <3>6. CASE p # job[r].phone
      <4>1. Ours(p)' \subseteq Ours(p)
        BY <2>1, <2>2, <2>3, <2>6, <3>6 DEF Ours
      <4>2. r \notin Registrars(p) /\ r \notin Registrars(p)' /\ r \notin Erasers(p)'
        BY <2>6, <3>2, <3>6 DEF Registrars, Erasers
      <4> QED
        BY <1>1, <2>4, <3>1, <3>3, <4>1, <4>2, JobKept
    <3>7. CASE p = job[r].phone
      <4>1. r \in Registrars(p)
        BY <1>1, <2>6, <3>7 DEF Registrars
      <4>2. Registrars(p) = {r} /\ Erasers(p) = {} /\ business[p] # None /\ Ours(p) = {}
        BY <1>1, <3>3, <4>1 DEF PhoneInv, OneRegistrar, FewFounders
      <4>3. Ours(p)' \subseteq {u}
        BY <2>1, <2>2, <2>3, <2>6, <4>2 DEF Ours
      <4>4. OneRegistrar(p)'
        BY <1>1, <3>4, <3>5, <4>2 DEF OneRegistrar
      <4>5. FewFounders(p)'
        BY <1>1, <3>2, <3>4, <3>5, <4>2, <4>3 DEF FewFounders
      <4>6. Linked(p)'
        BY <3>2, <3>4, <4>2, <4>3 DEF Linked
      <4> QED
        BY <4>4, <4>5, <4>6 DEF PhoneInv
    <3> QED
      BY <3>6, <3>7
  <2> QED
    BY <2>5, <2>6
<1> QED
  BY <1>3, <1>4

LEMMA FounderLink ==
  ASSUME AccountsInv, FounderInv, NEW r \in Req, SetOwner(r)
  PROVE  FounderInv'
<1>1. /\ job[r] # None /\ job[r].op = "register" /\ job[r].at = "owner"
      /\ job[r].phone \in Phone /\ job[r].user \in User
  BY JobOf DEF SetOwner, Doing, JobSound
<1>2. PICK q \in Phone : q = job[r].phone
  BY <1>1
<1>3. /\ business' = WithOwner(q, job[r].user) /\ Step(r, "config")
      /\ UNCHANGED <<user, founders, stranded, unsettled>>
  BY <1>2 DEF SetOwner, causes
<1>4. /\ job'[r] # None /\ job'[r].at = "config" /\ job'[r].op = "register"
      /\ job'[r].phone = q
      /\ \A x \in Req \ {r} : job'[x] = job[x]
  BY <1>1, <1>2, <1>3, JobStepped DEF Place
<1>5. \A p \in Phone \ {q} : business'[p] = business[p]
  BY <1>3 DEF WithOwner, AccountsInv, AccountsTypeOK
<1> SUFFICES ASSUME NEW p \in Phone \ unsettled' PROVE PhoneInv(p)'
  BY DEF FounderInv
<1>6. PhoneInv(p)
  BY <1>3 DEF FounderInv
<1>7. CASE p # q
  <2>1. r \notin Registrars(p) /\ r \notin Registrars(p)' /\ r \notin Erasers(p)'
    BY <1>1, <1>2, <1>4, <1>7 DEF Registrars, Erasers
  <2> QED
    BY <1>3, <1>4, <1>5, <1>6, <1>7, <2>1, OursSame, JobKept
<1>8. CASE p = q
  <2>1. r \in Registrars(p)
    BY <1>1, <1>2, <1>8 DEF Registrars
  <2>2. /\ Registrars(p) = {r} /\ Erasers(p) = {} /\ business[p] # None
        /\ Ours(p) \subseteq {job[r].user}
    BY <1>1, <1>6, <2>1 DEF PhoneInv, OneRegistrar, FewFounders
  <2>3. business'[p] # None /\ business'[p].owner = job[r].user
    <3>1. business[p] \in Business
      BY <2>2 DEF AccountsInv, AccountsTypeOK
    <3>2. [business[p] EXCEPT !.owner = job[r].user] \in Business
      BY <1>1, <3>1 DEF Business
    <3>3. business'[p] = [business[p] EXCEPT !.owner = job[r].user]
      BY <1>3, <1>8, <2>2 DEF WithOwner, AccountsInv, AccountsTypeOK
    <3> QED
      BY <3>1, <3>2, <3>3, AccountsAssumption DEF Business
  <2>4. Registrars(p)' = {r} /\ Erasers(p)' = {}
    BY <1>4, <1>8, <2>2 DEF Registrars, Erasers
  <2>5. Ours(p)' = Ours(p)
    BY <1>3, OursSame
  <2> QED
    BY <1>4, <2>2, <2>3, <2>4, <2>5 DEF PhoneInv, OneRegistrar, FewFounders, Linked
<1> QED
  BY <1>7, <1>8

LEMMA FounderRelease ==
  ASSUME AccountsInv, FounderInv, NEW r \in Req, EraseUsers(r)
  PROVE  FounderInv'
<1>1. job[r] # None /\ job[r].op = "erase" /\ job[r].phone \in Phone
  BY JobOf DEF EraseUsers, Doing, JobSound
<1>2. UNCHANGED <<business, founders, stranded>> /\ Step(r, "gone")
  BY DEF EraseUsers
<1>3. /\ job'[r].op = "erase" /\ job'[r].phone = job[r].phone
      /\ \A x \in Req \ {r} : job'[x] = job[x]
  BY <1>1, <1>2, JobStepped DEF Place
<1>4. \/ user' = Released(job[r].phone) /\ UNCHANGED unsettled
      \/ unsettled' = unsettled \cup {job[r].phone} /\ UNCHANGED user
  BY DEF EraseUsers
<1>5. \A u \in User :
        \/ user'[u] = user[u] /\ (user' = user \/ user[u] = None \/ user[u].tenant # job[r].phone)
        \/ user[u] \in UserDoc /\ user'[u] = [user[u] EXCEPT !.tenant = None]
  BY <1>4 DEF Released, AccountsInv, AccountsTypeOK
<1>6. \A u \in founders : u \in User /\ user[u] \in UserDoc
  BY DEF AccountsInv, AccountsTypeOK
<1>7. \A u \in founders : user'[u] = user[u] \/ user'[u].tenant = None
  BY <1>5, <1>6 DEF UserDoc
<1>8. None \notin Phone
  BY AccountsAssumption
<1>9. \A p \in Phone : Ours(p)' \subseteq Ours(p)
  BY <1>2, <1>7, <1>8 DEF Ours
<1> SUFFICES ASSUME NEW p \in Phone \ unsettled' PROVE PhoneInv(p)'
  BY DEF FounderInv
<1>10. PhoneInv(p)
  BY <1>4 DEF FounderInv
<1>11. r \notin Registrars(p) /\ r \notin Registrars(p)'
  BY <1>1, <1>3 DEF Registrars
<1>12. CASE p # job[r].phone
  <2>1. r \notin Erasers(p)'
    BY <1>3, <1>12 DEF Erasers
  <2> QED
    BY <1>2, <1>3, <1>9, <1>10, <1>11, <2>1, JobKept
<1>13. CASE p = job[r].phone
  <2>1. user' = Released(p)
    BY <1>4, <1>13
  <2>2. Ours(p)' = {}
    <3>1. \A u \in founders : user[u] # None
      BY <1>6, AccountsAssumption
    <3>2. \A u \in founders : user'[u].tenant # p
      BY <1>6, <1>7, <1>8, <2>1, <3>1 DEF Released, UserDoc
    <3> QED
      BY <1>2, <3>2 DEF Ours
  <2>3. Registrars(p) = {}
    BY <1>1, <1>10, <1>13 DEF PhoneInv, OneRegistrar, Erasers
  <2>4. Registrars(p)' = {}
    BY <1>3, <1>11, <2>3 DEF Registrars
  <2> QED
    BY <2>2, <2>4 DEF PhoneInv, OneRegistrar, FewFounders, Linked
<1> QED
  BY <1>12, <1>13

LEMMA FounderGone ==
  ASSUME AccountsInv, FounderInv, NEW r \in Req, EraseTenant(r)
  PROVE  FounderInv'
<1>1. /\ job[r] # None /\ job[r].op = "erase" /\ job[r].at = "gone" /\ job[r].phone \in Phone
  BY JobOf DEF EraseTenant, Doing, JobSound
<1>2. PICK q \in Phone : q = job[r].phone
  BY <1>1
<1>3. /\ business' = [business EXCEPT ![q] = None] /\ stranded' = stranded \ {q}
      /\ UNCHANGED <<user, founders, unsettled>> /\ End(r)
  BY <1>2 DEF EraseTenant
<1>4. job'[r] = None /\ \A x \in Req \ {r} : job'[x] = job[x]
  BY <1>3, JobEnded
<1> SUFFICES ASSUME NEW p \in Phone \ unsettled' PROVE PhoneInv(p)'
  BY DEF FounderInv
<1>5. PhoneInv(p)
  BY <1>3 DEF FounderInv
<1>6. r \notin Registrars(p) /\ r \notin Registrars(p)' /\ r \notin Erasers(p)'
  BY <1>1, <1>4 DEF Registrars, Erasers
<1>7. CASE p # q
  <2>1. business'[p] = business[p] /\ (p \notin stranded' => p \notin stranded)
    BY <1>3, <1>7 DEF AccountsInv, AccountsTypeOK
  <2> QED
    BY <1>3, <1>4, <1>5, <1>6, <2>1, OursSame, JobKept
<1>8. CASE p = q
  <2>1. r \in Erasers(p)
    BY <1>1, <1>2, <1>8 DEF Erasers
  <2>2. Ours(p) = {} /\ Registrars(p) = {}
    BY <1>1, <1>5, <2>1 DEF PhoneInv, OneRegistrar, FewFounders
  <2>3. Ours(p)' = {} /\ Registrars(p)' = {}
    BY <1>3, <1>4, <1>6, <2>2, OursSame DEF Registrars
  <2> QED
    BY <2>3 DEF PhoneInv, OneRegistrar, FewFounders, Linked
<1> QED
  BY <1>7, <1>8

LEMMA FounderStep ==
  AccountsInv /\ FounderInv /\ [AccountsNext]_accountsVars => FounderInv'
<1> SUFFICES ASSUME AccountsInv, FounderInv, [AccountsNext]_accountsVars
             PROVE  FounderInv'
  OBVIOUS
<1>1. ASSUME UNCHANGED <<job, business, stranded, unsettled>>,
             \A p \in Phone : Ours(p)' \subseteq Ours(p)
      PROVE  FounderInv'
  <2> SUFFICES ASSUME NEW p \in Phone \ unsettled' PROVE PhoneInv(p)'
    BY DEF FounderInv
  <2>1. PhoneInv(p)
    BY <1>1 DEF FounderInv
  <2>2. Registrars(p)' = Registrars(p) /\ Erasers(p)' = Erasers(p)
    BY <1>1 DEF Registrars, Erasers
  <2> QED
    BY <1>1, <2>1, <2>2, PhoneKept
<1>2. ASSUME NEW r \in Req, job[r] # None, End(r), UNCHANGED <<business, unsettled>>,
             stranded \subseteq stranded', \A p \in Phone : Ours(p)' \subseteq Ours(p),
             job[r].op = "register" /\ job[r].at = "owner" => job[r].phone \in stranded'
      PROVE  FounderInv'
  <2>1. job'[r] = None /\ \A x \in Req \ {r} : job'[x] = job[x]
    BY <1>2, JobEnded
  <2>2. \A p \in Phone : r \notin Registrars(p)' /\ r \notin Erasers(p)'
    BY <2>1 DEF Registrars, Erasers
  <2>3. \A p \in Phone : r \in Registrars(p) /\ job[r].at = "owner" => p \in stranded'
    BY <1>2 DEF Registrars
  <2> QED
    BY <1>2, <2>1, <2>2, <2>3, OtherJob
<1>3. ASSUME NEW r \in Req, job[r] # None,
             NEW at \in {"tenant", "activate", "users", "draw", "mark"}, Step(r, at),
             UNCHANGED <<business, unsettled, stranded, user, founders>>,
             job[r].at # "owner", at = "activate" => job[r].at = "config"
      PROVE  FounderInv'
  <2>1. /\ job'[r].at = at /\ job'[r].op = job[r].op /\ job'[r].phone = job[r].phone
        /\ \A x \in Req \ {r} : job'[x] = job[x]
    BY <1>3, JobStepped DEF Place
  <2>2. \A p \in Phone : r \in Registrars(p)' =>
                           r \in Registrars(p) /\ job'[r].at \in {"config", "activate"}
    BY <1>3, <2>1 DEF Registrars
  <2>3. \A p \in Phone : r \in Erasers(p)' => r \in Erasers(p) /\ job'[r].at # "gone"
    BY <1>3, <2>1 DEF Erasers
  <2> QED
    BY <1>3, <2>1, <2>2, <2>3, OursSame, OtherJob
<1>4. ASSUME NEW r \in Req, AccountsStep(r) PROVE FounderInv'
  <2>1. ASSUME NEW e, NEW p, NEW u, NEW t,
               \/ Register(r, e, p) \/ AddUser(r, e, p) \/ EditUser(r, u, e, p)
               \/ ForgotPassword(r, u) \/ AddTenant(r, u, p) \/ ResetPassword(r, t)
        PROVE  FounderInv'
    <3>1. UNCHANGED <<documents, causes>>
      BY <2>1
         DEF Register, AddUser, EditUser, ForgotPassword, AddTenant, ResetPassword
    <3>2. \E op, at, e1, p1, u1, t1 :
            /\ Start(r, op, at, e1, p1, u1, t1)
            /\ op # "erase" /\ (op = "register" => at = "phone")
      BY <2>1
         DEF Register, AddUser, EditUser, ForgotPassword, AddTenant, ResetPassword
    <3> QED
      BY <3>1, <3>2, FounderBegins
  <2>2. CASE CheckPhone(r)
    <3>1. /\ UNCHANGED <<business, unsettled, stranded, user, founders>>
          /\ job[r] # None /\ job[r].at = "phone" /\ (End(r) \/ Step(r, "tenant"))
      BY <2>2 DEF CheckPhone, documents, causes
    <3> QED
      BY <1>2, <1>3, <3>1, OursSame
  <2>3. CASE WriteConfig(r) \/ EraseConfig(r) \/ ClearTokens(r)
    <3>1. /\ UNCHANGED <<business, unsettled, stranded, user, founders>> /\ job[r] # None
          /\ \/ job[r].at = "config" /\ Step(r, "activate")
             \/ job[r].at = "configs" /\ Step(r, "users")
             \/ job[r].at = "clear" /\ Step(r, "draw")
      BY <2>3 DEF WriteConfig, EraseConfig, ClearTokens, Doing, causes
    <3> QED
      BY <1>3, <3>1
  <2>4. CASE TryActivate(r) \/ DrawToken(r) \/ MarkTokenUsed(r)
    <3>1. /\ UNCHANGED <<business, unsettled, stranded, user, founders>> /\ End(r)
          /\ job[r] # None /\ job[r].at # "owner"
      BY <2>4 DEF TryActivate, DrawToken, MarkTokenUsed, Doing, documents, causes
    <3> QED
      BY <1>2, <3>1, OursSame
  <2>5. CASE SetPassword(r)
    <3>1. /\ UNCHANGED <<business, unsettled, stranded, user, founders>>
          /\ job[r] # None /\ job[r].at = "change" /\ (End(r) \/ Step(r, "mark"))
      BY <2>5 DEF SetPassword, Doing, documents, causes
    <3> QED
      BY <1>2, <1>3, <3>1, OursSame
  <2>6. CASE SaveUser(r)
    <3>1. /\ UNCHANGED <<business, unsettled, stranded>> /\ End(r)
          /\ job[r] # None /\ job[r].at # "owner"
      BY <2>6 DEF SaveUser, Doing
    <3>2. \A p \in Phone : Ours(p)' \subseteq Ours(p)
      <4>1. CASE UNCHANGED <<user, founders>>
        BY <4>1, OursSame
      <4>2. CASE /\ user' = [user EXCEPT ![job[r].user].email = job[r].email,
                                         ![job[r].user].tenant = job[r].phone]
                 /\ founders' = founders \ {job[r].user}
        <5>1. founders \subseteq User
          BY DEF AccountsInv, AccountsTypeOK
        <5>2. \A v \in User \ {job[r].user} : user'[v] = user[v]
          BY <4>2 DEF AccountsInv, AccountsTypeOK
        <5> QED
          BY <4>2, <5>1, <5>2 DEF Ours
      <4> QED
        BY <2>6, <4>1, <4>2 DEF SaveUser
    <3> QED
      BY <1>2, <3>1, <3>2
  <2>7. CASE FailJob(r)
    <3>1. UNCHANGED <<business, user, founders>> /\ End(r) /\ job[r] # None
      BY <2>7 DEF FailJob, documents
    <3>2. /\ stranded \subseteq stranded'
          /\ job[r].op = "register" /\ job[r].at = "owner" => job[r].phone \in stranded'
      BY <2>7 DEF FailJob
    <3>3. unsettled \subseteq unsettled'
      BY <2>7 DEF FailJob
    <3> SUFFICES ASSUME NEW p \in Phone \ unsettled' PROVE PhoneInv(p)'
      BY DEF FounderInv
    <3>4. PhoneInv(p)
      BY <3>3 DEF FounderInv
    <3>5. job'[r] = None /\ \A x \in Req \ {r} : job'[x] = job[x]
      BY <3>1, JobEnded
    <3>6. r \notin Registrars(p)' /\ r \notin Erasers(p)'
      BY <3>5 DEF Registrars, Erasers
    <3>7. r \in Registrars(p) /\ job[r].at = "owner" => p \in stranded'
      BY <3>2 DEF Registrars
    <3>8. Ours(p)' \subseteq Ours(p) /\ business'[p] = business[p]
          /\ (p \notin stranded' => p \notin stranded)
      BY <3>1, <3>2, OursSame
    <3> QED
      BY <3>4, <3>5, <3>6, <3>7, <3>8, JobKept
  <2>8. CASE \E p \in Phone : HardDelete(r, p)
    BY <2>8, FounderErasure
  <2> QED
    BY <1>4, <2>1, <2>2, <2>3, <2>4, <2>5, <2>6, <2>7, <2>8, FounderTenant, FounderUser,
       FounderLink, FounderRelease, FounderGone
       DEF AccountsStep
<1>5. ASSUME NEW u \in User, NEW yes \in BOOLEAN, SetActive(u, yes) PROVE FounderInv'
  <2>1. UNCHANGED <<job, business, stranded, unsettled, founders>> /\ user[u] # None
    BY <1>5 DEF SetActive, causes
  <2>2. user[u] \in UserDoc /\ user'[u] = [user[u] EXCEPT !.active = yes]
        /\ \A v \in User \ {u} : user'[v] = user[v]
    BY <1>5, <2>1 DEF SetActive, AccountsInv, AccountsTypeOK
  <2>3. user'[u].tenant = user[u].tenant
    BY <2>2 DEF UserDoc
  <2>4. founders \subseteq User
    BY DEF AccountsInv, AccountsTypeOK
  <2>5. \A p \in Phone : Ours(p)' \subseteq Ours(p)
    BY <2>1, <2>2, <2>3, <2>4 DEF Ours
  <2> QED
    BY <1>1, <2>1, <2>5
<1>6. CASE (\E t \in Token : ExpireToken(t)) \/ UNCHANGED accountsVars
  <2>1. UNCHANGED <<job, business, stranded, unsettled, user, founders>>
    BY <1>6 DEF ExpireToken, accountsVars, causes
  <2> QED
    BY <1>1, <2>1, OursSame
<1> QED
  BY <1>4, <1>5, <1>6 DEF AccountsNext

\* A user who registered owns his tenant, or is about to, unless the registration
\* was cut short or overlapped an erasure (auth.service.ts register,
\* tenants.service.ts hardDelete).
THEOREM FoundersOwn == AccountsSpec => []FounderIsOwner
<1>1. AccountsInv /\ FounderInv => FounderIsOwner
  <2> SUFFICES ASSUME AccountsInv, FounderInv, NEW u \in founders,
                      user[u].tenant \notin stranded \cup unsettled \cup {None}
               PROVE  LET p == user[u].tenant
                      IN business[p] # None /\ (business[p].owner = u \/ Linking(p))
    BY DEF FounderIsOwner
  <2>1. user[u] \in UserDoc
    BY DEF AccountsInv, AccountsTypeOK
  <2>2. PICK p \in Phone : p = user[u].tenant
    BY <2>1 DEF UserDoc
  <2>3. PhoneInv(p) /\ u \in Ours(p) /\ p \notin stranded
    BY <2>2 DEF FounderInv, Ours
  <2>4. business[p] # None
    BY <2>3 DEF PhoneInv, FewFounders
  <2>5. business[p].owner = u \/ \E r \in Registrars(p) : job[r].at = "owner"
    BY <2>3 DEF PhoneInv, Linked
  <2>6. business[p].owner = u \/ Linking(p)
    BY <2>5 DEF Registrars, Linking
  <2> QED
    BY <2>2, <2>4, <2>6
<1> QED
  BY <1>1, AccountsInvariant, FounderInit, FounderStep, PTL DEF AccountsSpec

-----------------------------------------------------------------------------
(***************************************************************************)
(* The tokens of an e-mail.  The requests about to create one and those    *)
(* that work stay within the number of requests.                           *)
(***************************************************************************)
Drawers(e) == {r \in Req : Doing(r, "forgot", "draw") /\ job[r].email = e}

TokensWithin == \A e \in Email : Within(Live(e), Drawers(e))

LEMMA TokensStep == AccountsInv /\ TokensWithin /\ [AccountsNext]_accountsVars => TokensWithin'
<1> SUFFICES ASSUME AccountsInv, TokensWithin, [AccountsNext]_accountsVars
             PROVE  TokensWithin'
  OBVIOUS
<1>t. AccountsTypeOK
  BY DEF AccountsInv
<1>s. \A e \in Email : Drawers(e) \in SUBSET Req /\ Drawers(e)' \in SUBSET Req
  BY DEF Drawers
<1>1. ASSUME \A e \in Email : Live(e)' \subseteq Live(e) /\ Drawers(e)' \subseteq Drawers(e)
      PROVE  TokensWithin'
  BY <1>1, <1>s, WithinFewer DEF TokensWithin
<1>2. ASSUME UNCHANGED token PROVE \A e \in Email : Live(e)' = Live(e)
  BY <1>2 DEF Live
<1>3. ASSUME NEW r \in Req, \A x \in Req \ {r} : job'[x] = job[x],
             job'[r] = None \/ job'[r].op # "forgot" \/ job'[r].at # "draw"
      PROVE  \A e \in Email : Drawers(e)' \subseteq Drawers(e) \ {r}
  BY <1>3 DEF Drawers, Doing
<1>4. ASSUME NEW r \in Req, End(r) PROVE \A e \in Email : Drawers(e)' \subseteq Drawers(e) \ {r}
  BY <1>3, <1>4, <1>t DEF End, AccountsTypeOK
<1>5. ASSUME NEW r \in Req, NEW at \in Place \ {"draw"}, job[r] # None, Step(r, at)
      PROVE  \A e \in Email : Drawers(e)' \subseteq Drawers(e) \ {r}
  <2>1. job[r] \in Job /\ job'[r] = [job[r] EXCEPT !.at = at]
    BY <1>5, <1>t, JobOf DEF Step, AccountsTypeOK
  <2>2. job'[r].at # "draw"
    BY <2>1 DEF Job
  <2> QED
    BY <1>3, <1>5, <1>t, <2>2 DEF Step, AccountsTypeOK
<1>6. ASSUME NEW r \in Req, NEW op, NEW at, at # "draw", NEW e, NEW p, NEW u, NEW t,
             Start(r, op, at, e, p, u, t)
      PROVE  \A x \in Email : Drawers(x)' \subseteq Drawers(x)
  BY <1>3, <1>6, <1>t DEF Start, AccountsTypeOK
<1>7. ASSUME NEW r \in Req, ClearTokens(r) PROVE TokensWithin'
  <2> DEFINE m == job[r].email
  <2>1. job[r] \in Job /\ Doing(r, "forgot", "clear")
    BY <1>7, JobOf DEF ClearTokens, Doing
  <2>2. /\ job'[r] = [job[r] EXCEPT !.at = "draw"]
        /\ \A x \in Req \ {r} : job'[x] = job[x]
    BY <1>7, <1>t DEF ClearTokens, Step, AccountsTypeOK
  <2>3. job'[r].email = m
    BY <2>1, <2>2 DEF Job
  <2>4. \A e \in Email \ {m} : Drawers(e)' \subseteq Drawers(e)
    BY <2>2, <2>3 DEF Drawers, Doing
  <2>5. \A e \in Email : Live(e)' \subseteq IF e = m THEN {} ELSE Live(e)
    BY <1>7, <1>t DEF ClearTokens, Cleared, Live, AccountsTypeOK
  <2> HIDE DEF m
  <2>6. ASSUME NEW e \in Email PROVE Within(Live(e)', Drawers(e)')
    <3>1. CASE e = m
      <4>1. Live(e)' = {}
        BY <2>5, <3>1
      <4> QED
        BY <1>s, <4>1, WithinNone
    <3>2. CASE e # m
      BY <1>s, <2>4, <2>5, <3>2, WithinFewer DEF TokensWithin
    <3> QED
      BY <3>1, <3>2
  <2> QED
    BY <2>6 DEF TokensWithin
<1>8. ASSUME NEW r \in Req, DrawToken(r) PROVE TokensWithin'
  <2> DEFINE m == job[r].email
  <2>1. PICK t \in Token : token' = [token EXCEPT ![t] = [email |-> m, used |-> FALSE]]
    BY <1>8 DEF DrawToken
  <2>2. \A e \in Email : Live(e)' \subseteq IF e = m THEN Live(e) \cup {t} ELSE Live(e)
    BY <1>t, <2>1 DEF Live, AccountsTypeOK
  <2>3. \A e \in Email : Drawers(e)' \subseteq Drawers(e) \ {r}
    BY <1>4, <1>8 DEF DrawToken
  <2>4. r \in Drawers(m)
    BY <1>8 DEF DrawToken, Drawers
  <2> HIDE DEF m
  <2>5. ASSUME NEW e \in Email PROVE Within(Live(e)', Drawers(e)')
    <3>1. CASE e = m
      <4>1. Within(Live(e) \cup {t}, Drawers(e) \ {r})
        BY <1>s, <2>4, <3>1, WithinCreated DEF TokensWithin
      <4>2. /\ Live(e)' \in SUBSET (Live(e) \cup {t})
            /\ Drawers(e)' \in SUBSET (Drawers(e) \ {r})
            /\ Drawers(e) \ {r} \in SUBSET Req
        BY <1>s, <2>2, <2>3, <3>1
      <4> QED
        BY <4>1, <4>2, WithinFewer
    <3>2. CASE e # m
      <4>1. /\ Live(e)' \in SUBSET Live(e) /\ Drawers(e)' \in SUBSET Drawers(e)
        BY <2>2, <2>3, <3>2
      <4> QED
        BY <1>s, <4>1, WithinFewer DEF TokensWithin
    <3> QED
      BY <3>1, <3>2
  <2> QED
    BY <2>5 DEF TokensWithin
<1>9. ASSUME NEW r \in Req, MarkTokenUsed(r) PROVE TokensWithin'
  <2>1. \A e \in Email : Live(e)' \subseteq Live(e)
    <3> DEFINE t == job[r].token
    <3>1. token' = token \/ (token[t] # None /\ token' = [token EXCEPT ![t].used = TRUE])
      BY <1>9 DEF MarkTokenUsed
    <3>2. ASSUME token[t] # None, token' = [token EXCEPT ![t].used = TRUE], t \in Token
          PROVE  \A e \in Email : Live(e)' \subseteq Live(e)
      <4>1. token[t] \in Reset /\ token'[t] = [token[t] EXCEPT !.used = TRUE]
        BY <1>t, <3>2 DEF AccountsTypeOK
      <4>2. token'[t].used
        BY <4>1 DEF Reset
      <4>3. \A x \in Token \ {t} : token'[x] = token[x]
        BY <1>t, <3>2 DEF AccountsTypeOK
      <4> QED
        BY <4>2, <4>3 DEF Live
    <3>3. ASSUME t \notin Token, token' = [token EXCEPT ![t].used = TRUE]
          PROVE  \A e \in Email : Live(e)' \subseteq Live(e)
      <4>1. \A x \in Token : token'[x] = token[x]
        BY <1>t, <3>3 DEF AccountsTypeOK
      <4> QED
        BY <4>1 DEF Live
    <3> QED
      BY <1>2, <3>1, <3>2, <3>3
  <2> QED
    BY <1>1, <1>4, <1>9, <2>1 DEF MarkTokenUsed
<1>10. ASSUME NEW t \in Token, ExpireToken(t) PROVE TokensWithin'
  <2>1. \A e \in Email : Live(e)' \subseteq Live(e) /\ Drawers(e)' = Drawers(e)
    BY <1>10, <1>t DEF ExpireToken, Live, Drawers, Doing, AccountsTypeOK
  <2> QED
    BY <1>1, <2>1
<1>11. ASSUME UNCHANGED token, \A e \in Email : Drawers(e)' \subseteq Drawers(e)
       PROVE  TokensWithin'
  BY <1>1, <1>2, <1>11
<1>12. ASSUME NEW r \in Req, AccountsStep(r) PROVE TokensWithin'
  <2>1. ASSUME NEW e, NEW p, NEW u, NEW t,
               \/ Register(r, e, p) \/ AddUser(r, e, p) \/ EditUser(r, u, e, p)
               \/ ForgotPassword(r, u) \/ AddTenant(r, u, p) \/ HardDelete(r, p)
               \/ ResetPassword(r, t)
        PROVE  TokensWithin'
    <3>1. UNCHANGED token
      BY <2>1
         DEF Register, AddUser, EditUser, ForgotPassword, AddTenant, HardDelete,
             ResetPassword, documents
    <3>2. \E op, at, e1, p1, u1, t1 : at # "draw" /\ Start(r, op, at, e1, p1, u1, t1)
      BY <2>1
         DEF Register, AddUser, EditUser, ForgotPassword, AddTenant, HardDelete,
             ResetPassword
    <3>3. \A x \in Email : Drawers(x)' \subseteq Drawers(x)
      BY <1>6, <3>2
    <3> QED
      BY <1>11, <3>1, <3>3
  <2>2. CASE \/ CheckPhone(r) \/ CreateTenant(r) \/ SetOwner(r) \/ WriteConfig(r)
             \/ EraseConfig(r) \/ EraseUsers(r) \/ SetPassword(r)
    <3>1. UNCHANGED token /\ job[r] # None
      BY <2>2
         DEF CheckPhone, CreateTenant, SetOwner, WriteConfig, EraseConfig, EraseUsers,
             SetPassword, Doing, documents
    <3>2. End(r) \/ \E at \in Place \ {"draw"} : Step(r, at)
      BY <2>2
         DEF CheckPhone, CreateTenant, SetOwner, WriteConfig, EraseConfig, EraseUsers,
             SetPassword, Place
    <3> QED
      BY <1>4, <1>5, <1>11, <3>1, <3>2
  <2>3. CASE CreateUser(r)
    <3>1. UNCHANGED token /\ job[r] # None
      BY <2>3 DEF CreateUser
    <3>2. CASE End(r)
      BY <1>4, <1>11, <3>1, <3>2
    <3>3. ASSUME NEW u \in User, job' = [job EXCEPT ![r].user = u, ![r].at = "owner"]
          PROVE  TokensWithin'
      <4>1. job[r] \in Job /\ job'[r] = [job[r] EXCEPT !.user = u, !.at = "owner"]
        BY <1>t, <3>1, <3>3, JobOf DEF AccountsTypeOK
      <4>2. job'[r].at # "draw"
        BY <4>1 DEF Job
      <4>3. \A x \in Req \ {r} : job'[x] = job[x]
        BY <1>t, <3>3 DEF AccountsTypeOK
      <4> QED
        BY <1>3, <1>11, <3>1, <4>2, <4>3
    <3> QED
      BY <2>3, <3>2, <3>3 DEF CreateUser
  <2>4. CASE TryActivate(r) \/ SaveUser(r) \/ EraseTenant(r) \/ FailJob(r)
    BY <1>4, <1>11, <2>4 DEF TryActivate, SaveUser, EraseTenant, FailJob, documents
  <2> QED
    BY <1>7, <1>8, <1>9, <1>12, <2>1, <2>2, <2>3, <2>4 DEF AccountsStep
<1>13. CASE (\E u \in User, yes \in BOOLEAN : SetActive(u, yes)) \/ UNCHANGED accountsVars
  BY <1>11, <1>13 DEF SetActive, accountsVars, Drawers, Doing
<1> QED
  BY <1>10, <1>12, <1>13 DEF AccountsNext

\* No more tokens of an e-mail work than requests for one were on their way at
\* once (auth.service.ts forgotPassword).
THEOREM FewTokens == AccountsSpec => []TokensBounded
<1>1. AccountsInit => TokensWithin
  <2> SUFFICES ASSUME AccountsInit, NEW e \in Email PROVE Within(Live(e), Drawers(e))
    BY DEF TokensWithin
  <2>1. Live(e) = {} /\ Drawers(e) \in SUBSET Req
    BY DEF AccountsInit, Live, Drawers
  <2> QED
    BY <2>1, WithinNone
<1>2. TokensWithin => TokensBounded
  <2> SUFFICES ASSUME TokensWithin, NEW e \in Email
               PROVE  Cardinality(Live(e)) <= Cardinality(Req)
    BY DEF TokensBounded
  <2>1. Drawers(e) \in SUBSET Req
    BY DEF Drawers
  <2> QED
    BY <2>1, WithinBound DEF TokensWithin
<1> QED
  BY <1>1, <1>2, AccountsInvariant, TokensStep, PTL DEF AccountsSpec
=============================================================================
