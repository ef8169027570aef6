------------------------------ MODULE Accounts ------------------------------
(***************************************************************************)
(* The users: internal/identity behind the authentication of TokenKeys.     *)
(*                                                                          *)
(* A user is found by the subject of the token, under which the identity    *)
(* provider knows them, and has an id of Canopy's own making.  Registering  *)
(* and editing a profile read the row first and write it afterwards.        *)
(* Publishing what they did is left out: nothing here hears of it.          *)
(***************************************************************************)
EXTENDS TokenKeys

CONSTANTS
    Subjects,   \* who the tokens speak of
    Texts       \* display names, mail addresses, pictures

VARIABLES
    users,      \* the rows, by external_id, which is unique
    configs,    \* user_llm_configs: the ids that have a configuration
    job,        \* what each request was asked to do
    copy,       \* the row a request works on
    told        \* history: which subject was told which id

uvars == <<users, configs, job, copy, told>>
avars == <<kvars, uvars>>

-----------------------------------------------------------------------------
(* NewUser generates the id; no two requests generate the same. *)
User == [id : Requests, name : Texts, avatar : Texts \cup {None}]

Operation ==
    [op : {"register"}, subject : Subjects, name : Texts]
      \cup [op : {"profile"}, subject : Subjects, name : Texts \cup {None},
            avatar : Texts \cup {None}]
      \cup [op : {"me", "config", "unset", "watch"}, subject : Subjects]

ASSUME AccountsAssumption == None \notin User \cup Operation \cup Texts

UInit ==
    /\ users = [s \in Subjects |-> None]
    /\ configs = {}
    /\ job = [r \in Requests |-> None]
    /\ copy = [r \in Requests |-> None]
    /\ told = {}

Row(r) == users[job[r].subject]

(* The subject is a claim of the token; the rest is decoded from the path   *)
(* and the body, if it can be.                                              *)
Decode(r) ==
    /\ at[r] = "admitted"
    /\ \/ (\E j \in Operation : job' = [job EXCEPT ![r] = j]) /\ ToStep(r, "decoded")
       \/ UNCHANGED job /\ ToStep(r, "ended")
    /\ UNCHANGED <<users, configs, copy, told>>

Finish(r) ==
    /\ job' = [job EXCEPT ![r] = None]
    /\ copy' = [copy EXCEPT ![r] = None]
    /\ ToStep(r, "ended")

Answer(r, u) == told' = told \cup {<<job[r].subject, u>>} /\ Finish(r)

Fail(r) == UNCHANGED told /\ Finish(r)

(* What handleGetMe does, and how Register and UpdateProfile begin. *)
FindByExternalID(r) ==
    /\ at[r] = "decoded"
    /\ \/ job[r].op = "register" /\ Row(r) = None /\ ToStep(r, "missing")
          /\ UNCHANGED <<job, copy, told>>
       \/ job[r].op = "profile" /\ Row(r) # None /\ ToStep(r, "found")
          /\ copy' = [copy EXCEPT ![r] = Row(r)]
          /\ UNCHANGED <<job, told>>
       \/ job[r].op \in {"register", "me"} /\ Row(r) # None /\ Answer(r, Row(r).id)
       \/ job[r].op \in {"profile", "me"} /\ Row(r) = None /\ Fail(r)
    /\ UNCHANGED <<users, configs>>

NewUser(r) == [id |-> r, name |-> job[r].name, avatar |-> None]

(* Mutant of CreateUser: whoever comes second replaces the row. *)
CreateOrReplaceUser(r) ==
    /\ at[r] = "missing"
    /\ users' = [users EXCEPT ![job[r].subject] = NewUser(r)]
    /\ Answer(r, r)
    /\ UNCHANGED configs

(* Of two requests that both found no user, the second violates the unique  *)
(* external_id.                                                             *)
CreateUser(r) ==
    /\ at[r] = "missing"
    /\ IF Row(r) = None
       THEN users' = [users EXCEPT ![job[r].subject] = NewUser(r)] /\ Answer(r, r)
       ELSE UNCHANGED users /\ Fail(r)
    /\ UNCHANGED configs

(* An empty name leaves the name; an empty picture removes the picture. *)
UpdateProfile(r) ==
    [copy[r] EXCEPT !.name = IF job[r].name = None THEN @ ELSE job[r].name,
                    !.avatar = job[r].avatar]

(* The whole row, found by its id. *)
UpdateUser(r) ==
    /\ at[r] = "found"
    /\ IF UpdateProfile(r) = copy[r]
       THEN UNCHANGED users /\ Fail(r)
       ELSE /\ users' = [s \in Subjects |->
                            IF users[s] # None /\ users[s].id = copy[r].id
                            THEN UpdateProfile(r) ELSE users[s]]
            /\ Answer(r, copy[r].id)
    /\ UNCHANGED configs

(* The row refers to a user by id, and is given the subject. *)
SetLLMConfig(r) ==
    /\ at[r] = "decoded"
    /\ job[r].op = "config"
    /\ configs' = configs \cup {s \in {job[r].subject} :
                                  \E t \in Subjects : users[t] # None /\ users[t].id = s}
    /\ Finish(r)
    /\ UNCHANGED <<users, told>>

DeleteLLMConfig(r) ==
    /\ at[r] = "decoded"
    /\ job[r].op = "unset"
    /\ configs' = configs \ {job[r].subject}
    /\ Finish(r)
    /\ UNCHANGED <<users, told>>

(* A request whose next step is a call of the database. *)
AtDatabase(r) ==
    at[r] \in {"missing", "found"} \/ (at[r] = "decoded" /\ job[r].op # "watch")

CallFails(r) ==
    /\ AtDatabase(r)
    /\ Fail(r)
    /\ UNCHANGED <<users, configs>>

AccountStep(r) ==
    FindByExternalID(r) \/ CreateUser(r) \/ UpdateUser(r)
      \/ SetLLMConfig(r) \/ DeleteLLMConfig(r)

(* The connection leaves the HTTP server's hands. *)
ServeConn(r) ==
    /\ at[r] = "decoded"
    /\ job[r].op = "watch"
    /\ ToStep(r, "watching")
    /\ job' = [job EXCEPT ![r] = None]
    /\ UNCHANGED <<users, configs, copy, told>>

-----------------------------------------------------------------------------
(* Type correctness of the accounts. *)
AccountsTypeOK ==
    /\ users \in [Subjects -> User \cup {None}]
    /\ configs \in SUBSET Subjects
    /\ job \in [Requests -> Operation \cup {None}]
    /\ copy \in [Requests -> User \cup {None}]
    /\ told \in SUBSET (Subjects \X Requests)

(* However often somebody registers, asks or edits, and however these       *)
(* requests overlap: all are answered with one and the same user, and the   *)
(* row of that user is kept.                                                *)
OneUserPerSubject ==
    \A t \in told : users[t[1]] # None /\ users[t[1]].id = t[2]
=============================================================================
