---------------------------- MODULE BaitDelivery ----------------------------
(***************************************************************************)
(* The bait documents of the management process (views.py).  A document    *)
(* calls a token's address when it is opened, and an alert is traced to    *)
(* the file whose row has that token.  A file is made of a row, a document *)
(* on disk and a token that alert_server issues for the row's seed, always *)
(* the same for the same seed.  Whoever downloads a file, and a repair of  *)
(* all of them, first renews what is no longer alive.                      *)
(*                                                                         *)
(* Requests run side by side, each with a database session of its own,     *)
(* whose changes the next commit writes, also those an earlier step of the *)
(* request left behind when it failed.                                     *)
(***************************************************************************)
EXTENDS Naturals, FiniteSetsExt

CONSTANTS
    MaxFile,  \* files
    Legacy,   \* files that were made before rows had seeds
    Plain,    \* files whose name has no random tag, those of the unnamed template
    Place,    \* containers and hosts
    Request,
    None, Unborn, Torn

File == 1..MaxFile
Old(f) == <<"old", f>>         \* the token, and the seeds that may be used for f
Random(f) == <<"random", f>>
ById(f) == <<"id", f>>
Token == {<<kind, f>> : kind \in {"old", "random", "id"}, f \in File}

VARIABLES
    bait,      \* committed rows of the files, Unborn before the first
    document,  \* what each document on disk calls: a token, or nothing
    planted,   \* documents that were given away and call a token: [file, token]
    inside,    \* documents put into places: [file, place, name]
    deployed,  \* rows of filedeploy: [file, place]
    removed,   \* of these, what was removed and answered with success
    request

vars == <<bait, document, planted, inside, deployed, removed, request>>

NoRequest == [op |-> "none", pc |-> "idle", file |-> None, place |-> None, todo |-> {},
              forced |-> FALSE, session |-> <<>>]
Exists(f) == bait[f] \notin {None, Unborn}

\* What the proofs assume of the constants.
BaitAssumption ==
    /\ MaxFile \in Nat /\ None # Unborn /\ None \notin File /\ {None, Torn} \cap Token = {}
    /\ Unborn \notin [token : Token, seed : Token \cup {None}]

TypeOK ==
    /\ bait \in [File -> [token : Token, seed : Token \cup {None}] \cup {None, Unborn}]
    /\ document \in [File -> Token \cup {None, Torn}]
    /\ planted \subseteq [file : File, token : Token]
    /\ inside \subseteq [file : File, place : Place, name : {"name", "short name"}]
    /\ deployed \cup removed \subseteq [file : File, place : Place]
    /\ \A r \in Request :
          /\ request[r].op \in {"none", "create", "delete", "deploy", "user", "agent", "repair"}
          /\ request[r].pc \in {"idle", "look", "issue", "write", "commit", "serve", "end", "erase", "record"}
          /\ request[r].file \in File \cup {None} /\ request[r].place \in Place \cup {None}
          /\ request[r].todo \subseteq File /\ DOMAIN request[r].session \subseteq File
          /\ \A f \in DOMAIN request[r].session :
                request[r].session[f] \in [token : Token \cup {None}, seed : Token]

Init ==
    /\ bait = [f \in File |-> IF f \in Legacy THEN [token |-> Old(f), seed |-> None] ELSE Unborn]
    /\ document = [f \in File |-> IF f \in Legacy THEN Old(f) ELSE None]
    /\ planted = {} /\ inside = {} /\ deployed = {} /\ removed = {}
    /\ request = [r \in Request |-> NoRequest]

Given(f) == IF document[f] \in Token THEN {[file |-> f, token |-> document[f]]} ELSE {}

Start(r, op, pc, f) ==
    /\ request[r].pc = "idle"
    /\ request' = [request EXCEPT ![r] = [NoRequest EXCEPT !.op = op, !.pc = pc, !.file = f]]
Goto(r, pc) == request' = [request EXCEPT ![r].pc = pc]
End(r) == request' = [request EXCEPT ![r] = NoRequest]

-----------------------------------------------------------------------------
\* _file_create_v2 draws a seed, has a token issued for it, and writes the document
\* under a name of its own before there is a row.
Create(r, f) ==
    /\ bait[f] = Unborn /\ bait' = [bait EXCEPT ![f] = None]
    /\ Start(r, "create", "issue", f)
    /\ UNCHANGED <<document, planted, inside, deployed, removed>>

\* file_download, agent_file_download.
Download(r, op, f) ==
    /\ Exists(f) /\ op \in {"user", "agent"} /\ Start(r, op, "look", f)
    /\ UNCHANGED <<bait, document, planted, inside, deployed, removed>>

\* _repair_all_local_honeyfiles goes through the files in the order of their ids,
\* by request also through those that are alive.
First(files) == IF files = {} THEN None ELSE Min(files)
Repair(r, forced) ==
    /\ request[r].pc = "idle"
    /\ LET files == {f \in File : Exists(f)} IN
       request' = [request EXCEPT ![r] = [NoRequest EXCEPT !.op = "repair", !.forced = forced,
                      !.pc = IF files = {} THEN "end" ELSE "look", !.file = First(files), !.todo = files]]
    /\ UNCHANGED <<bait, document, planted, inside, deployed, removed>>

\* With the file done, or given up, a repair looks at the next; a download goes on
\* to serve it, a user's even if the file could not be renewed; the others end.
Done(r, ok, session) ==
    LET left == request[r].todo \ {request[r].file} IN
    request' = [request EXCEPT ![r] =
        CASE @.op = "repair" -> [@ EXCEPT !.todo = left, !.file = First(left), !.session = session,
                                          !.pc = IF left = {} THEN "end" ELSE "look"]
          [] @.op = "user" \/ (@.op = "agent" /\ ok) -> [@ EXCEPT !.pc = "serve", !.session = session]
          [] OTHER -> NoRequest]

-----------------------------------------------------------------------------
\* What a session has changed is written as a whole, if its rows are still there.
CanCommit(session) == \A f \in DOMAIN session : Exists(f)
Committed(session) ==
    [f \in File |->
        IF f \notin DOMAIN session THEN bait[f]
        ELSE [session[f] EXCEPT !.token = IF @ = None THEN bait[f].token ELSE @]]

\* _ensure_honeyfile_source_metadata: a row without a seed gets one.
Seed(f) == IF bait[f].seed = None THEN ById(f) ELSE bait[f].seed
With(r, f, token, seed) ==
    LET session == request[r].session
    IN  [g \in DOMAIN session \cup {f} |->
            IF g = f THEN [token |-> token, seed |-> seed] ELSE session[g]]

\* _ensure_local_honeyfile_is_live: if the token counts as alive, as it does when
\* alert_server does not answer, and the document calls it, nothing is to be done,
\* but for a new seed to be saved.  Otherwise a token is asked for.
LookAlive(r) ==
    LET f == request[r].file
        session == With(r, f, None, Seed(f))
    IN  /\ request[r].pc = "look" /\ Exists(f) /\ ~request[r].forced
        /\ document[f] = bait[f].token
        /\ \/ bait[f].seed # None /\ Done(r, TRUE, request[r].session) /\ UNCHANGED bait
           \/ bait[f].seed = None /\ CanCommit(session) /\ bait' = Committed(session) /\ Done(r, TRUE, <<>>)
           \/ bait[f].seed = None /\ End(r) /\ UNCHANGED bait
        /\ UNCHANGED <<document, planted, inside, deployed, removed>>

LookDead(r) ==
    LET f == request[r].file IN
    /\ request[r].pc = "look" /\ Exists(f)
    /\ request' = [request EXCEPT ![r].pc = "issue", ![r].session = With(r, f, None, Seed(f))]
    /\ UNCHANGED <<bait, document, planted, inside, deployed, removed>>

\* The row was deleted in the meantime, which nobody expects.
LookGone(r) ==
    /\ request[r].pc = "look" /\ ~Exists(request[r].file) /\ End(r)
    /\ UNCHANGED <<bait, document, planted, inside, deployed, removed>>

\* Deviation: a renewed file gets a seed of its own, as a new one does.
IssueAnew(r) ==
    LET f == request[r].file
        seed == IF request[r].op = "create" THEN Random(f) ELSE ById(f)
    IN  /\ request[r].pc = "issue"
        /\ \/ request' = [request EXCEPT ![r].pc = "write", ![r].session = With(r, f, seed, seed)]
           \/ Done(r, FALSE, request[r].session)
        /\ UNCHANGED <<bait, document, planted, inside, deployed, removed>>

\* getToken: the token of a seed, whether alert_server has issued it before, does so
\* now, or, beside a SQLite file, is not asked; or none.
Issue(r) ==
    LET f == request[r].file
        seed == IF request[r].op = "create" THEN Random(f) ELSE request[r].session[f].seed
    IN  /\ request[r].pc = "issue"
        /\ \/ request' = [request EXCEPT ![r].pc = "write", ![r].session = With(r, f, seed, seed)]
           \/ Done(r, FALSE, request[r].session)
        /\ UNCHANGED <<bait, document, planted, inside, deployed, removed>>

\* gen_tokened_word, gen_tokened_excel, _regenerate_honeyfile_document.  A failure
\* may leave the old document or a torn one, and leaves the session as it is.
Write(r) ==
    LET f == request[r].file IN
    /\ request[r].pc = "write"
    /\ \/ document' = [document EXCEPT ![f] = request[r].session[f].token] /\ Goto(r, "commit")
       \/ document' \in {document, [document EXCEPT ![f] = Torn]}
          /\ Done(r, FALSE, request[r].session)
    /\ UNCHANGED <<bait, planted, inside, deployed, removed>>

Commit(r) ==
    LET created == request[r].op = "create" IN
    /\ request[r].pc = "commit"
    /\ \/ (created \/ CanCommit(request[r].session)) /\ bait' = Committed(request[r].session) /\ Done(r, TRUE, <<>>)
       \/ Done(r, FALSE, <<>>) /\ UNCHANGED bait
    /\ UNCHANGED <<document, planted, inside, deployed, removed>>

\* refresh_file_alert_metadata and the commit after it end a repair.
EndRepair(r) ==
    /\ request[r].pc = "end" /\ End(r)
    /\ \/ CanCommit(request[r].session) /\ bait' = Committed(request[r].session)
       \/ UNCHANGED bait
    /\ UNCHANGED <<document, planted, inside, deployed, removed>>

\* send_file, of what is on disk by now.
Serve(r) ==
    LET f == request[r].file IN
    /\ request[r].pc = "serve" /\ End(r)
    /\ planted' = planted \cup Given(f)
    /\ UNCHANGED <<bait, document, inside, deployed, removed>>

\* A restart ends all requests.
Restart ==
    /\ \E r \in Request : request[r].pc # "idle"
    /\ request' = [r \in Request |-> NoRequest]
    /\ UNCHANGED <<bait, document, planted, inside, deployed, removed>>

-----------------------------------------------------------------------------
\* file_delete takes the document away before it asks the database, which keeps the
\* row of a file that is deployed.
Delete(r, f) ==
    /\ Exists(f) /\ Start(r, "delete", "erase", f)
    /\ document' = [document EXCEPT ![f] = None]
    /\ UNCHANGED <<bait, planted, inside, deployed, removed>>

Erase(r) ==
    LET f == request[r].file IN
    /\ request[r].pc = "erase" /\ End(r)
    /\ bait' = IF Exists(f) /\ ~\E d \in deployed : d.file = f THEN [bait EXCEPT ![f] = None] ELSE bait
    /\ UNCHANGED <<document, planted, inside, deployed, removed>>

\* file_deploy, to a container: the document that is on disk goes in under the name
\* without the tag, or does not; the row is written either way, unless that fails.
Deploy(r, f, p) ==
    /\ Exists(f) /\ document[f] # None
    /\ request[r].pc = "idle"
    /\ request' = [request EXCEPT ![r] = [NoRequest EXCEPT !.op = "deploy", !.pc = "record", !.file = f, !.place = p]]
    /\ \/ /\ planted' = planted \cup Given(f)
          /\ inside' = inside \cup {[file |-> f, place |-> p, name |-> IF f \in Plain THEN "name" ELSE "short name"]}
          /\ removed' = removed \ {[file |-> f, place |-> p]}
       \/ UNCHANGED <<planted, inside, removed>>
    /\ UNCHANGED <<bait, document, deployed>>

Record(r) ==
    LET f == request[r].file IN
    /\ request[r].pc = "record" /\ End(r)
    /\ \/ Exists(f) /\ deployed' = deployed \cup {[file |-> f, place |-> request[r].place]}
       \/ UNCHANGED deployed
    /\ UNCHANGED <<bait, document, planted, inside, removed>>

\* file_deploy to a host, file_deploy_add: a row only.
Note(f, p) ==
    /\ Exists(f) /\ deployed' = deployed \cup {[file |-> f, place |-> p]}
    /\ UNCHANGED <<bait, document, planted, inside, removed, request>>

\* What rm -rf leaves in the place of a deployment.
AfterRm(d) == {b \in inside : ~(b.file = d.file /\ b.place = d.place /\ b.name = "name")}

\* file_deploy_modify moves the row, and nothing else.
Modify(d, p) ==
    /\ d \in deployed /\ deployed' = (deployed \ {d}) \cup {[d EXCEPT !.place = p]}
    /\ UNCHANGED <<bait, document, planted, inside, removed, request>>

\* file_deploy_remove, by id: where the container still is, the file is removed
\* there first.  The row stays if that fails, or the commit does.
Remove(d) ==
    /\ d \in deployed
    /\ \/ inside' = AfterRm(d) /\ removed' = removed \cup {d} /\ deployed' = deployed \ {d}
       \/ UNCHANGED <<inside, removed>> /\ deployed' = deployed \ {d}
       \/ inside' = AfterRm(d) /\ UNCHANGED <<deployed, removed>>
    /\ UNCHANGED <<bait, document, planted, request>>

\* All of them, or those of a place, in one transaction at the end, which an
\* exception on the way never reaches; where rm fails the row stays.
RemoveAll ==
    \E done \in SUBSET deployed \ {{}} :
        /\ inside' = {b \in inside : \A d \in done : b \in AfterRm(d)}
        /\ \/ deployed' = deployed \ done /\ removed' = removed \cup done
           \/ UNCHANGED <<deployed, removed>>
        /\ UNCHANGED <<bait, document, planted, request>>

Ensure(r) == LookAlive(r) \/ LookDead(r) \/ LookGone(r) \/ Issue(r) \/ Write(r) \/ Commit(r)

Next ==
    \/ \E r \in Request, f \in File : Create(r, f) \/ Delete(r, f)
    \/ \E r \in Request, f \in File, op \in {"user", "agent"} : Download(r, op, f)
    \/ \E r \in Request, forced \in BOOLEAN : Repair(r, forced)
    \/ \E r \in Request, f \in File, p \in Place : Deploy(r, f, p)
    \/ \E r \in Request : Ensure(r) \/ EndRepair(r) \/ Serve(r) \/ Erase(r) \/ Record(r)
    \/ \E f \in File, p \in Place : Note(f, p)
    \/ \E d \in deployed, p \in Place : Modify(d, p)
    \/ \E d \in deployed : Remove(d)
    \/ RemoveAll
    \/ Restart

Spec == Init /\ [][Next]_vars

-----------------------------------------------------------------------------
Renewed(f) == f \in Legacy /\ bait[f].token = Old(f) /\ bait'[f].token = ById(f)

Lead ==
    \A f \in File : Exists(f)' =>
        /\ Exists(f) => bait'[f].token = bait[f].token \/ Renewed(f)
        /\ \A b \in planted' : b.file = f =>
              b.token = bait'[f].token \/ (f \in Legacy /\ b.token \in {Old(f), ById(f)})

\* Through whatever renewals, repairs, failures and restarts: a document that was
\* given away calls the token of its file's row, for as long as there is one, and the
\* row never changes its token.  Only for a file from before seeds is there a second
\* token: its row changes to that at most once, never back, and its documents call one of
\* the two.  Such a document leads nowhere while the row holds the other one: planted
\* before the renewal, or served after a renewal whose commit failed
\* (_ensure_local_honeyfile_is_live, views.py:1859).
BaitsResolve == [][Lead]_vars

\* A bait whose removal was answered with success is no longer there (file_deploy_remove,
\* views.py:4261: "delete the deployed file bait").
RemovedIsGone ==
    \A d \in removed : \A b \in inside : ~(b.file = d.file /\ b.place = d.place)
=============================================================================
