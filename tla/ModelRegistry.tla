---------------------------- MODULE ModelRegistry ----------------------------
(***************************************************************************)
(* The models table and who writes it: every start of the API syncs the    *)
(* version it serves (sync_active_model, src/api/service.py), and the      *)
(* evidence sync links the historical model (_link_model,                  *)
(* src/application/evidence_sync.py).  Each is one transaction of several  *)
(* statements under READ COMMITTED: a SELECT sees what is committed when   *)
(* it runs, an UPDATE locks the rows it changes, an INSERT of a version    *)
(* that another transaction is inserting waits for it.                     *)
(***************************************************************************)
CONSTANTS
  Version,           \* the model versions an API may be configured with
  EvidenceVersion,   \* models/model_metadata.json's model_version
  Api,               \* API processes on the same database
  Sync               \* evidence syncs that may run at the same time

ASSUME EvidenceAssumption == EvidenceVersion \in Version

VARIABLES
  table,    \* the committed rows: is there one of the version, and is_active
  order,    \* <<v, w>> if the id of w's row is greater: drawn at the INSERT, not the commit
  api,      \* per API process: the state of its lifespan and what it holds
  link      \* per evidence sync: what its transaction did with its row

registryVars == <<table, order, api, link>>

NoApi == [state |-> "down", version |-> EvidenceVersion, found |-> FALSE,
          active |-> FALSE, touched |-> {}]

RegistryInit ==
  /\ table = [v \in Version |-> [present |-> FALSE, active |-> FALSE]]
  /\ order = {}
  /\ api = [p \in Api |-> NoApi]
  /\ link = [s \in Sync |-> "none"]

Present(v) == table[v].present
ActiveVersions == {v \in Version : Present(v) /\ table[v].active}
Inserted == [present |-> TRUE, active |-> TRUE]
Inserting(v) == v = EvidenceVersion /\ \E s \in Sync : link[s] = "inserted"

\* GET /api/models/active: the active row with the greatest id.
Reported == CHOOSE v \in ActiveVersions : \A w \in ActiveVersions \ {v} : <<w, v>> \in order

\* An INSERT draws a greater id than all before it, committed or not.
Rows == {v \in Version : Present(v) \/ Inserting(v)}
OrderWith(v) == order \cup {<<w, v>> : w \in Rows}

\* Rows that a transaction has changed and not committed, p's apart.
LinkLocks == {v \in {EvidenceVersion} : \E s \in Sync : link[s] = "updated"}
LockedFor(p) == LinkLocks \cup UNION {api[q].touched : q \in Api \ {p}}
Locked == LinkLocks \cup UNION {api[p].touched : p \in Api}

-----------------------------------------------------------------------------
(* sync_active_model in the lifespan of an API process.                    *)

\* The model is loaded and its row read.
StartRead(p, v) ==
  /\ api[p].state = "down"
  /\ api' = [api EXCEPT ![p] = [state |-> "read", version |-> v, found |-> Present(v),
                                active |-> table[v].active, touched |-> {}]]
  /\ UNCHANGED <<table, order, link>>

\* Deviation: the rollback helper's idea of leaving other rows alone.
DeactivateNothing(p) ==
  /\ api[p].state = "read"
  /\ api' = [api EXCEPT ![p].state = "deactivated"]
  /\ UNCHANGED <<table, order, link>>

\* UPDATE models SET is_active = false WHERE model_version != version
Deactivate(p) ==
  LET others == {v \in Version \ {api[p].version} : Present(v)}
  IN /\ api[p].state = "read"
     /\ others \cap LockedFor(p) = {}
     /\ api' = [api EXCEPT ![p].state = "deactivated", ![p].touched = others]
     /\ UNCHANGED <<table, order, link>>

\* The flush at the commit writes is_active = true only if that differs from
\* what the SELECT returned, and inserts the row if there was none.
Commit(p) ==
  LET v == api[p].version IN
  /\ api[p].state = "deactivated"
  /\ IF api[p].found THEN v \notin LockedFor(p) \/ api[p].active
     ELSE ~Present(v) /\ ~Inserting(v)
  /\ table' = [w \in Version |->
       IF w \in api[p].touched THEN [table[w] EXCEPT !.active = FALSE]
       ELSE IF w # v THEN table[w]
       ELSE IF ~api[p].found THEN Inserted
       ELSE [table[w] EXCEPT !.active = @ \/ ~api[p].active]]
  /\ order' = IF api[p].found THEN order ELSE OrderWith(v)
  /\ api' = [api EXCEPT ![p].state = "up", ![p].touched = {}]
  /\ UNCHANGED link

\* The row was inserted by someone else in between (unique violation), a
\* deadlock, or the database is gone: the lifespan raises and rolls back.
StartFails(p) ==
  /\ api[p].state \in {"read", "deactivated"}
  /\ api' = [api EXCEPT ![p] = NoApi]
  /\ UNCHANGED <<table, order, link>>

Stop(p) ==
  /\ api[p].state = "up"
  /\ api' = [api EXCEPT ![p] = NoApi]
  /\ UNCHANGED <<table, order, link>>

ApiStep(p) ==
  \/ \E v \in Version : StartRead(p, v)
  \/ Deactivate(p) \/ Commit(p) \/ StartFails(p) \/ Stop(p)

\* register_inactive_model, which the integration run calls beside an API that
\* serves another version: one transaction.
RegisterInactive(v) ==
  /\ \A p \in Api : api[p].state = "up" /\ api[p].version # v
  /\ ~Inserting(v) /\ v \notin Locked
  /\ table' = [table EXCEPT ![v] = [present |-> TRUE, active |-> FALSE]]
  /\ order' = IF Present(v) THEN order ELSE OrderWith(v)
  /\ UNCHANGED <<api, link>>

-----------------------------------------------------------------------------
(* _link_model in an evidence sync's transaction.                          *)

\* Deviation: the row is committed as soon as it is inserted.
LinkInsertsEarly(s) ==
  /\ ~Present(EvidenceVersion)
  /\ link' = [link EXCEPT ![s] = "inserted"]
  /\ order' = OrderWith(EvidenceVersion)
  /\ table' = [table EXCEPT ![EvidenceVersion] = Inserted]
  /\ UNCHANGED api

\* A missing row is inserted, active.  An INSERT that meets a row committed
\* since the SELECT fails, and the sync with it.
LinkInserts(s) ==
  /\ ~Present(EvidenceVersion) /\ ~Inserting(EvidenceVersion)
  /\ link' = [link EXCEPT ![s] = "inserted"]
  /\ order' = OrderWith(EvidenceVersion)
  /\ UNCHANGED <<table, api>>

\* A row that is there stays active or inactive as it is; it is written, and
\* locked, only if its link or its provenance changes.
LinkUpdates(s) ==
  /\ Present(EvidenceVersion)
  /\ \/ link' = [link EXCEPT ![s] = "unchanged"]
     \/ EvidenceVersion \notin Locked /\ link' = [link EXCEPT ![s] = "updated"]
  /\ UNCHANGED <<table, order, api>>

\* Deviation: the synced model is made the active one, like a served one.
LinkCommitExclusive(s) ==
  /\ table' = IF link[s] = "none" THEN table
              ELSE [v \in Version |-> IF v = EvidenceVersion THEN Inserted
                                      ELSE [table[v] EXCEPT !.active = FALSE]]
  /\ link' = [link EXCEPT ![s] = "none"]
  /\ UNCHANGED <<order, api>>

LinkCommit(s) ==
  /\ table' = IF link[s] = "inserted" THEN [table EXCEPT ![EvidenceVersion] = Inserted]
              ELSE table
  /\ link' = [link EXCEPT ![s] = "none"]
  /\ UNCHANGED <<order, api>>

LinkRollback(s) ==
  /\ order' = IF link[s] = "inserted" THEN {e \in order : EvidenceVersion \notin {e[1], e[2]}}
              ELSE order
  /\ link' = [link EXCEPT ![s] = "none"]
  /\ UNCHANGED <<table, api>>

-----------------------------------------------------------------------------
RegistryTypeOK ==
  /\ table \in [Version -> [present : BOOLEAN, active : BOOLEAN]]
  /\ order \subseteq Rows \X Rows
  /\ \A v, w \in Rows : <<v, w>> \in order <=> v # w /\ <<w, v>> \notin order
  /\ api \in [Api -> [state : {"down", "read", "deactivated", "up"}, version : Version,
                      found : BOOLEAN, active : BOOLEAN, touched : SUBSET Version]]
  /\ link \in [Sync -> {"none", "unchanged", "updated", "inserted"}]

\* A served version is active for as long as it is served: with one API nobody
\* else deactivates it, whatever the evidence sync does meanwhile and whatever
\* was served before (sync_active_model's two statements and its flush).
ServedIsActive ==
  \A p \in Api : api[p].state = "up" => api[p].version \in ActiveVersions

\* GET /api/models/active reports the served version, whatever was served
\* before, with one exception: the evidence version, if the sync inserted its
\* row, active, after the served version's row.
ReportedIsServedOrNewer ==
  \A p \in Api : api[p].state = "up" =>
    \/ Reported = api[p].version
    \/ Reported = EvidenceVersion /\ <<api[p].version, EvidenceVersion>> \in order
=============================================================================
