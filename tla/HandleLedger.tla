---------------------------- MODULE HandleLedger ----------------------------
(***************************************************************************)
(* The handle ledger of a batched patch, over the write lane of            *)
(* WriteBatch.  An append recreates an entity of the drawing the patch was *)
(* taken from; AutoCAD gives it a handle of its own, known only from the   *)
(* result file of the operation.  A relink ties a hatch to its boundary    *)
(* entities by handle.  tools/patch_engine.py keeps the ledger (source     *)
(* handle to new handle), fills it after every batch, and translates or    *)
(* refuses the relinks of the next one; tools/patch_batch_executor.py      *)
(* calls it back for batches it runs and for batches it skips.             *)
(*                                                                         *)
(* A source handle is the operation that recreates its entity.  Every      *)
(* action of WriteBatch takes its effect on handles along.                 *)
(***************************************************************************)
EXTENDS WriteBatch

CONSTANT
  LinkPlans  \* the patches: links[i] is the set of operations whose entities
             \* operation i relinks, {} for an append, and with 0 in it when it
             \* relinks an entity that no operation recreates (a deferred one)

\* A relink shares no batch with other operations (the planner's barrier) and
\* is authored behind the appends it depends on.
ASSUME LinkAssumption ==
  \A l \in LinkPlans :
    /\ l \in [Ops -> SUBSET (0 .. N)]
    /\ \A b \in Batches : \A i, j \in OpsOf(b) : l[i] = {} <=> l[j] = {}
    /\ \A i \in Ops : \A j \in l[i] : j < i /\ (j # 0 => l[j] = {})

VARIABLES
  links,  \* the patch
  pairs,  \* handle_map_doc["pairs"] of this call: per operation its handle, or 0
  given,  \* new_handle in the result file of each operation, 0 if there is none
  job,    \* the ledger as it was translated into the job documents on disk
  ents,   \* staged_input.dwg, entity by entity along dwg: handle and references
  ments   \* the same of the drawing in the session's memory

ledger == <<links, pairs, given, job, ents, ments>>
lvars  == <<vars, ledger>>

NoHandles == [i \in Ops |-> 0]

LInit ==
  /\ Init
  /\ links \in LinkPlans
  /\ pairs = NoHandles /\ given = NoHandles /\ job = NoHandles
  /\ ents = << >> /\ ments = << >>

-----------------------------------------------------------------------------
(* The caller: apply_staged makes a new, empty ledger for every call.      *)

LFirstCall == FirstCall /\ pairs' = NoHandles /\ UNCHANGED <<links, given, job, ents, ments>>

LResumeCall == ResumeCall /\ pairs' = NoHandles /\ UNCHANGED <<links, given, job, ents, ments>>

LReapplyCall ==
  /\ \E rs \in BOOLEAN : ReapplyCall(rs)
  /\ pairs' = NoHandles /\ ents' = << >>
  /\ UNCHANGED <<links, given, job, ments>>

-----------------------------------------------------------------------------
(* The executor's callbacks.                                               *)

\* op_result_cb for the operations in S that are ok: the new handle is read from
\* the result file.  The result of a relink names none.
Harvest(S) == [i \in Ops |-> IF i \in S /\ links[i] = {} THEN given[i] ELSE pairs[i]]

\* Variant: nothing is harvested for a skipped batch.
SkipHarvestNone == pairs

\* The replay for a batch that is skipped.
SkipHarvest == Harvest(OpsOf(cur))

LSkipBatch == SkipBatch /\ pairs' = SkipHarvest /\ UNCHANGED <<links, given, job, ents, ments>>

\* Sources of the relinks of the batch that have no entry in the ledger.
Missing == {j \in UNION {links[i] : i \in OpsOf(cur)} : j = 0 \/ pairs[j] = 0}

\* pre_batch_cb: ASSOC_RELINK_UNRESOLVED.
LRefuseBatch == RefuseBatch /\ Missing # {} /\ UNCHANGED ledger

\* pre_batch_cb: census handles are swapped for rebuilt ones in the job documents.
LLaunchBatch ==
  /\ LaunchBatch
  /\ Missing = {}
  /\ job' = pairs
  /\ UNCHANGED <<links, pairs, given, ents, ments>>

LReturn ==
  /\ AcceptBatch \/ StopBatch
  /\ pairs' = Harvest(OkOf(envelope[cur]))
  /\ UNCHANGED <<links, given, job, ents, ments>>

-----------------------------------------------------------------------------
(* The session.                                                            *)

LRouterStart == RouterStart /\ ments' = ents /\ UNCHANGED <<links, pairs, given, job, ents>>

Handles(es) == {es[k].handle : k \in DOMAIN es} \cup {0}

\* AutoCAD numbers upward from the seed saved with the drawing and takes numbers
\* for objects of its own in between.  The numbers of a drawing that was never
\* saved are given out again.
NewHandles ==
  LET top == CHOOSE h \in Handles(ments) : \A g \in Handles(ments) : g <= h
  IN {top + 1, top + 2}

\* Variant: a result file that is there is not written over.
NamedOnce(h) == IF given[at] # 0 THEN given ELSE [given EXCEPT ![at] = h]

\* The result file of an append names the handle of its entity.
Named(h) == [given EXCEPT ![at] = h]

AppendEntity(h) ==
  /\ JobOk
  /\ links[at] = {}
  /\ ments' = Append(ments, [handle |-> h, refs |-> {}])
  /\ given' = Named(h)
  /\ UNCHANGED <<links, pairs, job, ents>>

\* Every handle of the job document is looked up before anything is changed.
Resolves == \A j \in links[at] : job[j] # 0 /\ job[j] \in Handles(ments)

\* A relink refers the hatch to the entities its job document names, or reports
\* ASSOC_RELINK_..._NOT_FOUND.
RelinkHatch ==
  /\ session = "jobs" /\ loaded /\ at <= Last[sbatch] /\ links[at] # {}
  /\ IF Resolves
     THEN /\ JobOk
          /\ ments' = Append(ments, [handle |-> 0, refs |-> {<<j, job[j]>> : j \in links[at]}])
     ELSE /\ result' = [result EXCEPT ![at] = "error"]
          /\ at' = at + 1
          /\ UNCHANGED <<caller, dwg, marker, envelope, session, sbatch, loaded, mem,
                         router, exec, calls, ments>>
  /\ UNCHANGED <<links, pairs, given, job, ents>>

LSaveDwg == SaveDwg /\ ents' = ments /\ UNCHANGED <<links, pairs, given, job, ments>>

-----------------------------------------------------------------------------
LCaller == LFirstCall \/ LResumeCall \/ LReapplyCall

LExecutor ==
  LSkipBatch \/ LRefuseBatch \/ LLaunchBatch \/ LReturn \/ (Finish /\ UNCHANGED ledger)

LRouter ==
  LRouterStart \/ ((RouterRefuse \/ RouterTimeout \/ RouterCollect) /\ UNCHANGED ledger)

LSession ==
  \/ \E h \in NewHandles : AppendEntity(h)
  \/ RelinkHatch
  \/ LSaveDwg
  \/ (JobError \/ JobUnknown \/ WriteMarker \/ Quit) /\ UNCHANGED ledger

LNext == LCaller \/ LExecutor \/ LRouter \/ LSession \/ (Faulty /\ UNCHANGED ledger)

\* The fairness of WriteBatch, over its actions with their ledger.
LSpec ==
  /\ LInit /\ [][LNext]_lvars
  /\ WF_lvars(LExecutor) /\ WF_lvars(LRouter) /\ WF_lvars(LSession)

-----------------------------------------------------------------------------
(* Properties.                                                             *)

\* In the staged drawing every relinked hatch refers to the very entities that
\* its sources became there, although a session that was not saved, or an
\* earlier call, may have given the same operations other handles.
LinksRight ==
  \A k \in DOMAIN ents : \A r \in ents[k].refs :
    \E m \in DOMAIN ents : dwg[m] = r[1] /\ ents[m].handle = r[2]

\* A call that is refused as ASSOC_RELINK_UNRESOLVED relinks something that is
\* really not in the staged drawing: the entries of batches that are skipped
\* are replayed (issue #47).
RefusedMeansMissing ==
  pc = "done" /\ advice = "refused" =>
    \E i \in OpsOf(cur) : \E j \in links[i] : j \notin Persisted(dwg)
=============================================================================
